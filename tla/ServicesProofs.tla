--------------------------- MODULE ServicesProofs ---------------------------
(***************************************************************************)
(* Proofs about Services, for every set of bindings and any number of      *)
(* refusals, failures, lost answers and restarts.                          *)
(***************************************************************************)
EXTENDS Services, TLAPS

-----------------------------------------------------------------------------
(* Types.                                                                  *)

InstanceStatus ==
    [ready : BOOLEAN, failed : BOOLEAN, creds : BOOLEAN, lastOp : LastOperation]
BindingStatus == [ready : BOOLEAN, failed : BOOLEAN, env : BOOLEAN, mount : BOOLEAN]

InstanceRun == [pc : {"read", "poll"}, new : CFServiceInstance]
InstancePatch ==
    [pc : {"patch"}, requeue : BOOLEAN, remove : BOOLEAN, new : InstanceStatus]
BindingRun == [pc : {"read", "poll"}, b : Bindings, new : CFServiceBinding]
BindingPatch ==
    [pc : {"patch"}, b : Bindings, requeue : BOOLEAN, remove : BOOLEAN, new : BindingStatus]

ObjectsInv == si \in CFServiceInstance /\ sb \in [Bindings -> CFServiceBinding]

InstanceCInv ==
    /\ siC.pc \in {"idle", "read", "poll", "patch"}
    /\ siC.pc = "idle" => siC = Idle
    /\ siC.pc \in {"read", "poll"} => siC \in InstanceRun
    /\ siC.pc = "patch" => siC \in InstancePatch

BindingCInv ==
    /\ sbC.pc \in {"idle", "read", "poll", "patch"}
    /\ sbC.pc = "idle" => sbC = Idle
    /\ sbC.pc \in {"read", "poll"} => sbC \in BindingRun
    /\ sbC.pc = "patch" => sbC \in BindingPatch

BrokerInv == broker \in [inst : BrokerStates, bind : [Bindings -> BrokerStates]]

RestInv ==
    /\ plan \in BOOLEAN
    /\ queue \subseteq Bindings \cup {Instance}
    /\ faults \in 0..MaxFaults

TypeInv == ObjectsInv /\ InstanceCInv /\ BindingCInv /\ BrokerInv /\ RestInv

\* It gives the type invariant of the module.
LEMMA TypeSuffices ==
    ASSUME TypeInv
    PROVE  TypeOK
BY DEF TypeInv, ObjectsInv, InstanceCInv, BindingCInv, BrokerInv, RestInv, TypeOK

\* The parts of the objects.
LEMMA ObjectFields ==
    /\ \A i \in CFServiceInstance :
          /\ i.phase \in Phases /\ i.type \in {"managed", "user-provided"} /\ i.params \in BOOLEAN
          /\ i.purge \in BOOLEAN /\ i.ready \in BOOLEAN /\ i.failed \in BOOLEAN /\ i.creds \in BOOLEAN
          /\ i.lastOp \in LastOperation
    /\ \A x \in CFServiceBinding :
          /\ x.phase \in Phases /\ x.type \in {"app", "key"} /\ x.params \in BOOLEAN
          /\ x.ready \in BOOLEAN /\ x.failed \in BOOLEAN /\ x.env \in BOOLEAN /\ x.mount \in BOOLEAN
BY DEF CFServiceInstance, CFServiceBinding

\* The copies the workers take.
LEMMA Copies ==
    /\ \A i \in CFServiceInstance :
          /\ Copy(i) \in CFServiceInstance /\ Copy(i).phase = i.phase /\ Copy(i).purge = i.purge
          /\ Copy(i).ready = i.ready /\ Copy(i).lastOp = i.lastOp
    /\ \A x \in CFServiceBinding :
          /\ Copy(x) \in CFServiceBinding /\ Copy(x).phase = x.phase /\ Copy(x).env = x.env
BY DEF Copy, CFServiceInstance, CFServiceBinding

\* What the instance worker returns is a patch of the status.
LEMMA ReturnEffect ==
    ASSUME NEW i \in CFServiceInstance, NEW q \in BOOLEAN, NEW r \in BOOLEAN, Return(i, q, r)
    PROVE  /\ siC' \in InstancePatch /\ siC'.pc = "patch" /\ siC'.remove = r
           /\ siC'.new.ready = i.ready /\ siC'.new.lastOp = i.lastOp
<1> DEFINE n == Restrict(i, {"ready", "failed", "creds", "lastOp"})
<1>1. n \in InstanceStatus /\ n.ready = i.ready /\ n.lastOp = i.lastOp
  BY DEF Restrict, CFServiceInstance, InstanceStatus
<1>2. siC' = [pc |-> "patch", requeue |-> q, remove |-> r, new |-> n]
  BY DEF Return
<1> HIDE DEF n
<1> QED
  BY <1>1, <1>2 DEF InstancePatch

\* The same when the instance is not ready, or ready.
LEMMA ReadyEffect ==
    ASSUME NEW i \in CFServiceInstance, NEW q \in BOOLEAN
    PROVE  /\ NotReady(i, q) => /\ siC' \in InstancePatch /\ siC'.pc = "patch" /\ ~siC'.remove
                                /\ ~siC'.new.ready
           /\ Ready(i) => /\ siC' \in InstancePatch /\ siC'.pc = "patch" /\ ~siC'.remove
                          /\ siC'.new.ready /\ siC'.new.lastOp = i.lastOp
<1>1. \A v \in BOOLEAN : LET x == [i EXCEPT !.ready = v]
                         IN  x \in CFServiceInstance /\ x.ready = v /\ x.lastOp = i.lastOp
  BY DEF CFServiceInstance
<1> QED
  BY <1>1, ReturnEffect DEF NotReady, Ready

\* What the binding worker returns is a patch of the status.
LEMMA ReturnBEffect ==
    ASSUME NEW x \in CFServiceBinding, NEW q \in BOOLEAN, NEW r \in BOOLEAN, ReturnB(x, q, r),
           sbC.b \in Bindings
    PROVE  /\ sbC' \in BindingPatch /\ sbC'.pc = "patch" /\ sbC'.remove = r /\ sbC'.b = sbC.b
           /\ sbC'.new.env = x.env
<1> DEFINE n == Restrict(x, {"ready", "failed", "env", "mount"})
<1>1. n \in BindingStatus /\ n.env = x.env
  BY DEF Restrict, CFServiceBinding, BindingStatus
<1>2. sbC' = [pc |-> "patch", b |-> sbC.b, requeue |-> q, remove |-> r, new |-> n]
  BY DEF ReturnB
<1> HIDE DEF n
<1> QED
  BY <1>1, <1>2 DEF BindingPatch

\* The same when the binding is not ready, or ready.
LEMMA ReadyBEffect ==
    ASSUME NEW x \in CFServiceBinding, NEW q \in BOOLEAN, sbC.b \in Bindings,
           NotReadyB(x, q) \/ ReadyB(x, q)
    PROVE  /\ sbC' \in BindingPatch /\ sbC'.pc = "patch" /\ ~sbC'.remove /\ sbC'.b = sbC.b
           /\ sbC'.new.env = x.env
<1>1. \A v \in BOOLEAN : LET y == [x EXCEPT !.ready = v] IN y \in CFServiceBinding /\ y.env = x.env
  BY DEF CFServiceBinding
<1> QED
  BY <1>1, ReturnBEffect DEF NotReadyB, ReadyB

\* Requests to create answer and leave the broker so.
LEMMA CreateEffect ==
    ASSUME NEW before, NEW reply, NEW after, Call(CreateReplies, before, reply, after)
    PROVE  /\ reply = "ok" => after = "present"
           /\ reply = "async" => after = "creating"
           /\ reply # "gone"
           /\ before = "present" => after = "present"
           /\ after # before => after \in {"present", "creating"}
BY DEF Call, CreateReplies

\* Requests to delete, too.
LEMMA DeleteEffect ==
    ASSUME NEW before, NEW reply, NEW after, Call(DeleteReplies, before, reply, after)
    PROVE  /\ reply \in {"ok", "gone"} => after = "none"
           /\ reply = "async" => after = "deleting"
           /\ after # before => after \in {"none", "deleting"}
           /\ before = "none" => after = "none"
<1>1. ASSUME NEW r, NEW s, <<before, r, s>> \in DeleteReplies
      PROVE  /\ r \in {"ok", "gone"} => s = "none"
             /\ r = "async" => s = "deleting"
             /\ s # before => s \in {"none", "deleting"}
             /\ before = "none" => s = "none"
  BY <1>1 DEF DeleteReplies
<1> QED
  BY <1>1 DEF Call

\* Failures are counted within their bound.
LEMMA FaultType ==
    ASSUME RestInv, Fault \/ NoFault \/ UNCHANGED faults
    PROVE  faults' \in 0..MaxFaults
BY FaultsAssumption DEF RestInv, Fault, NoFault

\* What is queued is an instance or a binding.
LEMMA EnqueueType ==
    ASSUME NEW base \in SUBSET (Bindings \cup {Instance}), Enqueue(base)
    PROVE  queue' \subseteq Bindings \cup {Instance}
BY DEF Enqueue

-----------------------------------------------------------------------------
(* What the steps of the workers do.                                       *)

\* Deleting the bindings leaves those that exist in existence.
LEMMA DeleteBindingsEffect ==
    ASSUME ObjectsInv, DeleteBindings
    PROVE  /\ sb' \in [Bindings -> CFServiceBinding]
           /\ \A b \in Bindings :
                 /\ sb'[b].phase = IF sb[b].phase = "live" THEN "deleting" ELSE sb[b].phase
                 /\ sb'[b].env = sb[b].env
<1>1. ASSUME NEW b \in Bindings
      PROVE  /\ sb'[b] \in CFServiceBinding /\ sb'[b].env = sb[b].env
             /\ sb'[b].phase = IF sb[b].phase = "live" THEN "deleting" ELSE sb[b].phase
  <2>1. sb[b] \in CFServiceBinding
    BY DEF ObjectsInv
  <2>2. sb'[b] = IF sb[b].phase = "live" THEN [sb[b] EXCEPT !.phase = "deleting"] ELSE sb[b]
    BY DEF DeleteBindings
  <2> QED
    BY <2>1, <2>2 DEF CFServiceBinding, Phases
<1> QED
  BY <1>1 DEF DeleteBindings

\* The instance worker returns without a request to the broker.
LEMMA InstanceReturns ==
    ASSUME TypeInv,
           \/ InstanceAssetsFail \/ SkipProvision \/ ReconcileUserProvided
           \/ WaitForBindings \/ ForgetInstance
    PROVE  /\ UNCHANGED <<si, plan, broker, sbC>> /\ siC.pc = "read" /\ siC' \in InstancePatch
           /\ UNCHANGED sb \/ DeleteBindings
           /\ siC'.remove => /\ Existing = {} /\ siC.new.phase = "deleting"
                             /\ si.type = "user-provided" \/ siC.new.purge
           /\ siC'.new.ready =>
                 \/ siC'.remove \/ si.type = "user-provided"
                 \/ siC.new.ready /\ siC'.new.lastOp = siC.new.lastOp
<1>1. siC.pc = "read" => siC.new \in CFServiceInstance
  BY DEF TypeInv, InstanceCInv, InstanceRun
<1>2. CASE InstanceAssetsFail
  BY <1>1, <1>2, ReadyEffect DEF InstanceAssetsFail
<1>3. CASE SkipProvision
  <2>1. siC.pc = "read" /\ UNCHANGED <<si, sb, plan, broker, sbC>>
    BY <1>3 DEF SkipProvision, At
  <2>2. \/ siC.new.ready /\ Ready(siC.new)
        \/ NotReady(siC.new, FALSE) \/ NotReady(siC.new, TRUE)
    BY <1>3 DEF SkipProvision
  <2> QED
    BY <1>1, <2>1, <2>2, ReadyEffect
<1>4. CASE ReconcileUserProvided
  <2>1. /\ siC.pc = "read" /\ si.type = "user-provided" /\ UNCHANGED <<si, sb, plan, broker, sbC>>
    BY <1>4 DEF ReconcileUserProvided, At
  <2> DEFINE i == [siC.new EXCEPT !.creds = TRUE, !.lastOp =
                     IF siC.new.creds THEN @ ELSE Operation("create", "succeeded")]
  <2>2. i \in CFServiceInstance
    BY <1>1, <2>1 DEF CFServiceInstance, Operation, LastOperation
  <2>3. NotReady(siC.new, TRUE) \/ Ready(i)
    BY <1>4 DEF ReconcileUserProvided
  <2> HIDE DEF i
  <2> QED
    BY <1>1, <2>1, <2>2, <2>3, ReadyEffect
<1>5. CASE WaitForBindings
  BY <1>1, <1>5, ReadyEffect DEF WaitForBindings
<1>6. CASE ForgetInstance
  BY <1>1, <1>6, ReturnEffect DEF ForgetInstance, EnsureNoServiceBindings
<1> QED
  BY <1>2, <1>3, <1>4, <1>5, <1>6

\* It asks the broker for the instance.
LEMMA ProvisionEffect ==
    ASSUME TypeInv, ProvisionInstance
    PROVE  /\ UNCHANGED <<si, sb, plan, sbC>>
           /\ siC.pc = "read" /\ siC.new.phase = "live" /\ si.type = "managed" /\ ~siC.new.ready
           /\ \E s \in BrokerStates :
                 /\ broker' = [broker EXCEPT !.inst = s]
                 /\ s # broker.inst => s \in {"present", "creating"}
                 /\ broker.inst = "present" => s = "present"
                 /\ \/ /\ siC' \in InstancePatch /\ ~siC'.remove
                       /\ siC'.new.ready =>
                            s = "present" /\ siC'.new.lastOp = Operation("create", "succeeded")
                    \/ /\ siC' \in InstanceRun /\ siC'.pc = "poll" /\ s = "creating"
                       /\ siC'.new.phase = "live" /\ siC'.new.purge = siC.new.purge
                       /\ siC'.new.lastOp.type = "create"
<1>1. /\ siC.pc = "read" /\ siC.new.phase = "live" /\ si.type = "managed" /\ ~siC.new.ready
      /\ UNCHANGED <<si, sb, plan, sbC>>
  BY DEF ProvisionInstance, At
<1>2. siC.new \in CFServiceInstance
  BY <1>1 DEF TypeInv, InstanceCInv, InstanceRun
<1> DEFINE i == [siC.new EXCEPT !.lastOp = Operation("create", "initial")]
           ok == [i EXCEPT !.lastOp.state = "succeeded"]
           bad == [i EXCEPT !.lastOp.state = "failed", !.failed = TRUE]
<1>3. /\ i \in CFServiceInstance /\ i.phase = siC.new.phase /\ i.purge = siC.new.purge
      /\ i.lastOp = Operation("create", "initial")
  BY <1>2 DEF CFServiceInstance, Operation, LastOperation
<1>4. PICK reply \in Replies, s \in BrokerStates :
         /\ Call(CreateReplies, broker.inst, reply, s)
         /\ broker' = [broker EXCEPT !.inst = s]
         /\ \/ reply = "ok" /\ Ready(ok)
            \/ reply = "async" /\ siC' = [pc |-> "poll", new |-> i]
            \/ reply = "error" /\ NotReady(i, TRUE)
            \/ reply = "unrecoverable" /\ NotReady(bad, TRUE)
  BY DEF ProvisionInstance
<1> HIDE DEF i
<1>5. ok \in CFServiceInstance /\ ok.lastOp = Operation("create", "succeeded")
  <2>1. ok \in CFServiceInstance /\ ok.lastOp = Operation(i.lastOp.type, "succeeded")
    BY <1>3 DEF CFServiceInstance, Operation, LastOperation
  <2>2. i.lastOp.type = "create"
    BY <1>3 DEF Operation
  <2> QED
    BY <2>1, <2>2
<1>6. bad \in CFServiceInstance
  BY <1>3 DEF CFServiceInstance, Operation, LastOperation
<1> HIDE DEF ok, bad
<1>7. /\ reply = "ok" => s = "present"
      /\ reply = "async" => s = "creating"
      /\ s # broker.inst => s \in {"present", "creating"}
      /\ broker.inst = "present" => s = "present"
  BY <1>4, CreateEffect
<1>8. CASE reply = "ok" /\ Ready(ok)
  BY <1>1, <1>4, <1>5, <1>7, <1>8, ReadyEffect
<1>9. CASE reply = "async" /\ siC' = [pc |-> "poll", new |-> i]
  <2>1. /\ siC' \in InstanceRun /\ siC'.pc = "poll" /\ siC'.new.phase = "live"
        /\ siC'.new.purge = siC.new.purge /\ siC'.new.lastOp.type = "create"
    BY <1>1, <1>3, <1>9 DEF InstanceRun, Operation
  <2> QED
    BY <1>1, <1>4, <1>7, <1>9, <2>1
<1>10. CASE NotReady(i, TRUE) \/ NotReady(bad, TRUE)
  BY <1>1, <1>3, <1>4, <1>6, <1>7, <1>10, ReadyEffect
<1> QED
  BY <1>4, <1>8, <1>9, <1>10

\* It asks the broker to give the instance up.
LEMMA DeprovisionEffect ==
    ASSUME TypeInv, DeprovisionInstance
    PROVE  /\ UNCHANGED <<si, plan, sbC>> /\ DeleteBindings /\ Existing = {}
           /\ siC.pc = "read" /\ siC.new.phase = "deleting" /\ si.type = "managed"
           /\ \E s \in BrokerStates :
                 /\ broker' = [broker EXCEPT !.inst = s]
                 /\ s # broker.inst => s \in {"none", "deleting"}
                 /\ broker.inst = "none" => s = "none"
                 /\ \/ /\ siC' \in InstancePatch
                       /\ IF siC'.remove THEN s = "none" ELSE ~siC'.new.ready
                    \/ /\ siC' \in InstanceRun /\ siC'.pc = "poll" /\ s = "deleting"
                       /\ siC'.new.phase = "deleting" /\ siC'.new.purge = siC.new.purge
<1>1. /\ siC.pc = "read" /\ siC.new.phase = "deleting" /\ si.type = "managed" /\ Existing = {}
      /\ UNCHANGED <<si, plan, sbC>> /\ DeleteBindings
  BY DEF DeprovisionInstance, At, EnsureNoServiceBindings
<1>2. siC.new \in CFServiceInstance
  BY <1>1 DEF TypeInv, InstanceCInv, InstanceRun
<1> DEFINE i == [siC.new EXCEPT !.lastOp = Operation("delete", "initial")]
           bad == [i EXCEPT !.lastOp.state = "failed"]
<1>3. /\ i \in CFServiceInstance /\ i.phase = siC.new.phase /\ i.purge = siC.new.purge
  BY <1>2 DEF CFServiceInstance, Operation, LastOperation
<1>4. PICK reply \in Replies, s \in BrokerStates :
         /\ Call(DeleteReplies, broker.inst, reply, s)
         /\ broker' = [broker EXCEPT !.inst = s]
         /\ \/ reply \in {"ok", "gone"} /\ Return(i, FALSE, TRUE)
            \/ reply = "async" /\ siC' = [pc |-> "poll", new |-> i]
            \/ reply = "error" /\ NotReady(i, TRUE)
            \/ reply = "unrecoverable" /\ NotReady(bad, TRUE)
  BY DEF DeprovisionInstance
<1> HIDE DEF i
<1>5. bad \in CFServiceInstance
  BY <1>3 DEF CFServiceInstance, LastOperation
<1> HIDE DEF bad
<1>6. /\ reply \in {"ok", "gone"} => s = "none"
      /\ reply = "async" => s = "deleting"
      /\ s # broker.inst => s \in {"none", "deleting"}
      /\ broker.inst = "none" => s = "none"
  BY <1>4, DeleteEffect
<1>7. CASE reply \in {"ok", "gone"} /\ Return(i, FALSE, TRUE)
  BY <1>1, <1>3, <1>4, <1>6, <1>7, ReturnEffect
<1>8. CASE reply = "async" /\ siC' = [pc |-> "poll", new |-> i]
  <2>1. /\ siC' \in InstanceRun /\ siC'.pc = "poll" /\ siC'.new.phase = "deleting"
        /\ siC'.new.purge = siC.new.purge
    BY <1>1, <1>3, <1>8 DEF InstanceRun
  <2> QED
    BY <1>1, <1>4, <1>6, <1>8, <2>1
<1>9. CASE NotReady(i, TRUE) \/ NotReady(bad, TRUE)
  BY <1>1, <1>3, <1>4, <1>5, <1>6, <1>9, ReadyEffect
<1> QED
  BY <1>4, <1>7, <1>8, <1>9

\* It polls the last operation.
LEMMA PollEffect ==
    ASSUME TypeInv, PollInstance
    PROVE  /\ UNCHANGED <<si, sb, plan, broker, sbC>> /\ siC.pc = "poll" /\ siC' \in InstancePatch
           /\ siC'.remove => siC.new.phase = "deleting" /\ broker.inst \in {"present", "none"}
           /\ siC'.new.ready /\ ~siC'.remove =>
                 /\ siC.new.phase = "live" /\ broker.inst \in {"present", "none"}
                 /\ siC'.new.lastOp = Operation(siC.new.lastOp.type, "succeeded")
<1>1. siC.pc = "poll" /\ UNCHANGED <<si, sb, plan, broker, sbC>>
  BY DEF PollInstance
<1>2. siC.new \in CFServiceInstance
  BY <1>1 DEF TypeInv, InstanceCInv, InstanceRun
<1>3. PICK answer \in Answers :
         /\ Poll(broker.inst, answer)
         /\ LET i == [siC.new EXCEPT !.lastOp.state = Value(answer)] IN
             \/ answer = "error" /\ NotReady(siC.new, TRUE)
             \/ /\ answer # "error" /\ i.phase = "live"
                /\ ProcessProvisionOperation(i, answer)
             \/ /\ answer # "error" /\ i.phase = "deleting"
                /\ ProcessDeprovisionOperation(i, answer)
  BY DEF PollInstance
<1> DEFINE i == [siC.new EXCEPT !.lastOp.state = Value(answer)]
           failed == [i EXCEPT !.failed = TRUE]
<1>4. Value(answer) \in {"in progress", "succeeded", "failed"}
  BY DEF Value
<1>5. /\ i \in CFServiceInstance /\ i.phase = siC.new.phase
      /\ i.lastOp = Operation(siC.new.lastOp.type, Value(answer))
  BY <1>2, <1>4 DEF CFServiceInstance, Operation, LastOperation
<1>6. \/ answer = "error" /\ NotReady(siC.new, TRUE)
      \/ i.phase = "live" /\ answer = "succeeded" /\ Ready(i)
      \/ NotReady(failed, TRUE) \/ NotReady(i, TRUE)
      \/ i.phase = "deleting" /\ answer = "succeeded" /\ Return(i, FALSE, TRUE)
  BY <1>3 DEF ProcessProvisionOperation, ProcessDeprovisionOperation
<1> HIDE DEF i
<1>7. failed \in CFServiceInstance
  BY <1>5 DEF CFServiceInstance
<1> HIDE DEF failed
<1>8. answer = "succeeded" => broker.inst \in {"present", "none"} /\ Value(answer) = "succeeded"
  BY <1>3 DEF Poll, Value
<1>9. CASE NotReady(siC.new, TRUE) \/ NotReady(failed, TRUE) \/ NotReady(i, TRUE)
  BY <1>1, <1>2, <1>5, <1>7, <1>9, ReadyEffect
<1>10. CASE i.phase = "live" /\ answer = "succeeded" /\ Ready(i)
  BY <1>1, <1>5, <1>8, <1>10, ReadyEffect
<1>11. CASE i.phase = "deleting" /\ answer = "succeeded" /\ Return(i, FALSE, TRUE)
  BY <1>1, <1>5, <1>8, <1>11, ReturnEffect
<1> QED
  BY <1>6, <1>9, <1>10, <1>11

\* The binding worker returns without a request that changes the broker.
LEMMA BindingReturns ==
    ASSUME TypeInv,
           \/ BindingWithoutInstance \/ BindingAssetsFail \/ SkipBind \/ BindUserProvided
           \/ ForgetBinding \/ PollBinding
    PROVE  /\ UNCHANGED <<si, sb, plan, broker, siC, queue>> /\ sbC.pc \in {"read", "poll"}
           /\ sbC' \in BindingPatch /\ sbC'.b = sbC.b
           /\ sbC'.remove =>
                 /\ sbC.new.phase = "deleting"
                 /\ \/ si.type = "user-provided" \/ si.purge
                    \/ sbC.pc = "poll" /\ broker.bind[sbC.b] \in {"present", "none"}
           /\ sbC'.new.env = sbC.new.env \/ si.type = "user-provided"
<1>1. sbC.pc \in {"read", "poll"} => sbC.new \in CFServiceBinding /\ sbC.b \in Bindings
  BY DEF TypeInv, BindingCInv, BindingRun
<1>2. CASE BindingWithoutInstance \/ BindingAssetsFail
  BY <1>1, <1>2, ReadyBEffect DEF BindingWithoutInstance, BindingAssetsFail
<1>3. CASE SkipBind
  <2>1. sbC.pc = "read" /\ UNCHANGED <<si, sb, plan, broker, siC, queue>>
    BY <1>3 DEF SkipBind, At
  <2>2. ReadyB(sbC.new, FALSE) \/ NotReadyB(sbC.new, FALSE) \/ NotReadyB(sbC.new, TRUE)
    BY <1>3 DEF SkipBind
  <2> QED
    BY <1>1, <2>1, <2>2, ReadyBEffect
<1>4. CASE BindUserProvided
  <2>1. /\ sbC.pc = "read" /\ si.type = "user-provided"
        /\ UNCHANGED <<si, sb, plan, broker, siC, queue>>
    BY <1>4 DEF BindUserProvided, At
  <2> DEFINE both == [sbC.new EXCEPT !.env = TRUE, !.mount = TRUE]
             one == [sbC.new EXCEPT !.env = TRUE]
  <2>2. both \in CFServiceBinding /\ one \in CFServiceBinding
    BY <1>1, <2>1 DEF CFServiceBinding
  <2>3. NotReadyB(sbC.new, TRUE) \/ ReadyB(both, FALSE) \/ NotReadyB(one, TRUE)
    BY <1>4 DEF BindUserProvided
  <2> HIDE DEF both, one
  <2> QED
    BY <1>1, <2>1, <2>2, <2>3, ReadyBEffect
<1>5. CASE ForgetBinding
  BY <1>1, <1>5, ReturnBEffect DEF ForgetBinding
<1>6. CASE PollBinding
  <2>1. sbC.pc = "poll" /\ UNCHANGED <<si, sb, plan, broker, siC, queue>>
    BY <1>6 DEF PollBinding
  <2>2. PICK answer \in Answers :
          /\ Poll(broker.bind[sbC.b], answer)
          /\ \/ answer = "error" /\ NotReadyB(sbC.new, TRUE)
             \/ /\ answer # "error" /\ sbC.new.phase = "live"
                /\ ProcessBindOperation(sbC.new, answer)
             \/ /\ answer # "error" /\ sbC.new.phase = "deleting"
                /\ ProcessUnbindLastOperation(sbC.new, answer)
    BY <1>6 DEF PollBinding
  <2> DEFINE failed == [sbC.new EXCEPT !.failed = TRUE]
  <2>3. failed \in CFServiceBinding /\ failed.env = sbC.new.env
    BY <1>1, <2>1 DEF CFServiceBinding
  <2>4. \/ NotReadyB(sbC.new, TRUE) \/ ReadyB(sbC.new, TRUE) \/ NotReadyB(failed, TRUE)
        \/ /\ sbC.new.phase = "deleting" /\ answer = "succeeded"
           /\ ReturnB(sbC.new, FALSE, TRUE)
    BY <2>2 DEF ProcessBindOperation, ProcessUnbindLastOperation
  <2> HIDE DEF failed
  <2>5. answer = "succeeded" => broker.bind[sbC.b] \in {"present", "none"}
    BY <2>2 DEF Poll
  <2>6. CASE NotReadyB(sbC.new, TRUE) \/ ReadyB(sbC.new, TRUE) \/ NotReadyB(failed, TRUE)
    BY <1>1, <2>1, <2>3, <2>6, ReadyBEffect
  <2>7. CASE /\ sbC.new.phase = "deleting" /\ answer = "succeeded"
             /\ ReturnB(sbC.new, FALSE, TRUE)
    BY <1>1, <2>1, <2>5, <2>7, ReturnBEffect
  <2> QED
    BY <2>4, <2>6, <2>7
<1> QED
  BY <1>2, <1>3, <1>4, <1>5, <1>6

\* It asks the broker for the binding.
LEMMA BindEffect ==
    ASSUME TypeInv, Bind
    PROVE  /\ UNCHANGED <<si, sb, plan, siC, queue>>
           /\ sbC.pc = "read" /\ sbC.new.phase = "live" /\ si.type = "managed" /\ Exists(si)
           /\ \E s \in BrokerStates :
                 /\ broker' = [broker EXCEPT !.bind[sbC.b] = s]
                 /\ broker.bind[sbC.b] = "present" => s = "present"
                 /\ \/ /\ sbC' \in BindingPatch /\ ~sbC'.remove /\ sbC'.b = sbC.b
                       /\ sbC'.new.env => sbC.new.env \/ s = "present"
                    \/ sbC' = [sbC EXCEPT !.pc = "poll"]
<1>1. /\ sbC.pc = "read" /\ sbC.new.phase = "live" /\ si.type = "managed" /\ Exists(si)
      /\ UNCHANGED <<si, sb, plan, siC, queue>>
  BY DEF Bind, At
<1>2. sbC.new \in CFServiceBinding /\ sbC.b \in Bindings
  BY <1>1 DEF TypeInv, BindingCInv, BindingRun
<1> DEFINE failed == [sbC.new EXCEPT !.failed = TRUE]
           one == [sbC.new EXCEPT !.env = TRUE]
           both == [sbC.new EXCEPT !.env = TRUE, !.mount = @ \/ sbC.new.type = "app"]
<1>3. PICK reply \in Replies, s \in BrokerStates :
         /\ broker' = [broker EXCEPT !.bind[sbC.b] = s]
         /\ \/ /\ reply = "ok"
               /\ <<broker.bind[sbC.b], reply, s>> \in BindReplies
               /\ PublishCredentials(sbC.new)
            \/ /\ Call(BindReplies, broker.bind[sbC.b], reply, s)
               /\ \/ reply = "async" /\ sbC' = [sbC EXCEPT !.pc = "poll"]
                  \/ reply = "error" /\ NotReadyB(sbC.new, TRUE)
                  \/ reply = "unrecoverable" /\ NotReadyB(failed, TRUE)
  BY DEF Bind
<1>4. /\ failed \in CFServiceBinding /\ failed.env = sbC.new.env
      /\ one \in CFServiceBinding
  BY <1>2 DEF CFServiceBinding
<1>5. both \in CFServiceBinding
  <2>1. (sbC.new.mount \/ sbC.new.type = "app") \in BOOLEAN
    OBVIOUS
  <2>2. both = [sbC.new EXCEPT !.env = TRUE, !.mount = (sbC.new.mount \/ sbC.new.type = "app")]
    OBVIOUS
  <2> QED
    BY <1>2, <2>1, <2>2 DEF CFServiceBinding
<1>6. /\ PublishCredentials(sbC.new) =>
           ReadyB(both, FALSE) \/ NotReadyB(sbC.new, TRUE) \/ NotReadyB(one, TRUE)
  BY DEF PublishCredentials
<1> HIDE DEF failed, one, both
<1>7. ASSUME NEW r, NEW t, <<broker.bind[sbC.b], r, t>> \in BindReplies
      PROVE  (r = "ok" => t = "present") /\ (broker.bind[sbC.b] = "present" => t = "present")
  <2>1. CASE broker.inst \in {"present", "deleteFailed"}
    BY <1>7, <2>1 DEF BindReplies, CreateReplies
  <2>2. CASE broker.inst \notin {"present", "deleteFailed"}
    BY <1>7, <2>2 DEF BindReplies
  <2> QED
    BY <2>1, <2>2
<1>8. /\ <<broker.bind[sbC.b], reply, s>> \in BindReplies =>
           (reply = "ok" => s = "present") /\ (broker.bind[sbC.b] = "present" => s = "present")
      /\ Call(BindReplies, broker.bind[sbC.b], reply, s) =>
           (broker.bind[sbC.b] = "present" => s = "present")
  BY <1>7 DEF Call
<1>9. CASE /\ reply = "ok"
           /\ <<broker.bind[sbC.b], reply, s>> \in BindReplies
           /\ PublishCredentials(sbC.new)
  <2>1. /\ sbC' \in BindingPatch /\ ~sbC'.remove /\ sbC'.b = sbC.b
    BY <1>2, <1>4, <1>5, <1>6, <1>9, ReadyBEffect
  <2> QED
    BY <1>1, <1>3, <1>8, <1>9, <2>1
<1>10. CASE /\ Call(BindReplies, broker.bind[sbC.b], reply, s)
            /\ \/ reply = "async" /\ sbC' = [sbC EXCEPT !.pc = "poll"]
               \/ reply = "error" /\ NotReadyB(sbC.new, TRUE)
               \/ reply = "unrecoverable" /\ NotReadyB(failed, TRUE)
  BY <1>1, <1>2, <1>3, <1>4, <1>8, <1>10, ReadyBEffect
<1> QED
  BY <1>3, <1>9, <1>10

\* It asks the broker to give the binding up.
LEMMA UnbindEffect ==
    ASSUME TypeInv, Unbind
    PROVE  /\ UNCHANGED <<si, sb, plan, siC, queue>>
           /\ sbC.pc = "read" /\ sbC.new.phase = "deleting" /\ si.type = "managed" /\ Exists(si)
           /\ \E s \in BrokerStates :
                 /\ broker' = [broker EXCEPT !.bind[sbC.b] = s]
                 /\ \/ /\ sbC' \in BindingPatch /\ sbC'.b = sbC.b
                       /\ sbC'.remove => s = "none"
                    \/ sbC' = [sbC EXCEPT !.pc = "poll"] /\ s = "deleting"
<1>1. /\ sbC.pc = "read" /\ sbC.new.phase = "deleting" /\ si.type = "managed" /\ Exists(si)
      /\ UNCHANGED <<si, sb, plan, siC, queue>>
  BY DEF Unbind, At
<1>2. sbC.new \in CFServiceBinding /\ sbC.b \in Bindings
  BY <1>1 DEF TypeInv, BindingCInv, BindingRun
<1>3. PICK reply \in Replies, s \in BrokerStates :
         /\ Call(DeleteReplies, broker.bind[sbC.b], reply, s)
         /\ broker' = [broker EXCEPT !.bind[sbC.b] = s]
         /\ \/ reply \in {"ok", "gone"} /\ ReturnB(sbC.new, FALSE, TRUE)
            \/ reply = "async" /\ sbC' = [sbC EXCEPT !.pc = "poll"]
            \/ reply \in {"error", "unrecoverable"} /\ NotReadyB(sbC.new, TRUE)
  BY DEF Unbind
<1>4. /\ reply \in {"ok", "gone"} => s = "none"
      /\ reply = "async" => s = "deleting"
  BY <1>3, DeleteEffect
<1>5. CASE reply \in {"ok", "gone"} /\ ReturnB(sbC.new, FALSE, TRUE)
  BY <1>1, <1>2, <1>3, <1>4, <1>5, ReturnBEffect
<1>6. CASE reply = "async" /\ sbC' = [sbC EXCEPT !.pc = "poll"]
  BY <1>1, <1>3, <1>4, <1>6
<1>7. CASE NotReadyB(sbC.new, TRUE)
  BY <1>1, <1>2, <1>3, <1>7, ReadyBEffect
<1> QED
  BY <1>3, <1>5, <1>6, <1>7

\* The initial state is well typed.
LEMMA InitType ==
    ASSUME Init
    PROVE  TypeInv
<1>1. NoInstance \in CFServiceInstance
  BY DEF NoInstance, CFServiceInstance, Operation, LastOperation, Phases
<1>2. NoBinding \in CFServiceBinding
  BY DEF NoBinding, CFServiceBinding, Phases
<1>3. ObjectsInv
  BY <1>1, <1>2 DEF Init, ObjectsInv
<1>4. InstanceCInv /\ BindingCInv
  BY DEF Init, InstanceCInv, BindingCInv, Idle
<1>5. BrokerInv
  BY DEF Init, BrokerInv, BrokerStates
<1>6. RestInv
  BY FaultsAssumption DEF Init, RestInv
<1> QED
  BY <1>3, <1>4, <1>5, <1>6 DEF TypeInv

\* What the requests of users do to the instance.
LEMMA InstanceRequests ==
    ASSUME TypeInv,
           \/ \E t \in Types : CreateInstance(t)
           \/ CreateInstanceSecret \/ AnnotatePurge \/ DeleteInstance
    PROVE  /\ UNCHANGED <<sb, plan, broker, siC, sbC, faults>> /\ si' \in CFServiceInstance
           /\ si'.ready = si.ready /\ si'.lastOp = si.lastOp
           /\ si.purge => si'.purge
           /\ \/ si.phase = "absent" /\ si'.phase = "live"
              \/ si.phase = "live" /\ si'.phase = "deleting" /\ si'.type = si.type
              \/ si'.phase = si.phase /\ si'.type = si.type /\ Exists(si)
<1>1. si \in CFServiceInstance
  BY DEF TypeInv, ObjectsInv
<1>2. CASE \E t \in Types : CreateInstance(t)
  <2>1. PICK t \in Types : CreateInstance(t)
    BY <1>2
  <2>2. /\ si.phase = "absent" /\ si' = [si EXCEPT !.phase = "live", !.type = t]
        /\ t \in {"managed", "user-provided"} /\ UNCHANGED <<sb, plan, broker, siC, sbC, faults>>
    BY <2>1, TypesAssumption DEF CreateInstance
  <2> QED
    BY <1>1, <2>2 DEF CFServiceInstance, Phases
<1>3. CASE CreateInstanceSecret \/ AnnotatePurge \/ DeleteInstance
  <2>1. \/ si' = [si EXCEPT !.params = TRUE] /\ Exists(si)
        \/ si' = [si EXCEPT !.purge = TRUE] /\ Exists(si)
        \/ si' = [si EXCEPT !.phase = "deleting"] /\ si.phase = "live"
    BY <1>3 DEF CreateInstanceSecret, AnnotatePurge, DeleteInstance
  <2>2. UNCHANGED <<sb, plan, broker, siC, sbC, faults>>
    BY <1>3 DEF CreateInstanceSecret, AnnotatePurge, DeleteInstance
  <2> QED
    BY <1>1, <2>1, <2>2 DEF CFServiceInstance, Phases
<1> QED
  BY <1>2, <1>3

\* What they do to a binding.
LEMMA BindingRequests ==
    ASSUME TypeInv, NEW b \in Bindings,
           \/ \E t \in {"app", "key"} : CreateBinding(b, t)
           \/ CreateBindingSecret(b) \/ DeleteBinding(b)
    PROVE  /\ UNCHANGED <<si, plan, broker, siC, sbC, faults>>
           /\ sb' \in [Bindings -> CFServiceBinding]
           /\ \A c \in Bindings : c # b => sb'[c] = sb[c]
           /\ sb'[b].env = sb[b].env
           /\ \/ /\ sb[b].phase = "absent" /\ sb'[b].phase = "live"
                 /\ si.phase = "live" \/ (LateBinding /\ si.phase = "deleting")
              \/ sb[b].phase = "live" /\ sb'[b].phase = "deleting"
              \/ sb'[b].phase = sb[b].phase
<1>1. sb \in [Bindings -> CFServiceBinding] /\ sb[b] \in CFServiceBinding
  BY DEF TypeInv, ObjectsInv
<1>2. CASE \E t \in {"app", "key"} : CreateBinding(b, t)
  <2>1. PICK t \in {"app", "key"} : CreateBinding(b, t)
    BY <1>2
  <2>2. /\ si.phase = "live" \/ (LateBinding /\ si.phase = "deleting")
        /\ sb[b].phase = "absent" /\ sb' = [sb EXCEPT ![b].phase = "live", ![b].type = t]
        /\ UNCHANGED <<si, plan, broker, siC, sbC, faults>>
    BY <2>1 DEF CreateBinding
  <2> QED
    BY <1>1, <2>2 DEF CFServiceBinding, Phases
<1>3. CASE CreateBindingSecret(b) \/ DeleteBinding(b)
  <2>1. /\ \/ sb' = [sb EXCEPT ![b].params = TRUE]
           \/ sb' = [sb EXCEPT ![b].phase = "deleting"] /\ sb[b].phase = "live"
        /\ UNCHANGED <<si, plan, broker, siC, sbC, faults>>
    BY <1>3 DEF CreateBindingSecret, DeleteBinding
  <2>2. CASE sb' = [sb EXCEPT ![b].params = TRUE]
    BY <1>1, <2>1, <2>2 DEF CFServiceBinding
  <2>3. CASE sb' = [sb EXCEPT ![b].phase = "deleting"] /\ sb[b].phase = "live"
    BY <1>1, <2>1, <2>3 DEF CFServiceBinding, Phases
  <2> QED
    BY <2>1, <2>2, <2>3
<1> QED
  BY <1>2, <1>3

\* The patch of an instance.
LEMMA PatchInstanceEffect ==
    ASSUME TypeInv, PatchInstance
    PROVE  /\ UNCHANGED <<sb, plan, broker, sbC, faults>> /\ siC.pc = "patch" /\ siC' = Idle
           /\ si' \in CFServiceInstance /\ si'.type = si.type /\ si'.purge = si.purge
           /\ IF siC.remove THEN si'.phase = "gone"
              ELSE /\ si'.phase = si.phase
                   /\ si'.ready = siC.new.ready /\ si'.lastOp = siC.new.lastOp
<1>1. /\ siC.pc = "patch" /\ siC' = Idle /\ UNCHANGED <<sb, plan, broker, sbC, faults>>
      /\ si' = IF siC.remove
               THEN [NoInstance EXCEPT !.phase = "gone", !.type = si.type, !.purge = si.purge]
               ELSE [si EXCEPT !.ready = siC.new.ready, !.failed = siC.new.failed,
                               !.creds = siC.new.creds, !.lastOp = siC.new.lastOp]
  BY DEF PatchInstance
<1>2. si \in CFServiceInstance /\ siC.new \in InstanceStatus
  BY <1>1 DEF TypeInv, ObjectsInv, InstanceCInv, InstancePatch
<1>3. NoInstance \in CFServiceInstance
  BY DEF NoInstance, CFServiceInstance, Operation, LastOperation, Phases
<1>4. CASE siC.remove
  BY <1>1, <1>2, <1>3, <1>4 DEF CFServiceInstance, Phases
<1>5. CASE ~siC.remove
  BY <1>1, <1>2, <1>5 DEF CFServiceInstance, InstanceStatus
<1> QED
  BY <1>4, <1>5

\* The patch of a binding.
LEMMA PatchBindingEffect ==
    ASSUME TypeInv, PatchBinding
    PROVE  /\ UNCHANGED <<si, plan, broker, siC, faults>>
           /\ sbC.pc = "patch" /\ sbC' = Idle /\ sbC.b \in Bindings
           /\ sb' \in [Bindings -> CFServiceBinding]
           /\ \A c \in Bindings : c # sbC.b => sb'[c] = sb[c]
           /\ IF sbC.remove THEN sb'[sbC.b].phase = "gone"
              ELSE sb'[sbC.b].phase = sb[sbC.b].phase /\ sb'[sbC.b].env = sbC.new.env
<1>1. /\ sbC.pc = "patch" /\ sbC' = Idle /\ UNCHANGED <<si, plan, broker, siC, faults>>
      /\ sb' = [sb EXCEPT ![sbC.b] =
                IF sbC.remove THEN [NoBinding EXCEPT !.phase = "gone"]
                ELSE [@ EXCEPT !.ready = sbC.new.ready, !.failed = sbC.new.failed,
                               !.env = sbC.new.env, !.mount = sbC.new.mount]]
  BY DEF PatchBinding
<1>2. PICK b \in Bindings : b = sbC.b
  BY <1>1 DEF TypeInv, BindingCInv, BindingPatch
<1>3. /\ sb \in [Bindings -> CFServiceBinding] /\ sbC.new \in BindingStatus
      /\ sb[b] \in CFServiceBinding
  BY <1>1 DEF TypeInv, ObjectsInv, BindingCInv, BindingPatch
<1>4. NoBinding \in CFServiceBinding
  BY DEF NoBinding, CFServiceBinding, Phases
<1> DEFINE gone == [NoBinding EXCEPT !.phase = "gone"]
           kept == [sb[b] EXCEPT !.ready = sbC.new.ready, !.failed = sbC.new.failed,
                                 !.env = sbC.new.env, !.mount = sbC.new.mount]
<1>5. gone \in CFServiceBinding /\ gone.phase = "gone"
  BY <1>4 DEF CFServiceBinding, Phases
<1>6. kept \in CFServiceBinding /\ kept.phase = sb[b].phase /\ kept.env = sbC.new.env
  BY <1>3 DEF CFServiceBinding, BindingStatus
<1>7. sb' = [sb EXCEPT ![b] = IF sbC.remove THEN gone ELSE kept]
  BY <1>1, <1>2
<1> HIDE DEF gone, kept
<1> QED
  BY <1>1, <1>2, <1>3, <1>5, <1>6, <1>7

\* The broker finishes an operation it has accepted.
LEMMA ProgressEffect ==
    ASSUME NEW before, NEW after, Progress(before, after)
    PROVE  \/ before = "creating" /\ after \in {"present", "createFailed"}
           \/ before = "deleting" /\ after \in {"none", "deleteFailed"}
BY DEF Progress

\* Requests of users keep the types.
LEMMA RequestsType ==
    ASSUME TypeInv, API
    PROVE  TypeInv'
<1>1. queue' \subseteq Bindings \cup {Instance}
  <2>1. CASE CreateInstanceSecret \/ \E b \in Bindings : CreateBindingSecret(b)
    BY <2>1 DEF CreateInstanceSecret, CreateBindingSecret, TypeInv, RestInv
  <2>2. CASE Enqueue(queue)
    BY <2>2, EnqueueType DEF TypeInv, RestInv
  <2> QED
    BY <2>1, <2>2 DEF API, CreateInstance, AnnotatePurge, DeleteInstance, CreateBinding, DeleteBinding,
                      ShowPlan, HidePlan
<1>2. CASE ShowPlan \/ HidePlan
  <2>1. UNCHANGED <<si, sb, broker, siC, sbC>> /\ plan' \in BOOLEAN
    BY <1>2 DEF ShowPlan, HidePlan
  <2>2. faults' \in 0..MaxFaults
    BY <1>2, FaultType DEF ShowPlan, HidePlan, TypeInv
  <2> QED
    BY <1>1, <2>1, <2>2 DEF TypeInv, ObjectsInv, InstanceCInv, BindingCInv, BrokerInv, RestInv
<1>3. CASE \/ \E t \in Types : CreateInstance(t)
           \/ CreateInstanceSecret \/ AnnotatePurge \/ DeleteInstance
  BY <1>1, <1>3, InstanceRequests
     DEF TypeInv, ObjectsInv, InstanceCInv, BindingCInv, BrokerInv, RestInv
<1>4. CASE \E b \in Bindings : \/ \E t \in {"app", "key"} : CreateBinding(b, t)
                               \/ CreateBindingSecret(b) \/ DeleteBinding(b)
  BY <1>1, <1>4, BindingRequests
     DEF TypeInv, ObjectsInv, InstanceCInv, BindingCInv, BrokerInv, RestInv
<1> QED
  BY <1>2, <1>3, <1>4 DEF API

\* The instance controller keeps the types.
LEMMA InstanceControllerType ==
    ASSUME TypeInv, InstanceController
    PROVE  TypeInv'
<1>1. queue' \subseteq Bindings \cup {Instance}
  <2>1. \/ UNCHANGED queue \/ \E base \in SUBSET (Bindings \cup {Instance}) : Enqueue(base)
    BY DEF InstanceController, ReadInstance, InstanceAssetsFail, SkipProvision, ProvisionInstance,
           PollInstance, ReconcileUserProvided, WaitForBindings, ForgetInstance, DeprovisionInstance,
           PatchInstance, TypeInv, RestInv
  <2> QED
    BY <2>1, EnqueueType DEF TypeInv, RestInv
<1>2. faults' \in 0..MaxFaults
  <2>1. Fault \/ NoFault \/ UNCHANGED faults
    BY DEF InstanceController, ReadInstance, InstanceAssetsFail, SkipProvision, ProvisionInstance,
           PollInstance, ReconcileUserProvided, WaitForBindings, ForgetInstance, DeprovisionInstance,
           PatchInstance, Call, Poll
  <2> QED
    BY <2>1, FaultType DEF TypeInv
<1>3. CASE ReadInstance
  <2>1. UNCHANGED <<si, sb, plan, broker, sbC>>
    BY <1>3 DEF ReadInstance
  <2>2. Copy(si) \in CFServiceInstance
    BY Copies DEF TypeInv, ObjectsInv
  <2>3. InstanceCInv'
    BY <1>3, <2>2 DEF ReadInstance, InstanceCInv, InstanceRun, Idle
  <2> QED
    BY <1>1, <1>2, <2>1, <2>3 DEF TypeInv, ObjectsInv, BindingCInv, BrokerInv, RestInv
<1>4. CASE \/ InstanceAssetsFail \/ SkipProvision \/ ReconcileUserProvided
           \/ WaitForBindings \/ ForgetInstance
  <2>1. UNCHANGED <<si, plan, broker, sbC>> /\ siC' \in InstancePatch
    BY <1>4, InstanceReturns
  <2>2. ObjectsInv'
    BY <1>4, <2>1, InstanceReturns, DeleteBindingsEffect DEF TypeInv, ObjectsInv
  <2>3. InstanceCInv'
    BY <2>1 DEF InstanceCInv, InstancePatch
  <2> QED
    BY <1>1, <1>2, <2>1, <2>2, <2>3 DEF TypeInv, BindingCInv, BrokerInv, RestInv
<1>5. CASE ProvisionInstance
  <2>1. UNCHANGED <<si, sb, plan, sbC>> /\ (siC' \in InstancePatch \/ siC' \in InstanceRun)
    BY <1>5, ProvisionEffect
  <2>2. \E s \in BrokerStates : broker' = [broker EXCEPT !.inst = s]
    BY <1>5, ProvisionEffect
  <2>3. BrokerInv'
    BY <2>2 DEF TypeInv, BrokerInv
  <2>4. InstanceCInv'
    BY <2>1 DEF InstanceCInv, InstancePatch, InstanceRun
  <2> QED
    BY <1>1, <1>2, <2>1, <2>3, <2>4 DEF TypeInv, ObjectsInv, BindingCInv, RestInv
<1>6. CASE DeprovisionInstance
  <2>1. /\ UNCHANGED <<si, plan, sbC>> /\ (siC' \in InstancePatch \/ siC' \in InstanceRun)
        /\ DeleteBindings
    BY <1>6, DeprovisionEffect
  <2>2. \E s \in BrokerStates : broker' = [broker EXCEPT !.inst = s]
    BY <1>6, DeprovisionEffect
  <2>3. BrokerInv'
    BY <2>2 DEF TypeInv, BrokerInv
  <2>4. InstanceCInv'
    BY <2>1 DEF InstanceCInv, InstancePatch, InstanceRun
  <2>5. ObjectsInv'
    BY <2>1, DeleteBindingsEffect DEF TypeInv, ObjectsInv
  <2> QED
    BY <1>1, <1>2, <2>1, <2>3, <2>4, <2>5 DEF TypeInv, BindingCInv, RestInv
<1>7. CASE PollInstance
  <2>1. UNCHANGED <<si, sb, plan, broker, sbC>> /\ siC' \in InstancePatch
    BY <1>7, PollEffect
  <2>2. InstanceCInv'
    BY <2>1 DEF InstanceCInv, InstancePatch
  <2> QED
    BY <1>1, <1>2, <2>1, <2>2 DEF TypeInv, ObjectsInv, BindingCInv, BrokerInv, RestInv
<1>8. CASE PatchInstance
  <2>1. UNCHANGED <<sb, plan, broker, sbC>> /\ siC' = Idle /\ si' \in CFServiceInstance
    BY <1>8, PatchInstanceEffect
  <2> QED
    BY <1>1, <1>2, <2>1 DEF TypeInv, ObjectsInv, InstanceCInv, BindingCInv, BrokerInv, RestInv, Idle
<1> QED
  BY <1>3, <1>4, <1>5, <1>6, <1>7, <1>8 DEF InstanceController

\* The binding controller keeps the types.
LEMMA BindingControllerType ==
    ASSUME TypeInv, BindingController
    PROVE  TypeInv'
<1>1. faults' \in 0..MaxFaults
  <2>1. Fault \/ NoFault \/ UNCHANGED faults
    BY DEF BindingController, ReadBinding, BindingWithoutInstance, BindingAssetsFail, SkipBind, Bind,
           PollBinding, BindUserProvided, ForgetBinding, Unbind, PatchBinding, Call, Poll,
           PublishCredentials
  <2> QED
    BY <2>1, FaultType DEF TypeInv
<1>2. CASE \E b \in Bindings : ReadBinding(b)
  <2>1. PICK b \in Bindings : ReadBinding(b)
    BY <1>2
  <2>2. UNCHANGED <<si, sb, plan, broker, siC>> /\ queue' \subseteq Bindings \cup {Instance}
    BY <2>1, EnqueueType DEF ReadBinding, TypeInv, RestInv
  <2>3. Copy(sb[b]) \in CFServiceBinding
    BY Copies DEF TypeInv, ObjectsInv
  <2>4. BindingCInv'
    BY <2>1, <2>3 DEF ReadBinding, BindingCInv, BindingRun, Idle
  <2> QED
    BY <1>1, <2>2, <2>4 DEF TypeInv, ObjectsInv, InstanceCInv, BrokerInv, RestInv
<1>3. CASE \/ BindingWithoutInstance \/ BindingAssetsFail \/ SkipBind \/ BindUserProvided
           \/ ForgetBinding \/ PollBinding
  <2>1. UNCHANGED <<si, sb, plan, broker, siC, queue>> /\ sbC' \in BindingPatch
    BY <1>3, BindingReturns
  <2>2. BindingCInv'
    BY <2>1 DEF BindingCInv, BindingPatch
  <2> QED
    BY <1>1, <2>1, <2>2 DEF TypeInv, ObjectsInv, InstanceCInv, BrokerInv, RestInv
<1>4. CASE Bind \/ Unbind
  <2>1. /\ UNCHANGED <<si, sb, plan, siC, queue>> /\ sbC.pc = "read"
        /\ sbC' \in BindingPatch \/ sbC' = [sbC EXCEPT !.pc = "poll"]
        /\ \E s \in BrokerStates : broker' = [broker EXCEPT !.bind[sbC.b] = s]
    BY <1>4, BindEffect, UnbindEffect
  <2>2. sbC \in BindingRun
    BY <2>1 DEF TypeInv, BindingCInv
  <2>3. sbC' \in BindingPatch \/ sbC' \in BindingRun
    BY <2>1, <2>2 DEF BindingRun
  <2>4. BindingCInv'
    BY <2>3 DEF BindingCInv, BindingPatch, BindingRun
  <2>5. sbC.b \in Bindings
    BY <2>2 DEF BindingRun
  <2>6. BrokerInv'
    BY <2>1, <2>5 DEF TypeInv, BrokerInv
  <2> QED
    BY <1>1, <2>1, <2>4, <2>6 DEF TypeInv, ObjectsInv, InstanceCInv, RestInv
<1>5. CASE PatchBinding
  <2>1. /\ UNCHANGED <<si, plan, broker, siC>> /\ sbC' = Idle /\ sbC.b \in Bindings
        /\ sb' \in [Bindings -> CFServiceBinding]
    BY <1>5, PatchBindingEffect
  <2>2. queue' \subseteq Bindings \cup {Instance}
    BY <1>5, <2>1, EnqueueType DEF PatchBinding, TypeInv, RestInv
  <2> QED
    BY <1>1, <2>1, <2>2 DEF TypeInv, ObjectsInv, InstanceCInv, BindingCInv, BrokerInv, RestInv, Idle
<1> QED
  BY <1>2, <1>3, <1>4, <1>5 DEF BindingController

\* Every step keeps the types.
LEMMA NextType ==
    ASSUME TypeInv, [Next]_vars
    PROVE  TypeInv'
<1>1. CASE Broker
  <2>1. UNCHANGED <<si, sb, plan, siC, sbC, queue>>
    BY <1>1 DEF Broker, BrokerInstance, BrokerBinding
  <2>2. BrokerInv'
    BY <1>1 DEF Broker, BrokerInstance, BrokerBinding, TypeInv, BrokerInv
  <2>3. faults' \in 0..MaxFaults
    <3>1. Fault \/ NoFault
      BY <1>1 DEF Broker, BrokerInstance, BrokerBinding, Progress
    <3> QED
      BY <3>1, FaultType DEF TypeInv
  <2> QED
    BY <2>1, <2>2, <2>3 DEF TypeInv, ObjectsInv, InstanceCInv, BindingCInv, RestInv
<1>2. CASE Crash
  <2>1. UNCHANGED <<si, sb, plan, broker>> /\ siC' = Idle /\ sbC' = Idle
    BY <1>2 DEF Crash
  <2>2. faults' \in 0..MaxFaults
    BY <1>2, FaultType DEF Crash, TypeInv
  <2>3. queue' \subseteq Bindings \cup {Instance}
    BY <1>2, EnqueueType DEF Crash, Existing
  <2> QED
    BY <2>1, <2>2, <2>3 DEF TypeInv, ObjectsInv, InstanceCInv, BindingCInv, BrokerInv, RestInv, Idle
<1>3. CASE UNCHANGED vars
  BY <1>3 DEF vars, TypeInv, ObjectsInv, InstanceCInv, BindingCInv, BrokerInv, RestInv
<1> QED
  BY <1>1, <1>2, <1>3, RequestsType, InstanceControllerType, BindingControllerType DEF Next

\* Instance, bindings, broker and workers are well typed in every reachable
\* state, and the last operation shows a state of the API.
THEOREM TypeCorrect == Spec => []TypeOK
<1>1. Init => TypeInv
  BY InitType
<1>2. TypeInv /\ [Next]_vars => TypeInv'
  BY NextType
<1>3. TypeInv => TypeOK
  BY TypeSuffices
<1> QED
  BY <1>1, <1>2, <1>3, PTL DEF Spec

-----------------------------------------------------------------------------
(* Instance and broker.                                                    *)

\* What the object of the instance tells of the broker.
InstanceObject ==
    /\ si.phase = "absent" => ~si.ready
    /\ si.phase = "absent" \/ si.type = "user-provided" => broker.inst = "none"
    /\ si.phase = "gone" /\ ~si.purge => broker.inst = "none"
    /\ si.phase = "live" /\ si.ready /\ si.type = "managed" =>
          broker.inst = "present" /\ si.lastOp = Operation("create", "succeeded")

\* What the worker holds of an instance: the copy is older than the object,
\* and only the worker itself changes the broker and the status meanwhile.
InstanceWork ==
    /\ siC.pc # "idle" => Exists(si)
    /\ siC.pc \in {"read", "poll"} =>
          /\ siC.new.phase \in {"live", "deleting"}
          /\ siC.new.phase = "deleting" => si.phase = "deleting"
          /\ siC.new.purge => si.purge
    /\ siC.pc = "read" => siC.new.ready = si.ready /\ siC.new.lastOp = si.lastOp
    /\ siC.pc = "poll" /\ siC.new.phase = "live" =>
          broker.inst \in {"creating", "present", "createFailed"} /\ siC.new.lastOp.type = "create"
    /\ siC.pc = "poll" /\ siC.new.phase = "deleting" =>
          broker.inst \in {"deleting", "none", "deleteFailed"}
    /\ siC.pc = "patch" /\ siC.remove => si.phase = "deleting" /\ (si.purge \/ broker.inst = "none")
    /\ siC.pc = "patch" /\ siC.new.ready /\ si.phase = "live" /\ si.type = "managed" =>
          broker.inst = "present" /\ siC.new.lastOp = Operation("create", "succeeded")

InstanceInv == InstanceObject /\ InstanceWork

\* Steps that do not touch the instance.
LEMMA InstanceFrame ==
    ASSUME TypeInv, InstanceInv, UNCHANGED <<si, siC>>, broker'.inst = broker.inst
    PROVE  InstanceInv'
BY DEF InstanceInv, InstanceObject, InstanceWork, Exists

\* Which steps these are.
LEMMA OtherSteps ==
    ASSUME TypeInv,
           \/ \E b \in Bindings : \/ \E t \in {"app", "key"} : CreateBinding(b, t)
                                  \/ CreateBindingSecret(b) \/ DeleteBinding(b)
           \/ ShowPlan \/ HidePlan \/ BindingController
           \/ \E b \in Bindings : BrokerBinding(b)
           \/ UNCHANGED vars
    PROVE  UNCHANGED <<si, siC>> /\ broker'.inst = broker.inst
<1>1. CASE UNCHANGED <<si, siC, broker>>
  BY <1>1
<1>2. CASE \E b \in Bindings : BrokerBinding(b)
  BY <1>2 DEF BrokerBinding, TypeInv, BrokerInv
<1>3. CASE Bind \/ Unbind
  <2>1. UNCHANGED <<si, siC>> /\ \E s \in BrokerStates : broker' = [broker EXCEPT !.bind[sbC.b] = s]
    BY <1>3, BindEffect, UnbindEffect
  <2> QED
    BY <2>1 DEF TypeInv, BrokerInv
<1> QED
  BY <1>1, <1>2, <1>3
     DEF CreateBinding, CreateBindingSecret, DeleteBinding, ShowPlan, HidePlan, BindingController,
         ReadBinding, BindingWithoutInstance, BindingAssetsFail, SkipBind, PollBinding, BindUserProvided,
         ForgetBinding, PatchBinding, vars

\* The instance controller.
LEMMA InstanceControllerInv ==
    ASSUME TypeInv, InstanceInv, InstanceController
    PROVE  InstanceInv'
<1> USE DEF InstanceInv
<1>1. si \in CFServiceInstance
  BY DEF TypeInv, ObjectsInv
<1>2. CASE ReadInstance
  <2>1. /\ UNCHANGED <<si, broker>>
        /\ siC' = IF Exists(si) THEN [pc |-> "read", new |-> Copy(si)] ELSE Idle
    BY <1>2 DEF ReadInstance
  <2>2. /\ Copy(si).phase = si.phase /\ Copy(si).purge = si.purge
        /\ Copy(si).ready = si.ready /\ Copy(si).lastOp = si.lastOp
    BY <1>1, Copies
  <2>3. InstanceObject'
    BY <2>1 DEF InstanceObject
  <2>4. InstanceWork'
    BY <2>1, <2>2 DEF InstanceWork, Exists, Idle
  <2> QED
    BY <2>3, <2>4
<1>3. CASE \/ InstanceAssetsFail \/ SkipProvision \/ ReconcileUserProvided
           \/ WaitForBindings \/ ForgetInstance
  <2>1. /\ UNCHANGED <<si, broker>> /\ siC.pc = "read" /\ siC' \in InstancePatch
        /\ siC'.remove => /\ siC.new.phase = "deleting"
                          /\ si.type = "user-provided" \/ siC.new.purge
        /\ siC'.new.ready =>
              \/ siC'.remove \/ si.type = "user-provided"
              \/ siC.new.ready /\ siC'.new.lastOp = siC.new.lastOp
    BY <1>3, InstanceReturns
  <2>2. siC'.pc = "patch"
    BY <2>1 DEF InstancePatch
  <2>3. InstanceObject'
    BY <2>1 DEF InstanceObject
  <2>4. InstanceWork'
    BY <2>1, <2>2 DEF InstanceWork, InstanceObject, Exists
  <2> QED
    BY <2>3, <2>4
<1>4. CASE ProvisionInstance
  <2>1. /\ UNCHANGED si /\ siC.pc = "read" /\ siC.new.phase = "live" /\ si.type = "managed"
        /\ ~siC.new.ready
    BY <1>4, ProvisionEffect
  <2>2. PICK s \in BrokerStates :
          /\ broker' = [broker EXCEPT !.inst = s]
          /\ \/ /\ siC' \in InstancePatch /\ ~siC'.remove
                /\ siC'.new.ready =>
                     s = "present" /\ siC'.new.lastOp = Operation("create", "succeeded")
             \/ /\ siC' \in InstanceRun /\ siC'.pc = "poll" /\ s = "creating"
                /\ siC'.new.phase = "live" /\ siC'.new.purge = siC.new.purge
                /\ siC'.new.lastOp.type = "create"
    BY <1>4, ProvisionEffect
  <2>3. broker'.inst = s
    BY <2>2 DEF TypeInv, BrokerInv
  <2>4. Exists(si) /\ ~si.ready
    BY <2>1 DEF InstanceWork
  <2>5. InstanceObject'
    BY <2>1, <2>4 DEF InstanceObject, Exists
  <2>6. siC'.pc = "patch" \/ siC'.pc = "poll"
    BY <2>2 DEF InstancePatch
  <2>7. InstanceWork'
    BY <2>1, <2>2, <2>3, <2>4, <2>6 DEF InstanceWork, InstancePatch, Exists
  <2> QED
    BY <2>5, <2>7
<1>5. CASE DeprovisionInstance
  <2>1. /\ UNCHANGED si /\ siC.pc = "read" /\ siC.new.phase = "deleting" /\ si.type = "managed"
    BY <1>5, DeprovisionEffect
  <2>2. PICK s \in BrokerStates :
          /\ broker' = [broker EXCEPT !.inst = s]
          /\ \/ /\ siC' \in InstancePatch
                /\ IF siC'.remove THEN s = "none" ELSE ~siC'.new.ready
             \/ /\ siC' \in InstanceRun /\ siC'.pc = "poll" /\ s = "deleting"
                /\ siC'.new.phase = "deleting" /\ siC'.new.purge = siC.new.purge
    BY <1>5, DeprovisionEffect
  <2>3. broker'.inst = s
    BY <2>2 DEF TypeInv, BrokerInv
  <2>4. si.phase = "deleting"
    BY <2>1 DEF InstanceWork
  <2>5. InstanceObject'
    BY <2>1, <2>4 DEF InstanceObject
  <2>6. siC'.pc = "patch" \/ siC'.pc = "poll"
    BY <2>2 DEF InstancePatch
  <2>7. InstanceWork'
    BY <2>1, <2>2, <2>3, <2>4, <2>6 DEF InstanceWork, InstancePatch, Exists
  <2> QED
    BY <2>5, <2>7
<1>6. CASE PollInstance
  <2>1. /\ UNCHANGED <<si, broker>> /\ siC.pc = "poll" /\ siC' \in InstancePatch
        /\ siC'.remove => siC.new.phase = "deleting" /\ broker.inst \in {"present", "none"}
        /\ siC'.new.ready /\ ~siC'.remove =>
              /\ siC.new.phase = "live" /\ broker.inst \in {"present", "none"}
              /\ siC'.new.lastOp = Operation(siC.new.lastOp.type, "succeeded")
    BY <1>6, PollEffect
  <2>2. siC'.pc = "patch"
    BY <2>1 DEF InstancePatch
  <2>3. InstanceObject'
    BY <2>1 DEF InstanceObject
  <2>4. InstanceWork'
    BY <2>1, <2>2 DEF InstanceWork, Exists
  <2> QED
    BY <2>3, <2>4
<1>7. CASE PatchInstance
  <2>1. /\ UNCHANGED broker /\ siC.pc = "patch" /\ siC' = Idle
        /\ si'.type = si.type /\ si'.purge = si.purge
        /\ IF siC.remove THEN si'.phase = "gone"
           ELSE si'.phase = si.phase /\ si'.ready = siC.new.ready /\ si'.lastOp = siC.new.lastOp
    BY <1>7, PatchInstanceEffect
  <2>2. siC'.pc = "idle"
    BY <2>1 DEF Idle
  <2>3. InstanceWork'
    BY <2>2 DEF InstanceWork
  <2>4. Exists(si) /\ (siC.remove => si.phase = "deleting" /\ (si.purge \/ broker.inst = "none"))
    BY <2>1 DEF InstanceWork
  <2>5. InstanceObject'
    <3>1. CASE siC.remove
      BY <2>1, <2>4, <3>1 DEF InstanceObject, Exists
    <3>2. CASE ~siC.remove
      BY <2>1, <2>4, <3>2 DEF InstanceObject, InstanceWork, Exists
    <3> QED
      BY <3>1, <3>2
  <2> QED
    BY <2>3, <2>5
<1> QED
  BY <1>2, <1>3, <1>4, <1>5, <1>6, <1>7 DEF InstanceController

\* Every step keeps what is known of the instance.
LEMMA NextInstance ==
    ASSUME TypeInv, InstanceInv, [Next]_vars
    PROVE  InstanceInv'
<1> USE DEF InstanceInv
<1>1. CASE \/ \E t \in Types : CreateInstance(t)
           \/ CreateInstanceSecret \/ AnnotatePurge \/ DeleteInstance
  <2>1. /\ UNCHANGED <<broker, siC>>
        /\ si'.ready = si.ready /\ si'.lastOp = si.lastOp
        /\ si.purge => si'.purge
        /\ \/ si.phase = "absent" /\ si'.phase = "live"
           \/ si.phase = "live" /\ si'.phase = "deleting" /\ si'.type = si.type
           \/ si'.phase = si.phase /\ si'.type = si.type /\ Exists(si)
    BY <1>1, InstanceRequests
  <2>2. si.phase = "absent" => siC.pc = "idle"
    BY DEF InstanceWork, Exists
  <2>3. si.phase = "absent" => broker.inst = "none" /\ ~si.ready
    BY DEF InstanceObject
  <2>4. InstanceObject'
    BY <2>1, <2>3 DEF InstanceObject, Exists
  <2>5. InstanceWork'
    BY <2>1, <2>2 DEF InstanceWork, Exists
  <2> QED
    BY <2>4, <2>5
<1>2. CASE BrokerInstance
  <2>1. PICK s \in BrokerStates : Progress(broker.inst, s) /\ broker' = [broker EXCEPT !.inst = s]
    BY <1>2 DEF BrokerInstance
  <2>2. broker'.inst = s /\ UNCHANGED <<si, siC>>
    BY <1>2, <2>1 DEF BrokerInstance, TypeInv, BrokerInv
  <2>3. \/ broker.inst = "creating" /\ broker'.inst \in {"present", "createFailed"}
        \/ broker.inst = "deleting" /\ broker'.inst \in {"none", "deleteFailed"}
    BY <2>1, <2>2, ProgressEffect
  <2> QED
    BY <2>2, <2>3 DEF InstanceObject, InstanceWork, Exists
<1>3. CASE Crash
  BY <1>3 DEF Crash, InstanceObject, InstanceWork, Idle
<1> QED
  BY <1>1, <1>2, <1>3, OtherSteps, InstanceFrame, InstanceControllerInv DEF Next, API, Broker

-----------------------------------------------------------------------------
(* Bindings and broker.                                                    *)

\* What the object of a binding tells of the broker.
BindingObject(b) ==
    /\ si.phase = "absent" => sb[b].phase = "absent"
    /\ sb[b].phase = "absent" => ~sb[b].env
    /\ sb[b].phase = "absent" \/ si.type = "user-provided" => broker.bind[b] = "none"
    /\ sb[b].phase = "gone" /\ ~si.purge => broker.bind[b] = "none"
    /\ sb[b].phase = "live" /\ sb[b].env /\ si.type = "managed" => broker.bind[b] = "present"

\* What the worker holds of a binding.
BindingWork(b) ==
    sbC.pc # "idle" /\ sbC.b = b =>
    /\ Exists(sb[b])
    /\ sbC.pc \in {"read", "poll"} =>
          /\ sbC.new.phase \in {"live", "deleting"}
          /\ sbC.new.phase = "deleting" => sb[b].phase = "deleting"
          /\ sbC.new.env = sb[b].env
    /\ sbC.pc = "poll" /\ sbC.new.phase = "deleting" =>
          broker.bind[b] \in {"deleting", "none", "deleteFailed"}
    /\ sbC.pc = "patch" /\ sbC.remove =>
          sb[b].phase = "deleting" /\ (si.purge \/ broker.bind[b] = "none")
    /\ sbC.pc = "patch" /\ sbC.new.env /\ sb[b].phase = "live" /\ si.type = "managed" =>
          broker.bind[b] = "present"

BindingInv == \A b \in Bindings : BindingObject(b) /\ BindingWork(b)

\* Steps that leave the binding at the broker and its worker alone; the object
\* may be created or marked as deleted meanwhile.
LEMMA BindingFrame ==
    ASSUME NEW b \in Bindings, BindingObject(b), BindingWork(b),
           UNCHANGED sbC, broker'.bind[b] = broker.bind[b],
           si.purge => si'.purge,
           si'.phase = "absent" => si.phase = "absent" /\ sb'[b].phase = sb[b].phase,
           si'.type = si.type \/ si.phase = "absent",
           sb'[b].env = sb[b].env,
           \/ sb'[b].phase = sb[b].phase
           \/ sb[b].phase = "live" /\ sb'[b].phase = "deleting"
           \/ sb[b].phase = "absent" /\ sb'[b].phase = "live"
    PROVE  BindingObject(b)' /\ BindingWork(b)'
<1>1. si.phase = "absent" => sb[b].phase = "absent" /\ broker.bind[b] = "none"
  BY DEF BindingObject
<1>2. sb[b].phase = "absent" => sbC.pc = "idle" \/ sbC.b # b
  BY DEF BindingWork, Exists
<1>3. BindingObject(b)'
  BY <1>1 DEF BindingObject
<1>4. BindingWork(b)'
  BY <1>1, <1>2 DEF BindingWork, Exists
<1> QED
  BY <1>3, <1>4

\* Steps of the worker, at the bindings it does not work on.
LEMMA OtherBindings ==
    ASSUME NEW b \in Bindings, BindingObject(b),
           UNCHANGED si, sb'[b] = sb[b], broker'.bind[b] = broker.bind[b],
           sbC'.pc = "idle" \/ sbC'.b # b
    PROVE  BindingObject(b)' /\ BindingWork(b)'
BY DEF BindingObject, BindingWork

\* The binding controller.
LEMMA BindingControllerInv ==
    ASSUME TypeInv, BindingInv, BindingController
    PROVE  BindingInv'
<1> SUFFICES ASSUME NEW b \in Bindings
             PROVE  BindingObject(b)' /\ BindingWork(b)'
  BY DEF BindingInv
<1>1. BindingObject(b) /\ BindingWork(b) /\ sb[b] \in CFServiceBinding
  BY DEF BindingInv, TypeInv, ObjectsInv
<1>2. CASE \E c \in Bindings : ReadBinding(c)
  <2>1. PICK c \in Bindings : ReadBinding(c)
    BY <1>2
  <2>2. /\ UNCHANGED <<si, sb, broker>>
        /\ sbC' = IF Exists(sb[c]) THEN [pc |-> "read", b |-> c, new |-> Copy(sb[c])] ELSE Idle
    BY <2>1 DEF ReadBinding
  <2>3. Copy(sb[b]).phase = sb[b].phase /\ Copy(sb[b]).env = sb[b].env
    BY <1>1, Copies
  <2>4. BindingObject(b)'
    BY <1>1, <2>2 DEF BindingObject
  <2>5. CASE ~Exists(sb[c]) \/ c # b
    BY <1>1, <2>2, <2>5, OtherBindings DEF Idle
  <2>6. CASE Exists(sb[c]) /\ c = b
    <3>1. /\ sbC'.pc = "read" /\ sbC'.new.phase = sb[b].phase /\ sbC'.new.env = sb[b].env
      BY <2>2, <2>3, <2>6
    <3>2. BindingWork(b)'
      BY <2>2, <2>6, <3>1 DEF BindingWork, Exists
    <3> QED
      BY <2>4, <3>2
  <2> QED
    BY <2>5, <2>6
<1>3. CASE \/ BindingWithoutInstance \/ BindingAssetsFail \/ SkipBind \/ BindUserProvided
           \/ ForgetBinding \/ PollBinding
  <2>1. /\ UNCHANGED <<si, sb, broker>> /\ sbC.pc \in {"read", "poll"}
        /\ sbC' \in BindingPatch /\ sbC'.b = sbC.b
        /\ sbC'.remove =>
              /\ sbC.new.phase = "deleting"
              /\ \/ si.type = "user-provided" \/ si.purge
                 \/ sbC.pc = "poll" /\ broker.bind[sbC.b] \in {"present", "none"}
        /\ sbC'.new.env = sbC.new.env \/ si.type = "user-provided"
    BY <1>3, BindingReturns
  <2>2. sbC'.pc = "patch"
    BY <2>1 DEF BindingPatch
  <2>3. CASE sbC.b # b
    BY <1>1, <2>1, <2>3, OtherBindings
  <2>4. CASE sbC.b = b
    <3>1. BindingObject(b)'
      BY <1>1, <2>1 DEF BindingObject
    <3>2. BindingWork(b)'
      BY <1>1, <2>1, <2>2, <2>4 DEF BindingWork, BindingObject, Exists
    <3> QED
      BY <3>1, <3>2
  <2> QED
    BY <2>3, <2>4
<1>4. CASE Bind
  <2>1. UNCHANGED <<si, sb>> /\ sbC.pc = "read" /\ sbC.new.phase = "live" /\ si.type = "managed"
    BY <1>4, BindEffect
  <2>2. PICK s \in BrokerStates :
          /\ broker' = [broker EXCEPT !.bind[sbC.b] = s]
          /\ broker.bind[sbC.b] = "present" => s = "present"
          /\ \/ /\ sbC' \in BindingPatch /\ ~sbC'.remove /\ sbC'.b = sbC.b
                /\ sbC'.new.env => sbC.new.env \/ s = "present"
             \/ sbC' = [sbC EXCEPT !.pc = "poll"]
    BY <1>4, BindEffect
  <2>3. sbC \in BindingRun
    BY <2>1 DEF TypeInv, BindingCInv
  <2>4. broker'.bind[b] = IF b = sbC.b THEN s ELSE broker.bind[b]
    BY <2>2, <2>3 DEF TypeInv, BrokerInv, BindingRun
  <2>5. /\ sbC'.b = sbC.b
        /\ \/ sbC'.pc = "patch" /\ ~sbC'.remove /\ (sbC'.new.env => sbC.new.env \/ s = "present")
           \/ sbC'.pc = "poll" /\ sbC'.new = sbC.new
    BY <2>2, <2>3 DEF BindingPatch, BindingRun
  <2>6. CASE sbC.b # b
    BY <1>1, <2>1, <2>4, <2>5, <2>6, OtherBindings
  <2>7. CASE sbC.b = b
    <3>1. Exists(sb[b]) /\ sbC.new.env = sb[b].env
      BY <1>1, <2>1, <2>7 DEF BindingWork
    <3>2. BindingObject(b)'
      BY <1>1, <2>1, <2>2, <2>4, <2>7, <3>1 DEF BindingObject, Exists
    <3>3. BindingWork(b)'
      BY <1>1, <2>1, <2>2, <2>4, <2>5, <2>7, <3>1 DEF BindingObject, BindingWork, Exists
    <3> QED
      BY <3>2, <3>3
  <2> QED
    BY <2>6, <2>7
<1>5. CASE Unbind
  <2>1. UNCHANGED <<si, sb>> /\ sbC.pc = "read" /\ sbC.new.phase = "deleting" /\ si.type = "managed"
    BY <1>5, UnbindEffect
  <2>2. PICK s \in BrokerStates :
          /\ broker' = [broker EXCEPT !.bind[sbC.b] = s]
          /\ \/ /\ sbC' \in BindingPatch /\ sbC'.b = sbC.b
                /\ sbC'.remove => s = "none"
             \/ sbC' = [sbC EXCEPT !.pc = "poll"] /\ s = "deleting"
    BY <1>5, UnbindEffect
  <2>3. sbC \in BindingRun
    BY <2>1 DEF TypeInv, BindingCInv
  <2>4. broker'.bind[b] = IF b = sbC.b THEN s ELSE broker.bind[b]
    BY <2>2, <2>3 DEF TypeInv, BrokerInv, BindingRun
  <2>5. /\ sbC'.b = sbC.b
        /\ \/ sbC'.pc = "patch" /\ (sbC'.remove => s = "none")
           \/ sbC'.pc = "poll" /\ sbC'.new = sbC.new /\ s = "deleting"
    BY <2>2, <2>3 DEF BindingPatch, BindingRun
  <2>6. CASE sbC.b # b
    BY <1>1, <2>1, <2>4, <2>5, <2>6, OtherBindings
  <2>7. CASE sbC.b = b
    <3>1. sb[b].phase = "deleting" /\ sbC.new.env = sb[b].env
      BY <1>1, <2>1, <2>7 DEF BindingWork
    <3>2. BindingObject(b)'
      BY <1>1, <2>1, <2>4, <2>7, <3>1 DEF BindingObject
    <3>3. BindingWork(b)'
      BY <1>1, <2>1, <2>4, <2>5, <2>7, <3>1 DEF BindingWork, Exists
    <3> QED
      BY <3>2, <3>3
  <2> QED
    BY <2>6, <2>7
<1>6. CASE PatchBinding
  <2>1. /\ UNCHANGED <<si, broker>> /\ sbC.pc = "patch" /\ sbC' = Idle /\ sbC.b \in Bindings
        /\ b # sbC.b => sb'[b] = sb[b]
        /\ IF sbC.remove THEN sb'[sbC.b].phase = "gone"
           ELSE sb'[sbC.b].phase = sb[sbC.b].phase /\ sb'[sbC.b].env = sbC.new.env
    BY <1>6, PatchBindingEffect
  <2>2. sbC'.pc = "idle"
    BY <2>1 DEF Idle
  <2>3. CASE sbC.b # b
    BY <1>1, <2>1, <2>2, <2>3, OtherBindings
  <2>4. CASE sbC.b = b
    <3>1. Exists(sb[b]) /\ (sbC.remove => si.purge \/ broker.bind[b] = "none")
      BY <1>1, <2>1, <2>4 DEF BindingWork
    <3>2. sb[b].phase # "absent" /\ si.phase # "absent"
      BY <1>1, <3>1 DEF BindingObject, Exists
    <3>3. BindingObject(b)'
      <4>1. CASE sbC.remove
        BY <1>1, <2>1, <2>4, <3>1, <3>2, <4>1 DEF BindingObject
      <4>2. CASE ~sbC.remove
        BY <1>1, <2>1, <2>4, <3>1, <3>2, <4>2 DEF BindingObject, BindingWork
      <4> QED
        BY <4>1, <4>2
    <3>4. BindingWork(b)'
      BY <2>2 DEF BindingWork
    <3> QED
      BY <3>3, <3>4
  <2> QED
    BY <2>3, <2>4
<1> QED
  BY <1>2, <1>3, <1>4, <1>5, <1>6 DEF BindingController

\* The steps of the instance controller leave a binding in existence and
\* alone at the broker.
LEMMA InstanceControllerBindings ==
    ASSUME TypeInv, InstanceInv, InstanceController, NEW b \in Bindings
    PROVE  /\ UNCHANGED sbC /\ broker'.bind[b] = broker.bind[b]
           /\ si'.purge = si.purge /\ si'.type = si.type
           /\ si'.phase = si.phase \/ (si.phase = "deleting" /\ si'.phase = "gone")
           /\ si'.phase = "absent" => sb'[b].phase = sb[b].phase
           /\ sb'[b].env = sb[b].env
           /\ \/ sb'[b].phase = sb[b].phase
              \/ sb[b].phase = "live" /\ sb'[b].phase = "deleting"
<1>1. ObjectsInv
  BY DEF TypeInv
<1>2. siC.pc \in {"read", "poll", "patch"} => si.phase # "absent"
  BY DEF InstanceInv, InstanceWork, Exists
<1>3. DeleteBindings => /\ sb'[b].env = sb[b].env
                        /\ sb'[b].phase = IF sb[b].phase = "live" THEN "deleting" ELSE sb[b].phase
  BY <1>1, DeleteBindingsEffect
<1>4. CASE ReadInstance \/ PollInstance
  BY <1>4 DEF ReadInstance, PollInstance
<1>5. CASE \/ InstanceAssetsFail \/ SkipProvision \/ ReconcileUserProvided
           \/ WaitForBindings \/ ForgetInstance
  <2>1. UNCHANGED <<si, broker, sbC>> /\ siC.pc = "read" /\ (UNCHANGED sb \/ DeleteBindings)
    BY <1>5, InstanceReturns
  <2> QED
    BY <1>2, <1>3, <2>1
<1>6. CASE ProvisionInstance \/ DeprovisionInstance
  <2>1. /\ UNCHANGED <<si, sbC>> /\ siC.pc = "read" /\ (UNCHANGED sb \/ DeleteBindings)
        /\ \E s \in BrokerStates : broker' = [broker EXCEPT !.inst = s]
    BY <1>6, ProvisionEffect, DeprovisionEffect
  <2>2. broker'.bind = broker.bind
    BY <2>1 DEF TypeInv, BrokerInv
  <2> QED
    BY <1>2, <1>3, <2>1, <2>2
<1>7. CASE PatchInstance
  <2>1. /\ UNCHANGED <<sb, broker, sbC>> /\ siC.pc = "patch"
        /\ si'.type = si.type /\ si'.purge = si.purge
        /\ IF siC.remove THEN si'.phase = "gone" ELSE si'.phase = si.phase
    BY <1>7, PatchInstanceEffect
  <2>2. siC.remove => si.phase = "deleting"
    BY <2>1 DEF InstanceInv, InstanceWork
  <2> QED
    BY <2>1, <2>2
<1> QED
  BY <1>4, <1>5, <1>6, <1>7 DEF InstanceController

\* Every step keeps what is known of the bindings.
LEMMA NextBinding ==
    ASSUME TypeInv, InstanceInv, BindingInv, [Next]_vars
    PROVE  BindingInv'
<1> SUFFICES ASSUME ~BindingController, NEW b \in Bindings
             PROVE  BindingObject(b)' /\ BindingWork(b)'
  BY BindingControllerInv DEF BindingInv
<1>1. BindingObject(b) /\ BindingWork(b)
  BY DEF BindingInv
<1>2. CASE \/ \E t \in Types : CreateInstance(t)
           \/ CreateInstanceSecret \/ AnnotatePurge \/ DeleteInstance
  <2>1. /\ UNCHANGED <<sb, broker, sbC>> /\ (si.purge => si'.purge)
        /\ \/ si.phase = "absent" /\ si'.phase = "live"
           \/ si.phase = "live" /\ si'.phase = "deleting" /\ si'.type = si.type
           \/ si'.phase = si.phase /\ si'.type = si.type /\ Exists(si)
    BY <1>2, InstanceRequests
  <2> QED
    BY <1>1, <2>1, BindingFrame DEF Exists
<1>3. CASE \E c \in Bindings : \/ \E t \in {"app", "key"} : CreateBinding(c, t)
                               \/ CreateBindingSecret(c) \/ DeleteBinding(c)
  <2>1. PICK c \in Bindings : \/ \E t \in {"app", "key"} : CreateBinding(c, t)
                              \/ CreateBindingSecret(c) \/ DeleteBinding(c)
    BY <1>3
  <2>2. /\ UNCHANGED <<si, broker, sbC>>
        /\ b # c => sb'[b] = sb[b]
        /\ sb'[c].env = sb[c].env
        /\ \/ /\ sb[c].phase = "absent" /\ sb'[c].phase = "live"
              /\ si.phase = "live" \/ (LateBinding /\ si.phase = "deleting")
           \/ sb[c].phase = "live" /\ sb'[c].phase = "deleting"
           \/ sb'[c].phase = sb[c].phase
    BY <2>1, BindingRequests
  <2>3. si.phase = "absent" => sb[b].phase = "absent"
    BY <1>1 DEF BindingObject
  <2>4. CASE b # c
    BY <1>1, <2>2, <2>4, BindingFrame
  <2>5. CASE b = c
    BY <1>1, <2>2, <2>3, <2>5, BindingFrame
  <2> QED
    BY <2>4, <2>5
<1>4. CASE InstanceController
  BY <1>1, <1>4, InstanceControllerBindings, BindingFrame
<1>5. CASE ShowPlan \/ HidePlan \/ UNCHANGED vars
  BY <1>1, <1>5, BindingFrame DEF ShowPlan, HidePlan, vars
<1>6. CASE BrokerInstance
  <2>1. UNCHANGED <<si, sb, sbC>> /\ broker'.bind = broker.bind
    BY <1>6 DEF BrokerInstance, TypeInv, BrokerInv
  <2> QED
    BY <1>1, <2>1, BindingFrame
<1>7. CASE \E c \in Bindings : BrokerBinding(c)
  <2>1. PICK c \in Bindings, s \in BrokerStates :
          Progress(broker.bind[c], s) /\ broker' = [broker EXCEPT !.bind[c] = s]
    BY <1>7 DEF BrokerBinding
  <2>2. UNCHANGED <<si, sb, sbC>>
    BY <1>7 DEF BrokerBinding
  <2>3. broker'.bind[b] = IF b = c THEN s ELSE broker.bind[b]
    BY <2>1 DEF TypeInv, BrokerInv
  <2>4. CASE b # c
    BY <1>1, <2>2, <2>3, <2>4, BindingFrame
  <2>5. CASE b = c
    <3>1. \/ broker.bind[b] = "creating" /\ broker'.bind[b] \in {"present", "createFailed"}
          \/ broker.bind[b] = "deleting" /\ broker'.bind[b] \in {"none", "deleteFailed"}
      BY <2>1, <2>3, <2>5, ProgressEffect
    <3>2. BindingObject(b)'
      BY <1>1, <2>2, <3>1 DEF BindingObject
    <3>3. BindingWork(b)'
      BY <1>1, <2>2, <3>1 DEF BindingWork, Exists
    <3> QED
      BY <3>2, <3>3
  <2> QED
    BY <2>4, <2>5
<1>8. CASE Crash
  BY <1>1, <1>8, OtherBindings DEF Crash, Idle
<1> QED
  BY <1>2, <1>3, <1>4, <1>5, <1>6, <1>7, <1>8 DEF Next, API, Broker

-----------------------------------------------------------------------------
(* No late bindings.                                                       *)

\* From the time the instance controller has found no binding, there is none.
UnboundInv ==
    /\ si.phase = "gone" => Existing = {}
    /\ siC.pc = "poll" /\ siC.new.phase = "deleting" => Existing = {}
    /\ siC.pc = "patch" /\ siC.remove => Existing = {}
    /\ broker.inst = "deleting" => si.phase \in {"deleting", "gone"} /\ Existing = {}

\* A binding comes into existence only by a request of a user.
LEMMA ExistingShrinks ==
    ASSUME TypeInv, InstanceInv, BindingInv, [Next]_vars, ~LateBinding,
           si.phase \in {"deleting", "gone"}, Existing = {}
    PROVE  Existing' = {}
<1> SUFFICES ASSUME NEW b \in Bindings
             PROVE  sb'[b].phase \notin {"live", "deleting"}
  BY DEF Existing, Exists
<1>1. sb[b].phase \notin {"live", "deleting"}
  BY DEF Existing, Exists
<1>2. CASE \E c \in Bindings : \/ \E t \in {"app", "key"} : CreateBinding(c, t)
                               \/ CreateBindingSecret(c) \/ DeleteBinding(c)
  <2>1. PICK c \in Bindings : \/ \E t \in {"app", "key"} : CreateBinding(c, t)
                              \/ CreateBindingSecret(c) \/ DeleteBinding(c)
    BY <1>2
  <2>2. /\ b # c => sb'[b] = sb[b]
        /\ \/ /\ sb[c].phase = "absent" /\ sb'[c].phase = "live"
              /\ si.phase = "live" \/ (LateBinding /\ si.phase = "deleting")
           \/ sb[c].phase = "live" /\ sb'[c].phase = "deleting"
           \/ sb'[c].phase = sb[c].phase
    BY <2>1, BindingRequests
  <2> QED
    BY <1>1, <2>2
<1>3. CASE InstanceController
  BY <1>1, <1>3, InstanceControllerBindings
<1>4. CASE PatchBinding
  <2>1. /\ sbC.pc = "patch" /\ sbC.b \in Bindings
        /\ b # sbC.b => sb'[b] = sb[b]
        /\ IF sbC.remove THEN sb'[sbC.b].phase = "gone" ELSE sb'[sbC.b].phase = sb[sbC.b].phase
    BY <1>4, PatchBindingEffect
  <2> QED
    BY <1>1, <2>1
<1>5. CASE UNCHANGED sb
  BY <1>1, <1>5
<1> QED
  BY <1>2, <1>3, <1>4, <1>5
     DEF Next, API, Broker, BindingController, CreateInstance, CreateInstanceSecret, AnnotatePurge,
         DeleteInstance, ShowPlan, HidePlan, ReadBinding, BindingWithoutInstance, BindingAssetsFail,
         SkipBind, Bind, PollBinding, BindUserProvided, ForgetBinding, Unbind, BrokerInstance,
         BrokerBinding, Crash, vars

\* An instance goes, or is given up at the broker, only after the worker has
\* found no binding of it.
LEMMA GivenUpUnbound ==
    ASSUME TypeInv, InstanceInv, [Next]_vars
    PROVE  /\ si.phase = "deleting" => si'.phase \in {"deleting", "gone"}
           /\ si.phase = "gone" => si'.phase = "gone"
           /\ si'.phase = "gone" => si.phase = "gone" \/ (siC.pc = "patch" /\ siC.remove)
           /\ siC'.pc = "poll" /\ siC'.new.phase = "deleting" =>
                 siC' = siC \/ (si.phase = "deleting" /\ Existing = {})
           /\ siC'.pc = "patch" /\ siC'.remove =>
                 \/ siC' = siC
                 \/ si.phase = "deleting" /\ Existing = {}
                 \/ siC.pc = "poll" /\ siC.new.phase = "deleting"
           /\ broker'.inst = "deleting" =>
                 broker.inst = "deleting" \/ (si.phase = "deleting" /\ Existing = {})
           /\ broker'.inst # broker.inst /\ broker'.inst \in {"deleting", "none"} =>
                 broker.inst = "deleting" \/ (si.phase = "deleting" /\ Existing = {})
<1>1. CASE UNCHANGED <<si, siC>> /\ broker'.inst = broker.inst
  BY <1>1
<1>2. CASE \/ \E t \in Types : CreateInstance(t)
           \/ CreateInstanceSecret \/ AnnotatePurge \/ DeleteInstance
  <2>1. /\ UNCHANGED <<broker, siC>>
        /\ \/ si.phase = "absent" /\ si'.phase = "live"
           \/ si.phase = "live" /\ si'.phase = "deleting"
           \/ si'.phase = si.phase
    BY <1>2, InstanceRequests
  <2> QED
    BY <2>1
<1>3. CASE ReadInstance \/ Crash
  <2>1. UNCHANGED <<si, broker>> /\ siC'.pc \in {"idle", "read"}
    BY <1>3 DEF ReadInstance, Crash, Idle
  <2> QED
    BY <2>1
<1>4. CASE \/ InstanceAssetsFail \/ SkipProvision \/ ReconcileUserProvided
           \/ WaitForBindings \/ ForgetInstance
  <2>1. /\ UNCHANGED <<si, broker>> /\ siC.pc = "read" /\ siC' \in InstancePatch
        /\ siC'.remove => Existing = {} /\ siC.new.phase = "deleting"
    BY <1>4, InstanceReturns
  <2>2. siC'.pc = "patch" /\ (siC.new.phase = "deleting" => si.phase = "deleting")
    BY <2>1 DEF InstancePatch, InstanceInv, InstanceWork
  <2> QED
    BY <2>1, <2>2
<1>5. CASE ProvisionInstance
  <2>1. PICK s \in BrokerStates :
          /\ broker' = [broker EXCEPT !.inst = s]
          /\ s # broker.inst => s \in {"present", "creating"}
          /\ \/ siC' \in InstancePatch /\ ~siC'.remove
             \/ siC' \in InstanceRun /\ siC'.pc = "poll" /\ siC'.new.phase = "live"
    BY <1>5, ProvisionEffect
  <2>2. broker'.inst = s /\ UNCHANGED si
    BY <1>5, <2>1, ProvisionEffect DEF TypeInv, BrokerInv
  <2> QED
    BY <2>1, <2>2 DEF InstancePatch
<1>6. CASE DeprovisionInstance
  <2>1. UNCHANGED si /\ siC.pc = "read" /\ siC.new.phase = "deleting" /\ Existing = {}
    BY <1>6, DeprovisionEffect
  <2>2. si.phase = "deleting"
    BY <2>1 DEF InstanceInv, InstanceWork
  <2> QED
    BY <2>1, <2>2
<1>7. CASE PollInstance
  <2>1. /\ UNCHANGED <<si, broker>> /\ siC.pc = "poll" /\ siC' \in InstancePatch
        /\ siC'.remove => siC.new.phase = "deleting"
    BY <1>7, PollEffect
  <2> QED
    BY <2>1 DEF InstancePatch
<1>8. CASE PatchInstance
  <2>1. /\ UNCHANGED broker /\ siC.pc = "patch" /\ siC' = Idle
        /\ IF siC.remove THEN si'.phase = "gone" ELSE si'.phase = si.phase
    BY <1>8, PatchInstanceEffect
  <2>2. siC'.pc = "idle" /\ (siC.remove => si.phase = "deleting")
    BY <2>1 DEF Idle, InstanceInv, InstanceWork
  <2> QED
    BY <2>1, <2>2
<1>9. CASE BrokerInstance
  <2>1. PICK s \in BrokerStates : Progress(broker.inst, s) /\ broker' = [broker EXCEPT !.inst = s]
    BY <1>9 DEF BrokerInstance
  <2>2. broker'.inst = s /\ UNCHANGED <<si, siC>>
    BY <1>9, <2>1 DEF BrokerInstance, TypeInv, BrokerInv
  <2>3. \/ broker.inst = "creating" /\ broker'.inst \in {"present", "createFailed"}
        \/ broker.inst = "deleting" /\ broker'.inst \in {"none", "deleteFailed"}
    BY <2>1, <2>2, ProgressEffect
  <2> QED
    BY <2>2, <2>3
<1> QED
  BY <1>1, <1>2, <1>3, <1>4, <1>5, <1>6, <1>7, <1>8, <1>9, OtherSteps
     DEF Next, API, InstanceController, Broker

\* Without late bindings, every step keeps what the worker has found.
LEMMA NextUnbound ==
    ASSUME TypeInv, InstanceInv, BindingInv, UnboundInv, [Next]_vars, ~LateBinding
    PROVE  UnboundInv'
<1>1. si.phase \in {"deleting", "gone"} /\ Existing = {} => Existing' = {}
  BY ExistingShrinks
<1>2. siC.pc = "poll" /\ siC.new.phase = "deleting" => si.phase = "deleting"
  BY DEF InstanceInv, InstanceWork
<1>3. siC.pc = "patch" /\ siC.remove => si.phase = "deleting"
  BY DEF InstanceInv, InstanceWork
<1>4. si'.phase = "gone" => Existing' = {}
  BY <1>1, <1>3, GivenUpUnbound DEF UnboundInv
<1>5. siC'.pc = "poll" /\ siC'.new.phase = "deleting" => Existing' = {}
  BY <1>1, <1>2, GivenUpUnbound DEF UnboundInv
<1>6. siC'.pc = "patch" /\ siC'.remove => Existing' = {}
  BY <1>1, <1>2, <1>3, GivenUpUnbound DEF UnboundInv
<1>7. broker'.inst = "deleting" => si'.phase \in {"deleting", "gone"} /\ Existing' = {}
  BY <1>1, GivenUpUnbound DEF UnboundInv
<1> QED
  BY <1>4, <1>5, <1>6, <1>7 DEF UnboundInv

-----------------------------------------------------------------------------
(* Theorems.                                                               *)

\* The initial state.
LEMMA InitInvs ==
    ASSUME Init
    PROVE  InstanceInv /\ BindingInv /\ UnboundInv
<1>1. /\ si.phase = "absent" /\ ~si.ready /\ siC.pc = "idle" /\ sbC.pc = "idle"
      /\ broker.inst = "none"
      /\ \A b \in Bindings : sb[b].phase = "absent" /\ ~sb[b].env /\ broker.bind[b] = "none"
  BY DEF Init, NoInstance, NoBinding, Idle
<1>2. InstanceInv
  BY <1>1 DEF InstanceInv, InstanceObject, InstanceWork
<1>3. BindingInv
  BY <1>1 DEF BindingInv, BindingObject, BindingWork
<1>4. UnboundInv
  BY <1>1 DEF UnboundInv
<1> QED
  BY <1>2, <1>3, <1>4

\* Nothing is forgotten at the broker, whatever is refused, lost or repeated:
\* an instance or a binding goes only after the broker has let go of it.
THEOREM NothingForgotten == Spec => []NoOrphans
<1> DEFINE Inv == TypeInv /\ InstanceInv /\ BindingInv
<1>1. Init => Inv
  BY InitType, InitInvs
<1>2. Inv /\ [Next]_vars => Inv'
  BY NextType, NextInstance, NextBinding
<1>3. Inv => NoOrphans
  BY DEF InstanceInv, InstanceObject, BindingInv, BindingObject, NoOrphans
<1> QED
  BY <1>1, <1>2, <1>3, PTL DEF Spec

\* What is reported as ready is there: the instance at the broker, and the
\* binding whose credentials are published.
THEOREM ReadyIsThere == Spec => []ReadyIsProvisioned
<1> DEFINE Inv == TypeInv /\ InstanceInv /\ BindingInv
<1>1. Init => Inv
  BY InitType, InitInvs
<1>2. Inv /\ [Next]_vars => Inv'
  BY NextType, NextInstance, NextBinding
<1>3. Inv => ReadyIsProvisioned
  BY DEF InstanceInv, InstanceObject, BindingInv, BindingObject, ReadyIsProvisioned
<1> QED
  BY <1>1, <1>2, <1>3, PTL DEF Spec

\* When no binding is created for an instance that is being deleted, none
\* outlives it.
THEOREM BindingsGoFirst == ASSUME ~LateBinding PROVE Spec => []NoBindingOutlivesInstance
<1> DEFINE Inv == TypeInv /\ InstanceInv /\ BindingInv /\ UnboundInv
<1>1. Init => Inv
  BY InitType, InitInvs
<1>2. Inv /\ [Next]_vars => Inv'
  BY NextType, NextInstance, NextBinding, NextUnbound
<1>3. Inv => NoBindingOutlivesInstance
  BY DEF UnboundInv, NoBindingOutlivesInstance
<1> QED
  BY <1>1, <1>2, <1>3, PTL DEF Spec

\* Then the broker, too, has no binding left of an instance it gives up, also
\* none korifi never got an answer about.
THEOREM BrokerUnboundFirst == ASSUME ~LateBinding PROVE Spec => UnboundBeforeDeprovisioned
<1> DEFINE Inv == TypeInv /\ InstanceInv /\ BindingInv /\ UnboundInv
           Step == broker.inst # broker'.inst /\ broker'.inst \in {"deleting", "none"} /\ ~si.purge
                      => \A b \in Bindings : broker.bind[b] = "none"
<1>1. Init => Inv
  BY InitType, InitInvs
<1>2. Inv /\ [Next]_vars => Inv'
  BY NextType, NextInstance, NextBinding, NextUnbound
<1>3. Inv /\ [Next]_vars => [Step]_vars
  <2> SUFFICES ASSUME Inv, [Next]_vars, broker.inst # broker'.inst,
                      broker'.inst \in {"deleting", "none"}, ~si.purge, NEW b \in Bindings
               PROVE  broker.bind[b] = "none"
    OBVIOUS
  <2>1. Existing = {}
    BY GivenUpUnbound DEF UnboundInv
  <2>2. sb[b].phase \in {"absent", "gone"}
    <3>1. sb[b].phase \in Phases
      BY ObjectFields DEF TypeInv, ObjectsInv
    <3> QED
      BY <2>1, <3>1 DEF Existing, Exists, Phases
  <2> QED
    BY <2>2 DEF BindingInv, BindingObject
<1> QED
  BY <1>1, <1>2, <1>3, PTL DEF Spec, UnboundBeforeDeprovisioned

-----------------------------------------------------------------------------
(***************************************************************************)
(* No wake-up is lost.  This is what remains of DeletionEnds and           *)
(* ServicesSettle without fairness: the controllers never come to rest     *)
(* with work left to do.  A worker decides on a copy that may be old and   *)
(* often asks for nothing more; the write that made the copy old has then  *)
(* queued the object again.                                                *)
(***************************************************************************)

\* There is nothing left to do for the instance: it is ready, or has failed
\* for good, or waits for its plan to become visible.
InstanceAtRest ==
    \/ ~Exists(si)
    \/ /\ si.phase = "live"
       /\ si.ready \/ si.failed \/ (si.type = "managed" /\ ~plan)

\* Or for a binding: it has failed for good, or has all its secrets.
BindingAtRest(x) ==
    \/ ~Exists(x)
    \/ /\ x.phase = "live"
       /\ x.failed \/ (x.ready /\ x.env /\ (x.type = "app" => x.mount))

\* Whatever is left to do for an object, its controller is at it or has the
\* object in its queue: no deletion, failed call or new object is forgotten
\* (the results ReconcileResource returns, the watches of SetupWithManager).
WorkIsQueued ==
    /\ Instance \in queue \/ siC # Idle \/ InstanceAtRest
    /\ \A b \in Bindings :
          b \in queue \/ (sbC # Idle /\ sbC.b = b) \/ BindingAtRest(sb[b])

\* The instance worker is at a copy that is still right, or the instance is
\* queued again.
InstanceKept ==
    /\ siC.pc \in {"read", "poll"} /\ siC.new.phase = "live" =>
          Instance \in queue \/ si.phase = "live"
    /\ siC.pc = "patch" /\ ~siC.requeue /\ ~siC.remove =>
          \/ Instance \in queue
          \/ /\ si.phase = "live"
             /\ siC.new.ready \/ siC.new.failed \/ (si.type = "managed" /\ ~plan)

\* The same for the binding worker; types of bindings never change.
BindingKept ==
    /\ sbC.pc \in {"read", "poll"} =>
          /\ sbC.new.type = sb[sbC.b].type
          /\ sbC.new.phase = "live" => sbC.b \in queue \/ sb[sbC.b].phase = "live"
    /\ sbC.pc = "patch" /\ ~sbC.requeue /\ ~sbC.remove =>
          \/ sbC.b \in queue
          \/ /\ sb[sbC.b].phase = "live"
             /\ \/ sbC.new.failed
                \/ /\ sbC.new.ready /\ sbC.new.env
                   /\ sb[sbC.b].type = "app" => sbC.new.mount

InstanceWake == InstanceKept /\ (Instance \in queue \/ siC # Idle \/ InstanceAtRest)
BindingWake ==
    /\ BindingKept
    /\ \A b \in Bindings :
          b \in queue \/ (sbC # Idle /\ sbC.b = b) \/ BindingAtRest(sb[b])

\* A write queues what it concerns, and takes nothing out of a queue.
LEMMA EnqueueWakes ==
    ASSUME NEW base, Enqueue(base)
    PROVE  /\ base \subseteq queue'
           /\ si' # si \/ (plan' # plan /\ si.type = "managed") => Instance \in queue'
           /\ \A b \in Bindings : sb'[b] # sb[b] => b \in queue'
BY DEF Enqueue

\* What a result of the instance worker asks for.
LEMMA ReturnAsks ==
    ASSUME NEW i \in CFServiceInstance, NEW q \in BOOLEAN, NEW r \in BOOLEAN
    PROVE  /\ Return(i, q, r) => siC'.pc = "patch" /\ siC'.requeue = q /\ siC'.remove = r
           /\ NotReady(i, q) => /\ siC'.pc = "patch" /\ siC'.requeue = q
                                /\ siC'.new.failed = i.failed
           /\ Ready(i) => siC'.pc = "patch" /\ siC'.new.ready
<1>1. ASSUME NEW x \in CFServiceInstance, NEW p \in BOOLEAN, NEW t \in BOOLEAN, Return(x, p, t)
      PROVE  /\ siC'.pc = "patch" /\ siC'.requeue = p /\ siC'.remove = t
             /\ siC'.new.ready = x.ready /\ siC'.new.failed = x.failed
  BY <1>1 DEF Return, CFServiceInstance, Restrict
<1>2. \A v \in BOOLEAN : LET x == [i EXCEPT !.ready = v]
                         IN  x \in CFServiceInstance /\ x.ready = v /\ x.failed = i.failed
  BY DEF CFServiceInstance
<1>3. ASSUME NotReady(i, q)
      PROVE  siC'.pc = "patch" /\ siC'.requeue = q /\ siC'.new.failed = i.failed
  BY <1>1, <1>2, <1>3 DEF NotReady
<1>4. ASSUME Ready(i)
      PROVE  siC'.pc = "patch" /\ siC'.new.ready
  BY <1>1, <1>2, <1>4 DEF Ready
<1> QED
  BY <1>1, <1>3, <1>4

\* What a result of the binding worker asks for.
LEMMA ReturnBAsks ==
    ASSUME NEW x \in CFServiceBinding, NEW q \in BOOLEAN, NEW r \in BOOLEAN
    PROVE  /\ ReturnB(x, q, r) =>
                 sbC'.pc = "patch" /\ sbC'.b = sbC.b /\ sbC'.requeue = q /\ sbC'.remove = r
           /\ NotReadyB(x, q) =>
                 /\ sbC'.pc = "patch" /\ sbC'.b = sbC.b /\ sbC'.requeue = q
                 /\ sbC'.new.failed = x.failed
           /\ ReadyB(x, q) =>
                 /\ sbC'.pc = "patch" /\ sbC'.b = sbC.b /\ sbC'.requeue = q
                 /\ sbC'.new.ready /\ sbC'.new.env = x.env /\ sbC'.new.mount = x.mount
<1>1. ASSUME NEW y \in CFServiceBinding, NEW p \in BOOLEAN, NEW t \in BOOLEAN, ReturnB(y, p, t)
      PROVE  /\ sbC'.pc = "patch" /\ sbC'.b = sbC.b /\ sbC'.requeue = p /\ sbC'.remove = t
             /\ sbC'.new.ready = y.ready /\ sbC'.new.failed = y.failed
             /\ sbC'.new.env = y.env /\ sbC'.new.mount = y.mount
  BY <1>1 DEF ReturnB, CFServiceBinding, Restrict
<1>2. \A v \in BOOLEAN : LET y == [x EXCEPT !.ready = v]
                         IN  /\ y \in CFServiceBinding /\ y.ready = v /\ y.failed = x.failed
                             /\ y.env = x.env /\ y.mount = x.mount
  BY DEF CFServiceBinding
<1>3. ASSUME NotReadyB(x, q)
      PROVE  /\ sbC'.pc = "patch" /\ sbC'.b = sbC.b /\ sbC'.requeue = q
             /\ sbC'.new.failed = x.failed
  BY <1>1, <1>2, <1>3 DEF NotReadyB
<1>4. ASSUME ReadyB(x, q)
      PROVE  /\ sbC'.pc = "patch" /\ sbC'.b = sbC.b /\ sbC'.requeue = q
             /\ sbC'.new.ready /\ sbC'.new.env = x.env /\ sbC'.new.mount = x.mount
  BY <1>1, <1>2, <1>4 DEF ReadyB
<1> QED
  BY <1>1, <1>3, <1>4

\* The instance worker ends its work on a live instance that is at rest, or
\* asks to be called again, or lets the instance go.
InstanceResult ==
    /\ siC'.pc = "patch"
    /\ \/ siC'.requeue \/ siC'.remove
       \/ /\ siC.new.phase = "live"
          /\ siC'.new.ready \/ siC'.new.failed \/ (si.type = "managed" /\ ~plan)

\* Or it goes on to poll the broker about the same copy.
InstancePolls == siC'.pc = "poll" /\ siC'.new.phase = siC.new.phase

LEMMA InstanceResults ==
    ASSUME TypeInv,
           \/ InstanceAssetsFail \/ SkipProvision \/ ProvisionInstance \/ PollInstance
           \/ ReconcileUserProvided \/ WaitForBindings \/ ForgetInstance
           \/ DeprovisionInstance
    PROVE  siC.pc \in {"read", "poll"} /\ (InstanceResult \/ InstancePolls)
<1>1. siC.pc \in {"read", "poll"}
  BY DEF InstanceAssetsFail, SkipProvision, ProvisionInstance, PollInstance,
         ReconcileUserProvided, WaitForBindings, ForgetInstance, DeprovisionInstance, At
<1>2. siC.new \in CFServiceInstance
  BY <1>1 DEF TypeInv, InstanceCInv, InstanceRun
<1> DEFINE op(t, s) == [siC.new EXCEPT !.lastOp = Operation(t, s)]
<1>3. \A t \in {"none", "create", "delete"},
         s \in {"initial", "in progress", "succeeded", "failed"} :
         /\ op(t, s) \in CFServiceInstance /\ op(t, s).phase = siC.new.phase
         /\ op(t, s).lastOp = Operation(t, s)
  BY <1>2 DEF CFServiceInstance, Operation, LastOperation
<1>4. CASE InstanceAssetsFail
  BY <1>1, <1>2, <1>4, ReturnAsks DEF InstanceAssetsFail, InstanceResult
<1>5. CASE SkipProvision
  <2>1. siC.new.phase = "live" /\ si.type = "managed"
    BY <1>5 DEF SkipProvision, At
  <2>2. \/ Ready(siC.new)
        \/ siC.new.failed /\ NotReady(siC.new, FALSE)
        \/ ~plan /\ NotReady(siC.new, FALSE)
        \/ NotReady(siC.new, TRUE)
    BY <1>5 DEF SkipProvision
  <2> QED
    BY <1>1, <1>2, <2>1, <2>2, ReturnAsks DEF InstanceResult
<1>6. CASE ProvisionInstance
  <2> DEFINE i == op("create", "initial")
             ok == [i EXCEPT !.lastOp.state = "succeeded"]
             bad == [i EXCEPT !.lastOp.state = "failed", !.failed = TRUE]
  <2>1. i \in CFServiceInstance /\ i.phase = siC.new.phase
    BY <1>3
  <2>2. siC.new.phase = "live"
    BY <1>6 DEF ProvisionInstance, At
  <2>3. \/ Ready(ok) \/ siC' = [pc |-> "poll", new |-> i]
        \/ NotReady(i, TRUE) \/ NotReady(bad, TRUE)
    BY <1>6 DEF ProvisionInstance
  <2> HIDE DEF i
  <2>4. ok \in CFServiceInstance /\ bad \in CFServiceInstance
    BY <2>1 DEF CFServiceInstance, LastOperation
  <2> HIDE DEF ok, bad
  <2>5. CASE siC' = [pc |-> "poll", new |-> i]
    BY <1>1, <2>1, <2>5 DEF InstancePolls
  <2>6. CASE Ready(ok) \/ NotReady(i, TRUE) \/ NotReady(bad, TRUE)
    BY <1>1, <2>1, <2>2, <2>4, <2>6, ReturnAsks DEF InstanceResult
  <2> QED
    BY <2>3, <2>5, <2>6
<1>7. CASE PollInstance
  <2>1. PICK answer \in Answers :
           LET i == [siC.new EXCEPT !.lastOp.state = Value(answer)] IN
             \/ answer = "error" /\ NotReady(siC.new, TRUE)
             \/ /\ answer # "error" /\ i.phase = "live"
                /\ ProcessProvisionOperation(i, answer)
             \/ /\ answer # "error" /\ i.phase = "deleting"
                /\ ProcessDeprovisionOperation(i, answer)
    BY <1>7 DEF PollInstance
  <2> DEFINE i == [siC.new EXCEPT !.lastOp.state = Value(answer)]
             bad == [i EXCEPT !.failed = TRUE]
  <2>2. Value(answer) \in {"in progress", "succeeded", "failed"}
    BY DEF Value
  <2>3. i \in CFServiceInstance /\ i.phase = siC.new.phase
    BY <1>2, <2>2 DEF CFServiceInstance, LastOperation
  <2>4. \/ NotReady(siC.new, TRUE) \/ NotReady(i, TRUE) \/ NotReady(bad, TRUE)
        \/ i.phase = "live" /\ Ready(i)
        \/ Return(i, FALSE, TRUE)
    BY <2>1 DEF ProcessProvisionOperation, ProcessDeprovisionOperation
  <2> HIDE DEF i
  <2>5. bad \in CFServiceInstance
    BY <2>3 DEF CFServiceInstance
  <2> HIDE DEF bad
  <2> QED
    BY <1>1, <1>2, <2>3, <2>4, <2>5, ReturnAsks DEF InstanceResult
<1>8. CASE ReconcileUserProvided
  <2> DEFINE i == [siC.new EXCEPT !.creds = TRUE, !.lastOp =
                     IF siC.new.creds THEN @ ELSE Operation("create", "succeeded")]
  <2>1. i \in CFServiceInstance
    BY <1>2 DEF CFServiceInstance, Operation, LastOperation
  <2>2. siC.new.phase = "live" /\ (NotReady(siC.new, TRUE) \/ Ready(i))
    BY <1>8 DEF ReconcileUserProvided, At
  <2> HIDE DEF i
  <2> QED
    BY <1>1, <1>2, <2>1, <2>2, ReturnAsks DEF InstanceResult
<1>9. CASE WaitForBindings
  BY <1>1, <1>2, <1>9, ReturnAsks DEF WaitForBindings, InstanceResult
<1>10. CASE ForgetInstance
  BY <1>1, <1>2, <1>10, ReturnAsks DEF ForgetInstance, InstanceResult
<1>11. CASE DeprovisionInstance
  <2> DEFINE i == op("delete", "initial")
             bad == [i EXCEPT !.lastOp.state = "failed"]
  <2>1. i \in CFServiceInstance /\ i.phase = siC.new.phase
    BY <1>3
  <2>2. \/ Return(i, FALSE, TRUE) \/ siC' = [pc |-> "poll", new |-> i]
        \/ NotReady(i, TRUE) \/ NotReady(bad, TRUE)
    BY <1>11 DEF DeprovisionInstance
  <2> HIDE DEF i
  <2>3. bad \in CFServiceInstance
    BY <2>1 DEF CFServiceInstance, LastOperation
  <2> HIDE DEF bad
  <2>4. CASE siC' = [pc |-> "poll", new |-> i]
    BY <1>1, <2>1, <2>4 DEF InstancePolls
  <2>5. CASE Return(i, FALSE, TRUE) \/ NotReady(i, TRUE) \/ NotReady(bad, TRUE)
    BY <1>1, <2>1, <2>3, <2>5, ReturnAsks DEF InstanceResult
  <2> QED
    BY <2>2, <2>4, <2>5
<1> QED
  BY <1>4, <1>5, <1>6, <1>7, <1>8, <1>9, <1>10, <1>11

\* The workers' steps on the instance keep what is queued, and queue what they
\* write.
LEMMA InstanceWrites ==
    ASSUME \/ InstanceAssetsFail \/ SkipProvision \/ ProvisionInstance \/ PollInstance
           \/ ReconcileUserProvided \/ WaitForBindings \/ ForgetInstance
           \/ DeprovisionInstance
    PROVE  /\ UNCHANGED <<si, plan, sbC>> /\ queue \subseteq queue'
           /\ UNCHANGED sb \/ DeleteBindings
           /\ \A b \in Bindings : sb'[b] # sb[b] => b \in queue'
<1>1. CASE \/ InstanceAssetsFail \/ SkipProvision \/ ProvisionInstance \/ PollInstance
           \/ ReconcileUserProvided
  BY <1>1 DEF InstanceAssetsFail, SkipProvision, ProvisionInstance, PollInstance,
              ReconcileUserProvided
<1>2. CASE WaitForBindings \/ ForgetInstance \/ DeprovisionInstance
  <2>1. UNCHANGED <<si, plan, sbC>> /\ DeleteBindings /\ Enqueue(queue)
    BY <1>2 DEF WaitForBindings, ForgetInstance, DeprovisionInstance
  <2> QED
    BY <2>1, EnqueueWakes
<1> QED
  BY <1>1, <1>2

\* Steps of the others leave the instance as it is for its worker, or queue it.
LEMMA InstanceLeft ==
    ASSUME TypeInv, InstanceWake, siC' = siC, Instance \in queue => Instance \in queue',
           \/ Instance \in queue'
           \/ /\ si'.phase = si.phase /\ si'.type = si.type
              /\ si'.ready = si.ready /\ si'.failed = si.failed
              /\ plan' = plan \/ si.type # "managed"
    PROVE  InstanceWake'
BY DEF InstanceWake, InstanceKept, InstanceAtRest, Exists

\* The instance controller never drops the instance.
LEMMA InstanceControllerWakes ==
    ASSUME TypeInv, InstanceWake, InstanceController
    PROVE  InstanceWake'
<1>1. CASE ReadInstance
  <2>1. /\ si' = si /\ plan' = plan /\ siC = Idle
        /\ siC' = IF Exists(si) THEN [pc |-> "read", new |-> Copy(si)] ELSE Idle
    BY <1>1 DEF ReadInstance
  <2>2. Copy(si).phase = si.phase
    BY Copies DEF TypeInv, ObjectsInv
  <2>3. CASE Exists(si)
    <3>1. siC'.pc = "read" /\ siC'.new.phase = si'.phase /\ siC' # Idle
      BY <2>1, <2>2, <2>3 DEF Idle
    <3> QED
      BY <3>1 DEF InstanceWake, InstanceKept
  <2>4. CASE ~Exists(si)
    <3>1. siC'.pc = "idle" /\ ~Exists(si')
      BY <2>1, <2>4 DEF Idle
    <3> QED
      BY <3>1 DEF InstanceWake, InstanceKept, InstanceAtRest
  <2> QED
    BY <2>3, <2>4
<1>2. CASE \/ InstanceAssetsFail \/ SkipProvision \/ ProvisionInstance \/ PollInstance
           \/ ReconcileUserProvided \/ WaitForBindings \/ ForgetInstance
           \/ DeprovisionInstance
  <2>1. UNCHANGED <<si, plan>> /\ queue \subseteq queue'
    BY <1>2, InstanceWrites
  <2>2. siC.pc \in {"read", "poll"} /\ (InstanceResult \/ InstancePolls)
    BY <1>2, InstanceResults
  <2>3. siC' # Idle
    BY <2>2 DEF InstanceResult, InstancePolls, Idle
  <2> QED
    BY <2>1, <2>2, <2>3 DEF InstanceWake, InstanceKept, InstanceResult, InstancePolls
<1>3. CASE PatchInstance
  <2>1. /\ siC.pc = "patch" /\ siC' = Idle /\ plan' = plan /\ si'.type = si.type
        /\ IF siC.remove THEN si'.phase = "gone" ELSE si'.phase = si.phase
    BY <1>3, PatchInstanceEffect
  <2>2. queue \subseteq queue' /\ (siC.requeue => Instance \in queue')
    <3>1. Enqueue(queue \cup (IF siC.requeue THEN {Instance} ELSE {}))
      BY <1>3 DEF PatchInstance
    <3> QED
      BY <3>1, EnqueueWakes
  <2>3. ~siC.remove => si'.ready = siC.new.ready /\ si'.failed = siC.new.failed
    BY <1>3 DEF PatchInstance, TypeInv, ObjectsInv, CFServiceInstance
  <2>4. siC'.pc = "idle"
    BY <2>1 DEF Idle
  <2> QED
    BY <2>1, <2>2, <2>3, <2>4 DEF InstanceWake, InstanceKept, InstanceAtRest, Exists
<1> QED
  BY <1>1, <1>2, <1>3 DEF InstanceController

\* Requests and the visibility of the plan wake the instance controller.
LEMMA RequestsWakeInstance ==
    ASSUME TypeInv, InstanceWake, API
    PROVE  InstanceWake'
<1>1. siC' = siC
  BY DEF API, CreateInstance, CreateInstanceSecret, AnnotatePurge, DeleteInstance,
         CreateBinding, CreateBindingSecret, DeleteBinding, ShowPlan, HidePlan
<1>2. CASE CreateInstanceSecret
  <2>1. /\ si' = [si EXCEPT !.params = TRUE] /\ plan' = plan
        /\ Instance \in queue => Instance \in queue'
    BY <1>2 DEF CreateInstanceSecret
  <2>2. /\ si'.phase = si.phase /\ si'.type = si.type
        /\ si'.ready = si.ready /\ si'.failed = si.failed
    BY <2>1 DEF TypeInv, ObjectsInv, CFServiceInstance
  <2> QED
    BY <1>1, <2>1, <2>2, InstanceLeft
<1>3. CASE \E b \in Bindings : CreateBindingSecret(b)
  <2>1. UNCHANGED <<si, plan, queue>>
    BY <1>3 DEF CreateBindingSecret
  <2> QED
    BY <1>1, <2>1, InstanceLeft
<1>4. CASE \/ \E t \in Types : CreateInstance(t)
           \/ AnnotatePurge \/ DeleteInstance
           \/ \E b \in Bindings, t \in {"app", "key"} : CreateBinding(b, t)
           \/ \E b \in Bindings : DeleteBinding(b)
           \/ ShowPlan \/ HidePlan
  <2>1. Enqueue(queue)
    BY <1>4 DEF CreateInstance, AnnotatePurge, DeleteInstance, CreateBinding, DeleteBinding,
                ShowPlan, HidePlan
  <2>2. \/ si' # si \/ (plan' # plan /\ si.type = "managed")
        \/ si' = si /\ (plan' = plan \/ si.type # "managed")
    OBVIOUS
  <2> QED
    BY <1>1, <2>1, <2>2, EnqueueWakes, InstanceLeft
<1> QED
  BY <1>2, <1>3, <1>4 DEF API

\* Every step keeps what is left to do for the instance queued.
LEMMA NextInstanceWakes ==
    ASSUME TypeInv, InstanceWake, [Next]_vars
    PROVE  InstanceWake'
<1>1. CASE BindingController
  <2>1. UNCHANGED <<si, plan, siC>>
    BY <1>1 DEF BindingController, ReadBinding, BindingWithoutInstance, BindingAssetsFail,
                SkipBind, Bind, PollBinding, BindUserProvided, ForgetBinding, Unbind,
                PatchBinding
  <2>2. Instance \in queue => Instance \in queue'
    <3>1. CASE \E b \in Bindings : ReadBinding(b)
      <4>1. PICK b \in Bindings : Enqueue(queue \ {b})
        BY <3>1 DEF ReadBinding
      <4> QED
        BY <4>1, EnqueueWakes, InstanceAssumption
    <3>2. CASE PatchBinding
      <4>1. Enqueue(queue \cup (IF sbC.requeue THEN {sbC.b} ELSE {}))
        BY <3>2 DEF PatchBinding
      <4> QED
        BY <4>1, EnqueueWakes
    <3>3. CASE \/ BindingWithoutInstance \/ BindingAssetsFail \/ SkipBind \/ Bind
               \/ PollBinding \/ BindUserProvided \/ ForgetBinding \/ Unbind
      BY <3>3 DEF BindingWithoutInstance, BindingAssetsFail, SkipBind, Bind, PollBinding,
                  BindUserProvided, ForgetBinding, Unbind
    <3> QED
      BY <1>1, <3>1, <3>2, <3>3 DEF BindingController
  <2> QED
    BY <2>1, <2>2, InstanceLeft
<1>2. CASE Crash
  <2>1. UNCHANGED <<si, plan>> /\ siC'.pc = "idle"
    BY <1>2 DEF Crash, Idle
  <2>2. Exists(si) => Instance \in queue'
    <3>1. Enqueue((IF Exists(si) THEN {Instance} ELSE {}) \cup Existing)
      BY <1>2 DEF Crash
    <3> QED
      BY <3>1, EnqueueWakes
  <2> QED
    BY <2>1, <2>2 DEF InstanceWake, InstanceKept, InstanceAtRest, Exists
<1>3. CASE Broker \/ UNCHANGED vars
  <2>1. UNCHANGED <<si, plan, siC, queue>>
    BY <1>3 DEF Broker, BrokerInstance, BrokerBinding, vars
  <2> QED
    BY <2>1, InstanceLeft
<1> QED
  BY <1>1, <1>2, <1>3, InstanceControllerWakes, RequestsWakeInstance DEF Next

\* The binding worker ends its work on a live binding that has failed for good
\* or has its secrets, or asks to be called again, or lets the binding go.
BindingResult ==
    /\ sbC'.pc = "patch" /\ sbC'.b = sbC.b
    /\ \/ sbC'.requeue \/ sbC'.remove
       \/ /\ sbC.new.phase = "live"
          /\ \/ sbC'.new.failed
             \/ /\ sbC'.new.ready /\ sbC'.new.env
                /\ sbC.new.type = "app" => sbC'.new.mount

\* Or it goes on to poll the broker about the same copy.
BindingPolls == sbC' = [sbC EXCEPT !.pc = "poll"]

LEMMA BindingResults ==
    ASSUME TypeInv,
           \/ BindingWithoutInstance \/ BindingAssetsFail \/ SkipBind \/ Bind \/ PollBinding
           \/ BindUserProvided \/ ForgetBinding \/ Unbind
    PROVE  /\ sbC.pc \in {"read", "poll"} /\ UNCHANGED <<si, sb, plan, siC, queue>>
           /\ BindingResult \/ BindingPolls
<1>1. sbC.pc \in {"read", "poll"} /\ UNCHANGED <<si, sb, plan, siC, queue>>
  BY DEF BindingWithoutInstance, BindingAssetsFail, SkipBind, Bind, PollBinding,
         BindUserProvided, ForgetBinding, Unbind, At
<1>2. sbC.new \in CFServiceBinding
  BY <1>1 DEF TypeInv, BindingCInv, BindingRun
<1> DEFINE bad == [sbC.new EXCEPT !.failed = TRUE]
           one == [sbC.new EXCEPT !.env = TRUE]
           two == [sbC.new EXCEPT !.env = TRUE, !.mount = TRUE]
           all == [sbC.new EXCEPT !.env = TRUE, !.mount = @ \/ sbC.new.type = "app"]
<1>3. /\ bad \in CFServiceBinding /\ one \in CFServiceBinding
      /\ two \in CFServiceBinding /\ two.env /\ two.mount
  BY <1>2 DEF CFServiceBinding
<1>4. all \in CFServiceBinding /\ all.env /\ (sbC.new.type = "app" => all.mount)
  <2>1. (sbC.new.mount \/ sbC.new.type = "app") \in BOOLEAN
    OBVIOUS
  <2>2. all = [sbC.new EXCEPT !.env = TRUE, !.mount = (sbC.new.mount \/ sbC.new.type = "app")]
    OBVIOUS
  <2> HIDE DEF all
  <2> QED
    BY <1>2, <2>1, <2>2 DEF CFServiceBinding
<1>5. CASE BindingWithoutInstance \/ BindingAssetsFail
  BY <1>1, <1>2, <1>5, ReturnBAsks DEF BindingWithoutInstance, BindingAssetsFail, BindingResult
<1>6. CASE SkipBind
  <2>1. sbC.new.phase = "live"
    BY <1>6 DEF SkipBind, At
  <2>2. \/ sbC.new.env /\ sbC.new.mount /\ ReadyB(sbC.new, FALSE)
        \/ sbC.new.failed /\ NotReadyB(sbC.new, FALSE)
        \/ NotReadyB(sbC.new, TRUE)
    BY <1>6 DEF SkipBind, IsReconciled
  <2> QED
    BY <1>1, <1>2, <2>1, <2>2, ReturnBAsks DEF BindingResult
<1>7. CASE Bind
  <2>1. sbC.new.phase = "live"
    BY <1>7 DEF Bind, At
  <2>2. \/ PublishCredentials(sbC.new) \/ BindingPolls
        \/ NotReadyB(sbC.new, TRUE) \/ NotReadyB(bad, TRUE)
    BY <1>7 DEF Bind, BindingPolls
  <2>3. PublishCredentials(sbC.new) =>
           ReadyB(all, FALSE) \/ NotReadyB(sbC.new, TRUE) \/ NotReadyB(one, TRUE)
    BY DEF PublishCredentials
  <2> HIDE DEF bad, one, all
  <2>4. CASE ReadyB(all, FALSE)
    BY <1>1, <1>4, <2>1, <2>4, ReturnBAsks DEF BindingResult
  <2>5. CASE NotReadyB(sbC.new, TRUE) \/ NotReadyB(bad, TRUE) \/ NotReadyB(one, TRUE)
    BY <1>1, <1>2, <1>3, <2>5, ReturnBAsks DEF BindingResult
  <2> QED
    BY <1>1, <2>2, <2>3, <2>4, <2>5
<1>8. CASE PollBinding
  <2>1. \/ NotReadyB(sbC.new, TRUE) \/ ReadyB(sbC.new, TRUE) \/ NotReadyB(bad, TRUE)
        \/ ReturnB(sbC.new, FALSE, TRUE)
    BY <1>8 DEF PollBinding, ProcessBindOperation, ProcessUnbindLastOperation
  <2> HIDE DEF bad
  <2> QED
    BY <1>1, <1>2, <1>3, <2>1, ReturnBAsks DEF BindingResult
<1>9. CASE BindUserProvided
  <2>1. sbC.new.phase = "live"
    BY <1>9 DEF BindUserProvided, At
  <2>2. NotReadyB(sbC.new, TRUE) \/ ReadyB(two, FALSE) \/ NotReadyB(one, TRUE)
    BY <1>9 DEF BindUserProvided
  <2> HIDE DEF one, two
  <2> QED
    BY <1>1, <1>2, <1>3, <2>1, <2>2, ReturnBAsks DEF BindingResult
<1>10. CASE ForgetBinding
  BY <1>1, <1>2, <1>10, ReturnBAsks DEF ForgetBinding, BindingResult
<1>11. CASE Unbind
  <2>1. \/ ReturnB(sbC.new, FALSE, TRUE) \/ BindingPolls \/ NotReadyB(sbC.new, TRUE)
    BY <1>11 DEF Unbind, BindingPolls
  <2> QED
    BY <1>1, <1>2, <2>1, ReturnBAsks DEF BindingResult
<1> QED
  BY <1>5, <1>6, <1>7, <1>8, <1>9, <1>10, <1>11

\* Steps of the others leave a binding as it is for its worker, or queue it.
LEMMA BindingsLeft ==
    ASSUME TypeInv, BindingInv, BindingWake, sbC' = sbC,
           \A b \in Bindings :
              /\ b \in queue => b \in queue'
              /\ sb'[b].type = sb[b].type \/ sb[b].phase = "absent"
              /\ \/ b \in queue'
                 \/ /\ sb'[b].phase = sb[b].phase /\ sb'[b].type = sb[b].type
                    /\ sb'[b].ready = sb[b].ready /\ sb'[b].failed = sb[b].failed
                    /\ sb'[b].env = sb[b].env /\ sb'[b].mount = sb[b].mount
    PROVE  BindingWake'
<1>1. sbC.pc # "idle" => sbC.b \in Bindings
  BY DEF TypeInv, BindingCInv, BindingRun, BindingPatch
<1>2. sbC.pc # "idle" => sb'[sbC.b].type = sb[sbC.b].type
  BY <1>1 DEF BindingInv, BindingWork, Exists
<1>3. BindingKept'
  BY <1>1, <1>2 DEF BindingWake, BindingKept
<1>4. ASSUME NEW b \in Bindings
      PROVE  b \in queue' \/ (sbC' # Idle /\ sbC'.b = b) \/ BindingAtRest(sb'[b])
  BY DEF BindingWake, BindingAtRest, Exists
<1> QED
  BY <1>3, <1>4 DEF BindingWake

\* The binding controller never drops a binding.
LEMMA BindingControllerWakes ==
    ASSUME TypeInv, BindingWake, BindingController
    PROVE  BindingWake'
<1>1. CASE \E b \in Bindings : ReadBinding(b)
  <2>1. PICK b \in Bindings : ReadBinding(b)
    BY <1>1
  <2>2. /\ sb' = sb /\ sbC = Idle
        /\ sbC' = IF Exists(sb[b]) THEN [pc |-> "read", b |-> b, new |-> Copy(sb[b])] ELSE Idle
        /\ Enqueue(queue \ {b})
    BY <2>1 DEF ReadBinding
  <2>3. Copy(sb[b]).phase = sb[b].phase /\ Copy(sb[b]).type = sb[b].type
    <3>1. sb[b] \in CFServiceBinding
      BY DEF TypeInv, ObjectsInv
    <3> QED
      BY <3>1 DEF Copy, CFServiceBinding
  <2>4. \A c \in Bindings : c # b => c \in queue' \/ BindingAtRest(sb'[c])
    BY <2>2, EnqueueWakes DEF BindingWake
  <2>5. CASE Exists(sb[b])
    <3>1. /\ sbC'.pc = "read" /\ sbC'.b = b /\ sbC' # Idle
          /\ sbC'.new.phase = sb'[b].phase /\ sbC'.new.type = sb'[b].type
      BY <2>2, <2>3, <2>5 DEF Idle
    <3> QED
      BY <2>4, <3>1 DEF BindingWake, BindingKept
  <2>6. CASE ~Exists(sb[b])
    <3>1. sbC'.pc = "idle" /\ BindingAtRest(sb'[b])
      BY <2>2, <2>6 DEF Idle, BindingAtRest
    <3> QED
      BY <2>4, <3>1 DEF BindingWake, BindingKept
  <2> QED
    BY <2>5, <2>6
<1>2. CASE \/ BindingWithoutInstance \/ BindingAssetsFail \/ SkipBind \/ Bind \/ PollBinding
           \/ BindUserProvided \/ ForgetBinding \/ Unbind
  <2>1. /\ sbC.pc \in {"read", "poll"} /\ UNCHANGED <<sb, queue>>
        /\ BindingResult \/ BindingPolls
    BY <1>2, BindingResults
  <2>2. /\ sbC.new.type = sb[sbC.b].type
        /\ sbC.new.phase = "live" => sbC.b \in queue \/ sb[sbC.b].phase = "live"
    BY <2>1 DEF BindingWake, BindingKept
  <2>3. sbC' # Idle /\ sbC'.b = sbC.b /\ BindingKept'
    <3>1. CASE BindingResult
      BY <2>1, <2>2, <3>1 DEF BindingResult, BindingKept, Idle
    <3>2. CASE BindingPolls
      <4>1. sbC \in BindingRun
        BY <2>1 DEF TypeInv, BindingCInv
      <4>2. sbC'.pc = "poll" /\ sbC'.b = sbC.b /\ sbC'.new = sbC.new
        BY <3>2, <4>1 DEF BindingPolls, BindingRun
      <4> QED
        BY <2>1, <2>2, <4>2 DEF BindingKept, Idle
    <3> QED
      BY <2>1, <3>1, <3>2
  <2> QED
    BY <2>1, <2>3 DEF BindingWake
<1>3. CASE PatchBinding
  <2>1. /\ sbC.pc = "patch" /\ sbC' = Idle /\ sbC.b \in Bindings
        /\ \A c \in Bindings : c # sbC.b => sb'[c] = sb[c]
        /\ IF sbC.remove THEN sb'[sbC.b].phase = "gone" ELSE sb'[sbC.b].phase = sb[sbC.b].phase
    BY <1>3, PatchBindingEffect
  <2>2. queue \subseteq queue' /\ (sbC.requeue => sbC.b \in queue')
    <3>1. Enqueue(queue \cup (IF sbC.requeue THEN {sbC.b} ELSE {}))
      BY <1>3 DEF PatchBinding
    <3> QED
      BY <3>1, EnqueueWakes
  <2>3. ~sbC.remove => /\ sb'[sbC.b].ready = sbC.new.ready /\ sb'[sbC.b].failed = sbC.new.failed
                       /\ sb'[sbC.b].env = sbC.new.env /\ sb'[sbC.b].mount = sbC.new.mount
                       /\ sb'[sbC.b].type = sb[sbC.b].type
    BY <1>3, <2>1 DEF PatchBinding, TypeInv, ObjectsInv, CFServiceBinding
  <2>4. sbC'.pc = "idle" /\ sbC # Idle
    BY <2>1 DEF Idle
  <2>5. sbC.b \in queue' \/ BindingAtRest(sb'[sbC.b])
    BY <2>1, <2>2, <2>3 DEF BindingWake, BindingKept, BindingAtRest, Exists
  <2>6. \A c \in Bindings : c # sbC.b => c \in queue' \/ BindingAtRest(sb'[c])
    BY <2>1, <2>2 DEF BindingWake
  <2> QED
    BY <2>4, <2>5, <2>6 DEF BindingWake, BindingKept
<1> QED
  BY <1>1, <1>2, <1>3 DEF BindingController

\* Requests wake the binding controller.
LEMMA RequestsWakeBindings ==
    ASSUME TypeInv, BindingInv, BindingWake, API
    PROVE  BindingWake'
<1>1. sbC' = sbC
  BY DEF API, CreateInstance, CreateInstanceSecret, AnnotatePurge, DeleteInstance,
         CreateBinding, CreateBindingSecret, DeleteBinding, ShowPlan, HidePlan
<1>2. CASE CreateInstanceSecret
  <2>1. sb' = sb /\ queue \subseteq queue'
    BY <1>2 DEF CreateInstanceSecret
  <2> QED
    BY <1>1, <2>1, BindingsLeft
<1>3. CASE \E b \in Bindings : CreateBindingSecret(b)
  <2>1. PICK b \in Bindings : sb' = [sb EXCEPT ![b].params = TRUE] /\ queue' = queue
    BY <1>3 DEF CreateBindingSecret
  <2>2. \A c \in Bindings :
           /\ sb'[c].phase = sb[c].phase /\ sb'[c].type = sb[c].type
           /\ sb'[c].ready = sb[c].ready /\ sb'[c].failed = sb[c].failed
           /\ sb'[c].env = sb[c].env /\ sb'[c].mount = sb[c].mount
    BY <2>1 DEF TypeInv, ObjectsInv, CFServiceBinding
  <2> QED
    BY <1>1, <2>1, <2>2, BindingsLeft
<1>4. CASE \/ \E t \in Types : CreateInstance(t)
           \/ AnnotatePurge \/ DeleteInstance \/ ShowPlan \/ HidePlan
  <2>1. sb' = sb /\ Enqueue(queue)
    BY <1>4 DEF CreateInstance, AnnotatePurge, DeleteInstance, ShowPlan, HidePlan
  <2>2. queue \subseteq queue'
    BY <2>1, EnqueueWakes
  <2> QED
    BY <1>1, <2>1, <2>2, BindingsLeft
<1>5. CASE \/ \E b \in Bindings, t \in {"app", "key"} : CreateBinding(b, t)
           \/ \E b \in Bindings : DeleteBinding(b)
  <2>1. Enqueue(queue)
    BY <1>5 DEF CreateBinding, DeleteBinding
  <2>2. ASSUME NEW c \in Bindings
        PROVE  sb'[c].type = sb[c].type \/ sb[c].phase = "absent"
    <3>1. PICK b \in Bindings :
             \/ \E t \in {"app", "key"} :
                   /\ sb[b].phase = "absent"
                   /\ sb' = [sb EXCEPT ![b].phase = "live", ![b].type = t]
             \/ sb' = [sb EXCEPT ![b].phase = "deleting"]
      BY <1>5 DEF CreateBinding, DeleteBinding
    <3>2. sb \in [Bindings -> CFServiceBinding] /\ sb[c] \in CFServiceBinding
      BY DEF TypeInv, ObjectsInv
    <3>3. CASE b # c
      BY <3>1, <3>2, <3>3
    <3>4. CASE b = c
      BY <3>1, <3>2, <3>4 DEF CFServiceBinding
    <3> QED
      BY <3>3, <3>4
  <2> QED
    BY <1>1, <2>1, <2>2, EnqueueWakes, BindingsLeft
<1> QED
  BY <1>2, <1>3, <1>4, <1>5 DEF API

\* Every step keeps what is left to do for the bindings queued.
LEMMA NextBindingWakes ==
    ASSUME TypeInv, BindingInv, BindingWake, [Next]_vars
    PROVE  BindingWake'
<1>1. CASE ReadInstance \/ PatchInstance
  <2>1. UNCHANGED <<sb, sbC>> /\ \A b \in Bindings : b \in queue => b \in queue'
    <3>1. PICK base : /\ Enqueue(base)
                      /\ base = queue \ {Instance} \/ queue \subseteq base
      BY <1>1 DEF ReadInstance, PatchInstance
    <3>2. UNCHANGED <<sb, sbC>>
      BY <1>1 DEF ReadInstance, PatchInstance
    <3> QED
      BY <3>1, <3>2, EnqueueWakes, InstanceAssumption
  <2> QED
    BY <2>1, BindingsLeft
<1>2. CASE \/ InstanceAssetsFail \/ SkipProvision \/ ProvisionInstance \/ PollInstance
           \/ ReconcileUserProvided \/ WaitForBindings \/ ForgetInstance
           \/ DeprovisionInstance
  <2>1. /\ sbC' = sbC /\ queue \subseteq queue' /\ (UNCHANGED sb \/ DeleteBindings)
        /\ \A b \in Bindings : sb'[b] # sb[b] => b \in queue'
    BY <1>2, InstanceWrites
  <2>2. \A b \in Bindings : sb'[b].type = sb[b].type
    BY <2>1 DEF DeleteBindings, TypeInv, ObjectsInv, CFServiceBinding
  <2> QED
    BY <2>1, <2>2, BindingsLeft
<1>3. CASE Crash
  <2>1. sb' = sb /\ sbC'.pc = "idle"
    BY <1>3 DEF Crash, Idle
  <2>2. Existing \subseteq queue'
    <3>1. Enqueue((IF Exists(si) THEN {Instance} ELSE {}) \cup Existing)
      BY <1>3 DEF Crash
    <3> QED
      BY <3>1, EnqueueWakes
  <2>3. \A b \in Bindings : b \in queue' \/ BindingAtRest(sb'[b])
    BY <2>1, <2>2 DEF Existing, BindingAtRest
  <2> QED
    BY <2>1, <2>3 DEF BindingWake, BindingKept
<1>4. CASE Broker \/ UNCHANGED vars
  <2>1. UNCHANGED <<sb, sbC, queue>>
    BY <1>4 DEF Broker, BrokerInstance, BrokerBinding, vars
  <2> QED
    BY <2>1, BindingsLeft
<1> QED
  BY <1>1, <1>2, <1>3, <1>4, BindingControllerWakes, RequestsWakeBindings
     DEF Next, InstanceController

\* Whatever is left to do for the instance or a binding, a controller is at it
\* or has it in its queue.  So when the controllers have come to rest, nothing
\* that is being deleted is left, and every object that is has become ready,
\* has failed for good, or waits for its plan (ReconcileResource and the
\* watches of SetupWithManager).
THEOREM NoWorkForgotten == Spec => []WorkIsQueued
<1> DEFINE Inv == TypeInv /\ InstanceInv /\ BindingInv /\ InstanceWake /\ BindingWake
<1>1. Init => Inv
  <2> SUFFICES ASSUME Init PROVE Inv
    OBVIOUS
  <2>1. TypeInv /\ InstanceInv /\ BindingInv
    BY InitType, InitInvs
  <2>2. /\ ~Exists(si) /\ siC.pc = "idle" /\ sbC.pc = "idle"
        /\ \A b \in Bindings : ~Exists(sb[b])
    BY DEF Init, NoInstance, NoBinding, Idle, Exists
  <2> QED
    BY <2>1, <2>2 DEF InstanceWake, InstanceKept, BindingWake, BindingKept, InstanceAtRest,
                      BindingAtRest
<1>2. Inv /\ [Next]_vars => Inv'
  BY NextType, NextInstance, NextBinding, NextInstanceWakes, NextBindingWakes
<1>3. Inv => WorkIsQueued
  BY DEF InstanceWake, BindingWake, WorkIsQueued
<1> QED
  BY <1>1, <1>2, <1>3, PTL DEF Spec

=============================================================================
