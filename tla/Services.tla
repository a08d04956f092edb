------------------------------ MODULE Services ------------------------------
(***************************************************************************)
(* Service instances, service bindings and the broker behind them.         *)
(*                                                                         *)
(* A CFServiceInstance is provisioned at a service broker (managed) or     *)
(* carries credentials of its own (user-provided).  A CFServiceBinding     *)
(* publishes credentials for an app or as a key.  Both have finalizers:    *)
(* deleting them unbinds and deprovisions at the broker first.  The broker *)
(* answers at once or accepts an operation that is polled; requests fail,  *)
(* are refused, or take effect although their answer is lost, and          *)
(* controllers restart between a call to the broker and the status patch   *)
(* that would remember it.  The module describes one instance with its     *)
(* bindings.  Each controller has one worker and a work queue.             *)
(***************************************************************************)
EXTENDS Naturals, FiniteSets, Functions

CONSTANTS
    Bindings,       \* the bindings users may create
    Types,          \* the instance types users may create
    LateBinding,    \* are bindings created while the instance is deleted?
    MaxFaults       \* bound on refusals, failures, lost answers and restarts

ASSUME TypesAssumption == Types \subseteq {"managed", "user-provided"}
ASSUME LateBindingAssumption == LateBinding \in BOOLEAN
ASSUME FaultsAssumption == MaxFaults \in Nat

VARIABLES
    si,         \* the CFServiceInstance
    sb,         \* the CFServiceBindings
    plan,       \* is the service plan visible to the space?
    broker,     \* what the broker has: the instance, and the bindings
    siC,        \* the worker of the instance controller
    sbC,        \* the worker of the binding controller
    queue,      \* the work queues; Instance stands for the instance
    faults

vars == <<si, sb, plan, broker, siC, sbC, queue, faults>>

-----------------------------------------------------------------------------
(* State.                                                                  *)

Phases == {"absent", "live", "deleting", "gone"}
Instance == "instance"

ASSUME InstanceAssumption == Instance \notin Bindings

LastOperation ==
    [type : {"none", "create", "delete"},
     state : {"initial", "in progress", "succeeded", "failed"}]
Operation(type, state) == [type |-> type, state |-> state]

\* params is the parameters secret of a managed instance, the credentials
\* secret of a user-provided one; purge the annotation that says not to
\* contact the broker; failed the ProvisioningFailed condition; creds
\* status.credentials.
CFServiceInstance ==
    [phase : Phases, type : {"managed", "user-provided"}, params : BOOLEAN,
     purge : BOOLEAN, ready : BOOLEAN, failed : BOOLEAN, creds : BOOLEAN,
     lastOp : LastOperation]

\* env and mount are the references to the two credentials secrets.
CFServiceBinding ==
    [phase : Phases, type : {"app", "key"}, params : BOOLEAN, ready : BOOLEAN,
     failed : BOOLEAN, env : BOOLEAN, mount : BOOLEAN]

NoInstance ==
    [phase |-> "absent", type |-> "managed", params |-> FALSE, purge |-> FALSE,
     ready |-> FALSE, failed |-> FALSE, creds |-> FALSE,
     lastOp |-> Operation("none", "initial")]
NoBinding ==
    [phase |-> "absent", type |-> "app", params |-> FALSE, ready |-> FALSE,
     failed |-> FALSE, env |-> FALSE, mount |-> FALSE]

\* Both kinds of broker resource go through the same states.
BrokerStates ==
    {"none", "creating", "present", "createFailed", "deleting", "deleteFailed"}

Idle == [pc |-> "idle"]

Exists(o) == o.phase \in {"live", "deleting"}
Existing == {b \in Bindings : Exists(sb[b])}

Fault == faults < MaxFaults /\ faults' = faults + 1
NoFault == faults' = faults

\* Mutant: the plan is not watched.
EnqueueWithoutPlan(base) ==
    queue' = base
        \cup (IF si' # si THEN {Instance} ELSE {})
        \cup {b \in Bindings : sb'[b] # sb[b] \/ (si' # si /\ Exists(sb[b]))}

\* A write wakes the controllers that watch the object: both watch their own
\* kind, the binding controller watches the instance too, the instance
\* controller the plan.
Enqueue(base) ==
    queue' = base
        \cup (IF si' # si \/ (plan' # plan /\ si.type = "managed") THEN {Instance} ELSE {})
        \cup {b \in Bindings : sb'[b] # sb[b] \/ (si' # si /\ Exists(sb[b]))}

-----------------------------------------------------------------------------
(* The broker, as osbapi.Client sees it: a request finds a resource in a   *)
(* state, is answered, and leaves it in a state.  The answers are those    *)
(* the client tells apart: ok, async (202), gone (410), unrecoverable      *)
(* (400, 409 on creation, 422) and error (anything else).                  *)

\* PUT of an instance or a binding.  Repeating it changes nothing.
CreateReplies ==
    {<<"none", "ok", "present">>,
     <<"none", "async", "creating">>,
     <<"creating", "async", "creating">>,
     <<"present", "ok", "present">>,
     <<"createFailed", "async", "creating">>,
     <<"createFailed", "unrecoverable", "createFailed">>}

\* DELETE.  An operation in progress is a 422.
DeleteReplies ==
    {<<"none", "gone", "none">>,
     <<"creating", "unrecoverable", "creating">>,
     <<"deleting", "async", "deleting">>}
    \cup ({"present", "createFailed", "deleteFailed"}
             \X {"ok"} \X {"none"})
    \cup ({"present", "createFailed", "deleteFailed"}
             \X {"async"} \X {"deleting"})

\* A request takes effect and is answered; or it fails, is refused, or its
\* answer is lost.
Call(replies, before, reply, after) ==
    \/ <<before, reply, after>> \in replies /\ NoFault
    \/ /\ reply \in {"error", "unrecoverable"} /\ after = before
       /\ Fault
    \/ /\ reply = "error"
       /\ \E r \in {"ok", "async"} : <<before, r, after>> \in replies
       /\ Fault

Replies == {"ok", "async", "gone", "unrecoverable", "error"}

\* The last operation; what is deleted may be answered with 410, which the
\* client returns as an error.
Poll(state, answer) ==
    \/ /\ \/ state \in {"creating", "deleting"} /\ answer \in {"in progress", "other"}
          \/ state \in {"present", "none"} /\ answer = "succeeded"
          \/ state \in {"createFailed", "deleteFailed"} /\ answer = "failed"
          \/ state = "none" /\ answer = "error"
       /\ NoFault
    \/ answer = "error" /\ Fault

Answers == {"succeeded", "failed", "in progress", "other", "error"}

\* Mutant: the state is reported as the broker gave it.
ValueAsIs(answer) == answer

Value(answer) ==
    IF answer \in {"succeeded", "failed"} THEN answer ELSE "in progress"

\* An accepted operation ends.
Progress(before, after) ==
    \/ <<before, after>> \in {<<"creating", "present">>, <<"deleting", "none">>}
          /\ NoFault
    \/ <<before, after>> \in {<<"creating", "createFailed">>,
                              <<"deleting", "deleteFailed">>}
          /\ Fault

BrokerInstance ==
    /\ \E s \in BrokerStates : Progress(broker.inst, s) /\ broker' = [broker EXCEPT !.inst = s]
    /\ UNCHANGED <<si, sb, plan, siC, sbC, queue>>

BrokerBinding(b) ==
    /\ \E s \in BrokerStates :
          Progress(broker.bind[b], s) /\ broker' = [broker EXCEPT !.bind[b] = s]
    /\ UNCHANGED <<si, sb, plan, siC, sbC, queue>>

-----------------------------------------------------------------------------
(* API requests.                                                           *)

\* The secret follows the object in a second call.
CreateInstance(t) ==
    /\ si.phase = "absent"
    /\ t = "managed" => plan
    /\ si' = [si EXCEPT !.phase = "live", !.type = t]
    /\ UNCHANGED <<sb, plan, broker, siC, sbC, faults>>
    /\ Enqueue(queue)

\* Not watched by the controllers of managed services.
CreateInstanceSecret ==
    /\ Exists(si) /\ ~si.params
    /\ si' = [si EXCEPT !.params = TRUE]
    /\ UNCHANGED <<sb, plan, broker, siC, sbC, faults>>
    /\ queue' = IF si.type = "managed" THEN queue ELSE queue \cup {Instance}

\* DeleteServiceInstance with purge sets the annotation first.
AnnotatePurge ==
    /\ Exists(si) /\ ~si.purge
    /\ si' = [si EXCEPT !.purge = TRUE]
    /\ UNCHANGED <<sb, plan, broker, siC, sbC, faults>>
    /\ Enqueue(queue)

DeleteInstance ==
    /\ si.phase = "live"
    /\ si' = [si EXCEPT !.phase = "deleting"]
    /\ UNCHANGED <<sb, plan, broker, siC, sbC, faults>>
    /\ Enqueue(queue)

\* The instance is only looked up: it need not be ready, nor stay.  Keys are
\* not offered for user-provided instances.
CreateBinding(b, t) ==
    /\ si.phase = "live" \/ (LateBinding /\ si.phase = "deleting")
    /\ sb[b].phase = "absent"
    /\ si.type = "user-provided" => t = "app"
    /\ sb' = [sb EXCEPT ![b].phase = "live", ![b].type = t]
    /\ UNCHANGED <<si, plan, broker, siC, sbC, faults>>
    /\ Enqueue(queue)

CreateBindingSecret(b) ==
    /\ Exists(sb[b]) /\ ~sb[b].params
    /\ si.type = "managed"
    /\ sb' = [sb EXCEPT ![b].params = TRUE]
    /\ UNCHANGED <<si, plan, broker, siC, sbC, queue, faults>>

\* The handler looks the instance up, too.
DeleteBinding(b) ==
    /\ sb[b].phase = "live"
    /\ Exists(si)
    /\ sb' = [sb EXCEPT ![b].phase = "deleting"]
    /\ UNCHANGED <<si, plan, broker, siC, sbC, faults>>
    /\ Enqueue(queue)

\* The plan becomes visible or, as a disturbance, invisible.
ShowPlan ==
    /\ ~plan
    /\ plan' = TRUE
    /\ UNCHANGED <<si, sb, broker, siC, sbC, faults>>
    /\ Enqueue(queue)
HidePlan ==
    /\ plan
    /\ Fault
    /\ plan' = FALSE
    /\ UNCHANGED <<si, sb, broker, siC, sbC>>
    /\ Enqueue(queue)

-----------------------------------------------------------------------------
(* The instance controllers.                                               *)

\* The worker's copy of an object; the secrets are objects of their own,
\* which it reads when it comes to them.
Copy(o) == [o EXCEPT !.params = FALSE]

ReadInstance ==
    /\ Instance \in queue
    /\ siC = Idle
    /\ siC' = IF Exists(si) THEN [pc |-> "read", new |-> Copy(si)] ELSE Idle
    /\ UNCHANGED <<si, sb, plan, broker, sbC, faults>>
    /\ Enqueue(queue \ {Instance})

\* The reconciler returns; its changes of the status are written by the patch
\* that follows.  With an error, or a result that asks for it, the request is
\* put back.
Return(new, requeue, remove) ==
    siC' = [pc |-> "patch", requeue |-> requeue, remove |-> remove,
            new |-> Restrict(new, {"ready", "failed", "creds", "lastOp"})]
NotReady(new, requeue) == Return([new EXCEPT !.ready = FALSE], requeue, FALSE)
Ready(new) == Return([new EXCEPT !.ready = TRUE], FALSE, FALSE)

At(c, pc, phase, type) == c.pc = pc /\ c.new.phase = phase /\ si.type = type

\* What ends the reconciliation of a live managed instance before the broker
\* is asked: it is ready; it has failed; its plan is not visible; it has no
\* parameters secret yet.
SkipProvision ==
    /\ At(siC, "read", "live", "managed")
    /\ LET i == siC.new IN
       \/ i.ready /\ Ready(i)
       \/ ~i.ready /\ i.failed /\ NotReady(i, FALSE)
       \/ ~i.ready /\ ~i.failed /\ ~plan /\ NotReady(i, FALSE)
       \/ ~i.ready /\ ~i.failed /\ plan /\ ~si.params /\ NotReady(i, TRUE)
    /\ UNCHANGED <<si, sb, plan, broker, sbC, queue, faults>>

\* Mutant: the bindings are deleted and not waited for.
EnsureNoServiceBindingsDeleted == TRUE

\* EnsureNoServiceBindings: they are deleted, and waited for.
EnsureNoServiceBindings == Existing = {}

\* The plan, the offering or the broker cannot be read: an error for every
\* managed instance, also for one that is ready.
InstanceAssetsFail ==
    /\ siC.pc = "read" /\ si.type = "managed"
    /\ siC.new.phase = "deleting" => EnsureNoServiceBindings /\ ~siC.new.purge
    /\ Fault
    /\ NotReady(siC.new, TRUE)
    /\ UNCHANGED <<si, sb, plan, broker, sbC, queue>>

ProvisionInstance ==
    /\ At(siC, "read", "live", "managed")
    /\ ~siC.new.ready /\ ~siC.new.failed /\ plan /\ si.params
    /\ \E reply \in Replies, s \in BrokerStates :
          /\ Call(CreateReplies, broker.inst, reply, s)
          /\ broker' = [broker EXCEPT !.inst = s]
          /\ LET i == [siC.new EXCEPT !.lastOp = Operation("create", "initial")] IN
             \/ reply = "ok" /\ Ready([i EXCEPT !.lastOp.state = "succeeded"])
             \/ reply = "async" /\ siC' = [pc |-> "poll", new |-> i]
             \/ reply = "error" /\ NotReady(i, TRUE)
             \/ /\ reply = "unrecoverable"
                /\ NotReady([i EXCEPT !.lastOp.state = "failed", !.failed = TRUE], TRUE)
    /\ UNCHANGED <<si, sb, plan, sbC, queue>>

\* Mutant: whatever is not a failure counts as success.
ProcessProvisionOperationOptimistic(i, answer) ==
    \/ answer # "failed" /\ Ready(i)
    \/ answer = "failed" /\ NotReady([i EXCEPT !.failed = TRUE], TRUE)

ProcessProvisionOperation(i, answer) ==
    \/ answer = "succeeded" /\ Ready(i)
    \/ answer = "failed" /\ NotReady([i EXCEPT !.failed = TRUE], TRUE)
    \/ answer \in {"in progress", "other"} /\ NotReady(i, TRUE)

ProcessDeprovisionOperation(i, answer) ==
    \/ answer = "succeeded" /\ Return(i, FALSE, TRUE)
    \/ answer # "succeeded" /\ NotReady(i, TRUE)

PollInstance ==
    /\ siC.pc = "poll"
    /\ \E answer \in Answers :
          /\ Poll(broker.inst, answer)
          /\ LET i == [siC.new EXCEPT !.lastOp.state = Value(answer)] IN
             \/ answer = "error" /\ NotReady(siC.new, TRUE)
             \/ /\ answer # "error" /\ i.phase = "live"
                /\ ProcessProvisionOperation(i, answer)
             \/ /\ answer # "error" /\ i.phase = "deleting"
                /\ ProcessDeprovisionOperation(i, answer)
    /\ UNCHANGED <<si, sb, plan, broker, sbC, queue>>

\* A user-provided instance waits for its credentials secret.
ReconcileUserProvided ==
    /\ At(siC, "read", "live", "user-provided")
    /\ LET i == siC.new IN
       \/ ~si.params /\ NotReady(i, TRUE)
       \/ /\ si.params
          /\ Ready([i EXCEPT !.creds = TRUE, !.lastOp =
                      IF i.creds THEN @ ELSE Operation("create", "succeeded")])
    /\ UNCHANGED <<si, sb, plan, broker, sbC, queue, faults>>

DeleteBindings ==
    sb' = [b \in Bindings |-> IF sb[b].phase = "live" THEN [sb[b] EXCEPT !.phase = "deleting"]
                              ELSE sb[b]]

\* Mutant: the instance is not looked at again; nothing else would wake it.
WaitForBindingsNoRequeue ==
    /\ siC.pc = "read" /\ siC.new.phase = "deleting"
    /\ ~EnsureNoServiceBindings
    /\ DeleteBindings
    /\ NotReady(siC.new, FALSE)
    /\ UNCHANGED <<si, plan, broker, sbC, faults>>
    /\ Enqueue(queue)

\* The instance is looked at again after a second.
WaitForBindings ==
    /\ siC.pc = "read" /\ siC.new.phase = "deleting"
    /\ ~EnsureNoServiceBindings
    /\ DeleteBindings
    /\ NotReady(siC.new, TRUE)
    /\ UNCHANGED <<si, plan, broker, sbC, faults>>
    /\ Enqueue(queue)

\* Without a broker to ask: user-provided, or purged.
ForgetInstance ==
    /\ siC.pc = "read" /\ siC.new.phase = "deleting"
    /\ EnsureNoServiceBindings
    /\ si.type = "user-provided" \/ siC.new.purge
    /\ DeleteBindings
    /\ Return(siC.new, FALSE, TRUE)
    /\ UNCHANGED <<si, plan, broker, sbC, faults>>
    /\ Enqueue(queue)

DeprovisionInstance ==
    /\ At(siC, "read", "deleting", "managed")
    /\ EnsureNoServiceBindings
    /\ ~siC.new.purge
    /\ DeleteBindings
    /\ \E reply \in Replies, s \in BrokerStates :
          /\ Call(DeleteReplies, broker.inst, reply, s)
          /\ broker' = [broker EXCEPT !.inst = s]
          /\ LET i == [siC.new EXCEPT !.lastOp = Operation("delete", "initial")] IN
             \/ reply \in {"ok", "gone"} /\ Return(i, FALSE, TRUE)
             \/ reply = "async" /\ siC' = [pc |-> "poll", new |-> i]
             \/ reply = "error" /\ NotReady(i, TRUE)
             \/ reply = "unrecoverable" /\ NotReady([i EXCEPT !.lastOp.state = "failed"], TRUE)
    /\ UNCHANGED <<si, plan, sbC>>
    /\ Enqueue(queue)

\* The merge patches of the reconciler: the status fields, or the finalizer.
PatchInstance ==
    /\ siC.pc = "patch"
    /\ si' = IF siC.remove
             THEN [NoInstance EXCEPT !.phase = "gone", !.type = si.type, !.purge = si.purge]
             ELSE [si EXCEPT !.ready = siC.new.ready, !.failed = siC.new.failed,
                             !.creds = siC.new.creds, !.lastOp = siC.new.lastOp]
    /\ siC' = Idle
    /\ UNCHANGED <<sb, plan, broker, sbC, faults>>
    /\ Enqueue(queue \cup (IF siC.requeue THEN {Instance} ELSE {}))

-----------------------------------------------------------------------------
(* The binding controller.                                                 *)

ReadBinding(b) ==
    /\ b \in queue
    /\ sbC = Idle
    /\ sbC' = IF Exists(sb[b]) THEN [pc |-> "read", b |-> b, new |-> Copy(sb[b])] ELSE Idle
    /\ UNCHANGED <<si, sb, plan, broker, siC, faults>>
    /\ Enqueue(queue \ {b})

ReturnB(new, requeue, remove) ==
    sbC' = [pc |-> "patch", b |-> sbC.b, requeue |-> requeue, remove |-> remove,
            new |-> Restrict(new, {"ready", "failed", "env", "mount"})]
NotReadyB(new, requeue) == ReturnB([new EXCEPT !.ready = FALSE], requeue, FALSE)
ReadyB(new, requeue) == ReturnB([new EXCEPT !.ready = TRUE], requeue, FALSE)

\* The instance is read first, also for a binding that is being deleted; it
\* may be gone, and reading it may fail.
BindingWithoutInstance ==
    /\ sbC.pc = "read"
    /\ Exists(si) => Fault
    /\ ~Exists(si) => NoFault
    /\ NotReadyB(sbC.new, TRUE)
    /\ UNCHANGED <<si, sb, plan, broker, siC, queue>>

BindingAssetsFail ==
    /\ sbC.pc = "read" /\ si.type = "managed" /\ Exists(si)
    /\ sbC.new.phase = "deleting" => ~si.purge
    /\ Fault
    /\ NotReadyB(sbC.new, TRUE)
    /\ UNCHANGED <<si, sb, plan, broker, siC, queue>>

IsReconciled(x) == x.env /\ x.mount

SkipBind ==
    /\ At(sbC, "read", "live", "managed") /\ Exists(si)
    /\ LET x == sbC.new IN
       \/ IsReconciled(x) /\ ReadyB(x, FALSE)
       \/ ~IsReconciled(x) /\ x.failed /\ NotReadyB(x, FALSE)
       \/ ~IsReconciled(x) /\ ~x.failed /\ ~sb[sbC.b].params /\ NotReadyB(x, TRUE)
    /\ UNCHANGED <<si, sb, plan, broker, siC, queue, faults>>

\* The broker refuses to bind to an instance it does not have.
BindReplies ==
    IF broker.inst \in {"present", "deleteFailed"} THEN CreateReplies
    ELSE {<<s, "error", s>> : s \in BrokerStates}
            \cup {<<s, "unrecoverable", s>> : s \in BrokerStates}

\* Two secrets for an app, one for a key; each may fail to be written.
PublishCredentials(x) ==
    \/ /\ NoFault
       /\ ReadyB([x EXCEPT !.env = TRUE,
                           !.mount = @ \/ x.type = "app"], FALSE)
    \/ Fault /\ NotReadyB(x, TRUE)
    \/ x.type = "app" /\ Fault /\ NotReadyB([x EXCEPT !.env = TRUE], TRUE)

Bind ==
    /\ At(sbC, "read", "live", "managed") /\ Exists(si)
    /\ ~IsReconciled(sbC.new) /\ ~sbC.new.failed /\ sb[sbC.b].params
    /\ \E reply \in Replies, s \in BrokerStates :
          /\ broker' = [broker EXCEPT !.bind[sbC.b] = s]
          /\ LET x == sbC.new IN
             \/ /\ reply = "ok"
                /\ <<broker.bind[sbC.b], reply, s>> \in BindReplies
                /\ PublishCredentials(x)
             \/ /\ Call(BindReplies, broker.bind[sbC.b], reply, s)
                /\ \/ reply = "async" /\ sbC' = [sbC EXCEPT !.pc = "poll"]
                   \/ reply = "error" /\ NotReadyB(x, TRUE)
                   \/ reply = "unrecoverable" /\ NotReadyB([x EXCEPT !.failed = TRUE], TRUE)
    /\ UNCHANGED <<si, sb, plan, siC, queue>>

\* A binding that has succeeded is bound once more to get the credentials.
ProcessBindOperation(x, answer) ==
    \/ answer = "succeeded" /\ ReadyB(x, TRUE)
    \/ answer = "failed" /\ NotReadyB([x EXCEPT !.failed = TRUE], TRUE)
    \/ answer \in {"in progress", "other"} /\ NotReadyB(x, TRUE)

\* Mutant: an unbinding that failed is taken for done.
ProcessUnbindLastOperationLenient(x, answer) ==
    \/ answer \in {"succeeded", "failed"} /\ ReturnB(x, FALSE, TRUE)
    \/ answer \in {"in progress", "other"} /\ NotReadyB(x, TRUE)

ProcessUnbindLastOperation(x, answer) ==
    \/ answer = "succeeded" /\ ReturnB(x, FALSE, TRUE)
    \/ answer # "succeeded" /\ NotReadyB(x, TRUE)

PollBinding ==
    /\ sbC.pc = "poll"
    /\ \E answer \in Answers :
          /\ Poll(broker.bind[sbC.b], answer)
          /\ \/ answer = "error" /\ NotReadyB(sbC.new, TRUE)
             \/ /\ answer # "error" /\ sbC.new.phase = "live"
                /\ ProcessBindOperation(sbC.new, answer)
             \/ /\ answer # "error" /\ sbC.new.phase = "deleting"
                /\ ProcessUnbindLastOperation(sbC.new, answer)
    /\ UNCHANGED <<si, sb, plan, broker, siC, queue>>

\* Credentials of a user-provided instance.
BindUserProvided ==
    /\ At(sbC, "read", "live", "user-provided") /\ Exists(si)
    /\ \/ ~si.creds /\ NotReadyB(sbC.new, TRUE) /\ NoFault
       \/ /\ si.creds
          /\ \/ ReadyB([sbC.new EXCEPT !.env = TRUE, !.mount = TRUE], FALSE) /\ NoFault
             \/ NotReadyB([sbC.new EXCEPT !.env = TRUE], TRUE) /\ Fault
    /\ UNCHANGED <<si, sb, plan, broker, siC, queue>>

ForgetBinding ==
    /\ sbC.pc = "read" /\ sbC.new.phase = "deleting" /\ Exists(si)
    /\ si.type = "user-provided" \/ si.purge
    /\ ReturnB(sbC.new, FALSE, TRUE)
    /\ UNCHANGED <<si, sb, plan, broker, siC, queue, faults>>

Unbind ==
    /\ At(sbC, "read", "deleting", "managed") /\ Exists(si)
    /\ ~si.purge
    /\ \E reply \in Replies, s \in BrokerStates :
          /\ Call(DeleteReplies, broker.bind[sbC.b], reply, s)
          /\ broker' = [broker EXCEPT !.bind[sbC.b] = s]
          /\ \/ reply \in {"ok", "gone"} /\ ReturnB(sbC.new, FALSE, TRUE)
             \/ reply = "async" /\ sbC' = [sbC EXCEPT !.pc = "poll"]
             \/ reply \in {"error", "unrecoverable"} /\ NotReadyB(sbC.new, TRUE)
    /\ UNCHANGED <<si, sb, plan, siC, queue>>

PatchBinding ==
    /\ sbC.pc = "patch"
    /\ sb' = [sb EXCEPT ![sbC.b] =
                IF sbC.remove THEN [NoBinding EXCEPT !.phase = "gone"]
                ELSE [@ EXCEPT !.ready = sbC.new.ready, !.failed = sbC.new.failed,
                               !.env = sbC.new.env, !.mount = sbC.new.mount]]
    /\ sbC' = Idle
    /\ UNCHANGED <<si, plan, broker, siC, faults>>
    /\ Enqueue(queue \cup (IF sbC.requeue THEN {sbC.b} ELSE {}))

\* The controller manager restarts and lists every object again.
Crash ==
    /\ Fault
    /\ siC' = Idle /\ sbC' = Idle
    /\ UNCHANGED <<si, sb, plan, broker>>
    /\ Enqueue((IF Exists(si) THEN {Instance} ELSE {}) \cup Existing)

-----------------------------------------------------------------------------
Init ==
    /\ si = NoInstance
    /\ sb = [b \in Bindings |-> NoBinding]
    /\ plan = TRUE
    /\ broker = [inst |-> "none", bind |-> [b \in Bindings |-> "none"]]
    /\ siC = Idle /\ sbC = Idle
    /\ queue = {}
    /\ faults = 0

API ==
    \/ \E t \in Types : CreateInstance(t)
    \/ CreateInstanceSecret \/ AnnotatePurge \/ DeleteInstance
    \/ \E b \in Bindings, t \in {"app", "key"} : CreateBinding(b, t)
    \/ \E b \in Bindings : CreateBindingSecret(b) \/ DeleteBinding(b)
    \/ ShowPlan \/ HidePlan

InstanceController ==
    \/ ReadInstance \/ InstanceAssetsFail \/ SkipProvision \/ ProvisionInstance \/ PollInstance
    \/ ReconcileUserProvided \/ WaitForBindings \/ ForgetInstance
    \/ DeprovisionInstance \/ PatchInstance
BindingController ==
    \/ \E b \in Bindings : ReadBinding(b)
    \/ BindingWithoutInstance \/ BindingAssetsFail \/ SkipBind \/ Bind \/ PollBinding
    \/ BindUserProvided \/ ForgetBinding \/ Unbind \/ PatchBinding
Broker == BrokerInstance \/ \E b \in Bindings : BrokerBinding(b)

Next == API \/ InstanceController \/ BindingController \/ Broker \/ Crash

Spec == Init /\ [][Next]_vars

\* The controllers keep working, a work queue hands out what was put into it,
\* and the broker finishes what it has accepted.
Fairness ==
    /\ WF_vars(InstanceController)
    /\ WF_vars(BindingController)
    /\ \A b \in Bindings : SF_vars(ReadBinding(b))
    /\ WF_vars(BrokerInstance)
    /\ \A b \in Bindings : WF_vars(BrokerBinding(b))
FairSpec == Spec /\ Fairness

-----------------------------------------------------------------------------
(* Properties.                                                             *)

\* Objects, broker and queues keep their types; the last operation shows one
\* of the states of the API, whatever the broker calls its own.
TypeOK ==
    /\ si \in CFServiceInstance
    /\ sb \in [Bindings -> CFServiceBinding]
    /\ plan \in BOOLEAN
    /\ broker \in [inst : BrokerStates, bind : [Bindings -> BrokerStates]]
    /\ siC.pc \in {"idle", "read", "poll", "patch"}
    /\ sbC.pc \in {"idle", "read", "poll", "patch"}
    /\ queue \subseteq Bindings \cup {Instance}
    /\ faults \in 0..MaxFaults

\* Nothing is forgotten at the broker: an instance or binding object goes only
\* after the broker has let go of it, whatever was refused, lost or repeated,
\* unless the instance was purged (finalize, the two finalizers).
NoOrphans ==
    ~si.purge =>
        /\ si.phase = "gone" => broker.inst = "none"
        /\ \A b \in Bindings : sb[b].phase = "gone" => broker.bind[b] = "none"

\* No binding outlives its instance; its finalizer could not run any more
\* (EnsureNoServiceBindings; ADR 0014: the reconciler of the parent cleans up
\* the children).
NoBindingOutlivesInstance == si.phase = "gone" => Existing = {}

\* The broker is asked to deprovision an instance only when it has no binding
\* of it left, also none that korifi never got an answer about.
UnboundBeforeDeprovisioned ==
    [][broker.inst # broker'.inst /\ broker'.inst \in {"deleting", "none"} /\ ~si.purge
         => \A b \in Bindings : broker.bind[b] = "none"]_vars

\* What is reported as ready is there: a ready instance exists at the broker
\* and its last operation says so, and published credentials belong to a
\* binding the broker has.
ReadyIsProvisioned ==
    /\ si.phase = "live" /\ si.ready /\ si.type = "managed" =>
          broker.inst = "present" /\ si.lastOp = Operation("create", "succeeded")
    /\ \A b \in Bindings :
          sb[b].phase = "live" /\ sb[b].env /\ si.type = "managed" =>
             broker.bind[b] = "present"

\* Deletion ends, of instances in whatever state and of bindings, although
\* everything that can be refused or lost may be, a bounded number of times.
DeletionEnds ==
    <>[](si.phase # "deleting" /\ \A b \in Bindings : sb[b].phase # "deleting")

\* An instance with a visible plan and its secret becomes ready or fails, and
\* so does a binding to an instance the broker has, with all its secrets.
ServicesSettle ==
    <>[](/\ si.phase = "live" /\ si.params /\ plan => si.ready \/ si.failed
         /\ \A b \in Bindings :
              /\ sb[b].phase = "live"
              /\ IF si.type = "managed" THEN broker.inst = "present" /\ sb[b].params
                                        ELSE si.phase = "live" /\ si.params
              => \/ sb[b].failed
                 \/ /\ sb[b].ready /\ sb[b].env
                    /\ sb[b].type = "app" => sb[b].mount)
=============================================================================
