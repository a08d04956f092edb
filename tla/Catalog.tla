------------------------------- MODULE Catalog -------------------------------
(***************************************************************************)
(* A service broker, the offering and plans made of its catalog, who may   *)
(* see a plan, and the purge of an offering.                               *)
(*                                                                         *)
(* Every reconciliation of a CFServiceBroker fetches the catalog and       *)
(* creates or patches the offering and its plans one after the other, each *)
(* from a read that a request of the API may have overtaken.  Requests     *)
(* patch the visibility of plans the same way.  Purging an offering is a   *)
(* long sequence of deletions in one request, which may break off and be   *)
(* repeated.                                                               *)
(***************************************************************************)
EXTENDS Naturals

CONSTANTS
    Plans,          \* the plans the broker may advertise, all of one offering
    Orgs,           \* the organizations plans are shown to
    Instances,      \* the service instances users may create
    Other,          \* the plan of all instances that are not of this offering
    MaxName,        \* bound on how often the broker is renamed
    MaxFaults       \* bound on failures, restarts and deletions

ASSUME OtherAssumption == Other \notin Plans
ASSUME NameAssumption == MaxName \in Nat
ASSUME FaultsAssumption == MaxFaults \in Nat

VARIABLES
    broker,     \* the CFServiceBroker
    secret,     \* does its credentials secret exist?
    remote,     \* the plans in the catalog that the broker serves
    offering,   \* the CFServiceOffering
    plan,       \* the CFServicePlans
    inst,       \* the CFServiceInstances, each with at most one binding
    queued,     \* is the broker in the queue of its controller?
    ctl,        \* the worker of the broker controller
    req,        \* the request of the API that is being handled
    applied,    \* the plans of the catalog that was applied last
    faults

vars == <<broker, secret, remote, offering, plan, inst, queued, ctl, req, applied, faults>>

-----------------------------------------------------------------------------
(* State.                                                                  *)

\* Names are numbered in the order the broker is given them, so that a name
\* stands for the generation of the object, too.
Names == 0..MaxName
CFServiceBroker ==
    [phase : {"absent", "live", "gone"}, name : Names, ready : BOOLEAN, observed : Names]

\* brokerName is the label of the same name, which lists are filtered by.
CFServiceOffering == [exists : BOOLEAN, brokerName : Names]
CFServicePlan ==
    [exists : BOOLEAN, brokerName : Names,
     type : {"", "admin", "public", "organization"}, orgs : SUBSET Orgs]

\* finalizer is that of the instance; binding tells whether there is a
\* binding and whether it has its finalizer.
CFServiceInstance ==
    [phase : {"absent", "live", "gone"}, plan : Plans \cup {Other}, finalizer : BOOLEAN,
     binding : {"none", "bound", "released"}]

NoBroker == [phase |-> "absent", name |-> 0, ready |-> FALSE, observed |-> 0]
NoOffering == [exists |-> FALSE, brokerName |-> 0]
NoPlan == [exists |-> FALSE, brokerName |-> 0, type |-> "", orgs |-> {}]

Idle == [pc |-> "idle"]

Fault == faults < MaxFaults /\ faults' = faults + 1

\* A merge patch holds the fields that differ from what was read.
MergeFrom(read, modified) ==
    [f \in {g \in DOMAIN read : modified[g] # read[g]} |-> modified[f]]
Merge(current, patch) ==
    [f \in DOMAIN current |-> IF f \in DOMAIN patch THEN patch[f] ELSE current[f]]

-----------------------------------------------------------------------------
(* Requests about brokers.                                                 *)

CreateServiceBroker ==
    /\ broker.phase = "absent"
    /\ broker' = [broker EXCEPT !.phase = "live"]
    /\ queued' = TRUE
    /\ UNCHANGED <<secret, remote, offering, plan, inst, ctl, req, applied, faults>>

\* The secret follows in a second call, which may fail.
CreateCredentials ==
    /\ broker.phase = "live" /\ ~secret
    /\ secret' = TRUE
    /\ queued' = TRUE
    /\ UNCHANGED <<broker, remote, offering, plan, inst, ctl, req, applied, faults>>

RenameServiceBroker ==
    /\ broker.phase = "live" /\ broker.name < MaxName
    /\ broker' = [broker EXCEPT !.name = @ + 1]
    /\ queued' = TRUE
    /\ UNCHANGED <<secret, remote, offering, plan, inst, ctl, req, applied, faults>>

UpdateCredentials ==
    /\ broker.phase = "live" /\ secret
    /\ queued' = TRUE
    /\ UNCHANGED <<broker, secret, remote, offering, plan, inst, ctl, req, applied, faults>>

\* The broker has no finalizer and owns nothing but its secret: offerings and
\* plans stay.
DeleteServiceBroker ==
    /\ broker.phase = "live"
    /\ broker' = [NoBroker EXCEPT !.phase = "gone"]
    /\ secret' = FALSE
    /\ queued' = TRUE
    /\ UNCHANGED <<remote, offering, plan, inst, ctl, req, applied, faults>>

\* What the job of a creation or an update waits for.
GetState ==
    IF broker.observed = broker.name /\ broker.ready THEN "ready" ELSE "unknown"

\* The broker's own business.
ChangeCatalog ==
    /\ remote' \in SUBSET Plans
    /\ remote' # remote
    /\ UNCHANGED <<broker, secret, offering, plan, inst, queued, ctl, req, applied, faults>>

-----------------------------------------------------------------------------
(* The broker controller.                                                  *)

ReadBroker ==
    /\ queued /\ ctl = Idle
    /\ queued' = FALSE
    /\ ctl' = IF broker.phase = "live" THEN [pc |-> "read", name |-> broker.name] ELSE Idle
    /\ UNCHANGED <<broker, secret, remote, offering, plan, inst, req, applied, faults>>

\* The reconciliation ends; what it found out is patched into the status.
Return(ready, catalog) ==
    ctl' = [pc |-> "patch", name |-> ctl.name, ready |-> ready, catalog |-> catalog]
Failed == Return(FALSE, {})

\* No secret, no client or no catalog.
NoCatalog ==
    /\ ctl.pc = "read"
    /\ secret => Fault
    /\ ~secret => UNCHANGED faults
    /\ Failed
    /\ UNCHANGED <<broker, secret, remote, offering, plan, inst, queued, req, applied>>

GetCatalog ==
    /\ ctl.pc = "read" /\ secret
    /\ ctl' = [pc |-> "getOffering", name |-> ctl.name, catalog |-> remote]
    /\ UNCHANGED <<broker, secret, remote, offering, plan, inst, queued, req, applied, faults>>

\* CreateOrPatch reads an object, and creates it or patches what has changed.
\* What was deleted in between cannot be patched.
Lost(read, current, modified) == read.exists /\ ~current.exists /\ modified # read
CreateOrPatch(read, current, modified) ==
    CASE ~read.exists -> modified
      [] read.exists /\ current.exists -> Merge(current, MergeFrom(read, modified))
      [] OTHER -> current

\* The next plan, in any order, or the end.
NextPlan(todo) ==
    IF todo = {} THEN Return(TRUE, ctl.catalog)
    ELSE ctl' = [pc |-> "getPlan", name |-> ctl.name, catalog |-> ctl.catalog, todo |-> todo]

GetOffering ==
    /\ ctl.pc = "getOffering"
    /\ ctl' = [pc |-> "patchOffering", name |-> ctl.name, catalog |-> ctl.catalog,
               read |-> offering]
    /\ UNCHANGED <<broker, secret, remote, offering, plan, inst, queued, req, applied, faults>>

PatchOffering ==
    /\ ctl.pc = "patchOffering"
    /\ LET new == [exists |-> TRUE, brokerName |-> ctl.name] IN
       IF Lost(ctl.read, offering, new)
       THEN Failed /\ UNCHANGED offering
       ELSE NextPlan(ctl.catalog) /\ offering' = CreateOrPatch(ctl.read, offering, new)
    /\ UNCHANGED <<broker, secret, remote, plan, inst, queued, req, applied, faults>>

GetPlan(p) ==
    /\ ctl.pc = "getPlan" /\ p \in ctl.todo
    /\ ctl' = [pc |-> "patchPlan", name |-> ctl.name, catalog |-> ctl.catalog,
               todo |-> ctl.todo, p |-> p, read |-> plan[p]]
    /\ UNCHANGED <<broker, secret, remote, offering, plan, inst, queued, req, applied, faults>>

\* Mutant: the visibility is what the catalog says, nothing.
ModifiedPlanNoDefault(read, name) ==
    [exists |-> TRUE, brokerName |-> name, type |-> read.type, orgs |-> {}]
\* Mutant: plans are always reset to be for admins.
ModifiedPlanReset(read, name) ==
    [exists |-> TRUE, brokerName |-> name, type |-> "admin", orgs |-> {}]
\* Mutant: the labels of plans are set when they are created.
ModifiedPlanKeepsLabels(read, name) ==
    [exists |-> TRUE, brokerName |-> IF read.exists THEN read.brokerName ELSE name,
     type |-> IF read.type = "" THEN "admin" ELSE read.type, orgs |-> {}]

\* The type of the visibility is kept, the organizations are not.
ModifiedPlan(read, name) ==
    [exists |-> TRUE, brokerName |-> name,
     type |-> IF read.type = "" THEN "admin" ELSE read.type, orgs |-> {}]

PatchPlan ==
    /\ ctl.pc = "patchPlan"
    /\ LET new == ModifiedPlan(ctl.read, ctl.name) IN
       IF Lost(ctl.read, plan[ctl.p], new)
       THEN Failed /\ UNCHANGED plan
       ELSE /\ NextPlan(ctl.todo \ {ctl.p})
            /\ plan' = [plan EXCEPT ![ctl.p] = CreateOrPatch(ctl.read, @, new)]
    /\ UNCHANGED <<broker, secret, remote, offering, inst, queued, req, applied, faults>>

\* A call of the reconciliation fails.
ReconcileFails ==
    /\ ctl.pc \in {"getOffering", "patchOffering", "getPlan", "patchPlan"}
    /\ Fault
    /\ Failed
    /\ UNCHANGED <<broker, secret, remote, offering, plan, inst, queued, req, applied>>

\* Mutant: what has failed is not tried again.
RequeueNever(ready) == FALSE

\* An error, and a secret that is missing, put the broker back into the queue.
Requeue(ready) == ~ready

PatchBroker ==
    /\ ctl.pc = "patch"
    /\ broker' = IF broker.phase = "live"
                 THEN [broker EXCEPT !.ready = ctl.ready, !.observed = ctl.name]
                 ELSE broker
    /\ applied' = IF ctl.ready THEN ctl.catalog ELSE applied
    /\ queued' = (queued \/ Requeue(ctl.ready) \/ broker' # broker \/ broker.phase = "gone")
    /\ ctl' = Idle
    /\ UNCHANGED <<secret, remote, offering, plan, inst, req, faults>>

\* The controller restarts and lists the brokers.
Crash ==
    /\ Fault
    /\ ctl # Idle
    /\ ctl' = Idle
    /\ queued' = (broker.phase = "live")
    /\ UNCHANGED <<broker, secret, remote, offering, plan, inst, req, applied>>

-----------------------------------------------------------------------------
(* Requests about plans.                                                   *)

\* Organizations are given with the type that needs them, and no other.
Visibilities ==
    {v \in [type : {"admin", "public", "organization"}, orgs : SUBSET Orgs] :
        v.type = "organization" <=> v.orgs # {}}

ApplyVisibility(read, v) ==
    [read EXCEPT !.type = v.type,
                 !.orgs = IF v.type = "organization" THEN @ \cup v.orgs ELSE {}]
UpdateVisibility(read, v) == [read EXCEPT !.type = v.type, !.orgs = v.orgs]
DeleteVisibility(read, org) == [read EXCEPT !.orgs = @ \ {org}]

\* A request reads the plan and computes its patch.
ReadPlan(p) ==
    /\ req = Idle
    /\ plan[p].exists
    /\ \E new \in {ApplyVisibility(plan[p], v) : v \in Visibilities}
                    \cup {UpdateVisibility(plan[p], v) : v \in Visibilities}
                    \cup {DeleteVisibility(plan[p], org) : org \in Orgs} :
          /\ new # plan[p]
          /\ req' = [pc |-> "visibility", p |-> p, patch |-> MergeFrom(plan[p], new)]
    /\ UNCHANGED <<broker, secret, remote, offering, plan, inst, queued, ctl, applied, faults>>

PatchVisibility ==
    /\ req.pc = "visibility"
    /\ plan' = [plan EXCEPT ![req.p] = IF @.exists THEN Merge(@, req.patch) ELSE @]
    /\ req' = Idle
    /\ UNCHANGED <<broker, secret, remote, offering, inst, queued, ctl, applied, faults>>

DeletePlan(p) ==
    /\ plan[p].exists
    /\ Fault
    /\ plan' = [plan EXCEPT ![p] = NoPlan]
    /\ UNCHANGED <<broker, secret, remote, offering, inst, queued, ctl, req, applied>>

\* Visible to a space in one of the organizations, if not to all.
ServicePlanVisible(p) ==
    \/ plan[p].type = "public"
    \/ plan[p].type = "organization" /\ plan[p].orgs # {}

\* Instances of this offering need a visible plan; others have nothing to do
\* with it.
CreateInstance(i, p) ==
    /\ inst[i].phase = "absent"
    /\ p \in Plans => ServicePlanVisible(p)
    /\ \E b \in {"none", "bound"} :
          inst' = [inst EXCEPT ![i] = [phase |-> "live", plan |-> p, finalizer |-> TRUE,
                                       binding |-> b]]
    /\ UNCHANGED <<broker, secret, remote, offering, plan, queued, ctl, req, applied, faults>>

-----------------------------------------------------------------------------
(* Deletion of the offering.                                               *)

DeleteOffering ==
    /\ offering.exists
    /\ Fault
    /\ offering' = NoOffering
    /\ UNCHANGED <<broker, secret, remote, plan, inst, queued, ctl, req, applied>>

\* DeleteOffering with purge: the plans are listed,
ListServicePlans ==
    /\ req = Idle
    /\ offering.exists
    /\ Fault
    /\ LET guids == {p \in Plans : plan[p].exists} IN
       req' = [pc |-> "plans", guids |-> guids, todo |-> guids]
    /\ UNCHANGED <<broker, secret, remote, offering, plan, inst, queued, ctl, applied>>

\* deleted one by one (one that is gone already ends the request),
DeleteServicePlan(p) ==
    /\ req.pc = "plans" /\ p \in req.todo
    /\ plan' = [plan EXCEPT ![p] = NoPlan]
    /\ req' = IF plan[p].exists THEN [req EXCEPT !.todo = @ \ {p}] ELSE Idle
    /\ UNCHANGED <<broker, secret, remote, offering, inst, queued, ctl, applied, faults>>

\* and the instances of those plans looked up.  A list of no plans is no
\* condition at all.
LabelIn(guids) ==
    {i \in Instances : inst[i].phase = "live" /\ (guids = {} \/ inst[i].plan \in guids)}

FetchServiceInstances ==
    /\ req.pc = "plans" /\ req.todo = {}
    /\ LET is == LabelIn(req.guids) IN
       req' = [pc |-> "instances", todo |-> is,
               bindings |-> {i \in is : inst[i].binding # "none"}]
    /\ UNCHANGED <<broker, secret, remote, offering, plan, inst, queued, ctl, applied, faults>>

\* First all bindings lose their finalizer, then each instance loses it and
\* is deleted, at last the offering.
ReleaseBinding(i) ==
    /\ req.pc = "instances" /\ i \in req.bindings
    /\ inst' = [inst EXCEPT ![i].binding = "released"]
    /\ req' = [req EXCEPT !.bindings = @ \ {i}]
    /\ UNCHANGED <<broker, secret, remote, offering, plan, queued, ctl, applied, faults>>

ReleaseInstance(i) ==
    /\ req.pc = "instances" /\ req.bindings = {} /\ i \in req.todo
    /\ inst[i].finalizer
    /\ inst' = [inst EXCEPT ![i].finalizer = FALSE]
    /\ UNCHANGED <<broker, secret, remote, offering, plan, queued, ctl, req, applied, faults>>

DeleteReleased(i) ==
    /\ req.pc = "instances" /\ req.bindings = {} /\ i \in req.todo
    /\ ~inst[i].finalizer
    /\ inst' = [inst EXCEPT ![i].phase = "gone"]
    /\ req' = [req EXCEPT !.todo = @ \ {i}]
    /\ UNCHANGED <<broker, secret, remote, offering, plan, queued, ctl, applied, faults>>

PurgeOffering ==
    /\ req.pc = "instances" /\ req.bindings = {} /\ req.todo = {}
    /\ offering' = NoOffering
    /\ req' = Idle
    /\ UNCHANGED <<broker, secret, remote, plan, inst, queued, ctl, applied, faults>>

\* The request breaks off: a call fails, or the API server restarts.
RequestFails ==
    /\ req # Idle
    /\ Fault
    /\ req' = Idle
    /\ UNCHANGED <<broker, secret, remote, offering, plan, inst, queued, ctl, applied>>

-----------------------------------------------------------------------------
Init ==
    /\ broker = NoBroker
    /\ secret = FALSE
    /\ remote \in SUBSET Plans
    /\ offering = NoOffering
    /\ plan = [p \in Plans |-> NoPlan]
    /\ inst = [i \in Instances |->
                 [phase |-> "absent", plan |-> Other, finalizer |-> FALSE, binding |-> "none"]]
    /\ queued = FALSE
    /\ ctl = Idle /\ req = Idle
    /\ applied = {}
    /\ faults = 0

API ==
    \/ CreateServiceBroker \/ CreateCredentials \/ RenameServiceBroker
    \/ UpdateCredentials \/ DeleteServiceBroker
    \/ \E p \in Plans : ReadPlan(p) \/ DeletePlan(p)
    \/ PatchVisibility
    \/ \E i \in Instances, p \in Plans \cup {Other} : CreateInstance(i, p)
    \/ DeleteOffering \/ RequestFails

Purge ==
    \/ ListServicePlans \/ FetchServiceInstances \/ PurgeOffering
    \/ \E p \in Plans : DeleteServicePlan(p)
    \/ \E i \in Instances : ReleaseBinding(i) \/ ReleaseInstance(i) \/ DeleteReleased(i)

BrokerController ==
    \/ ReadBroker \/ NoCatalog \/ GetCatalog \/ GetOffering \/ PatchOffering
    \/ \E p \in Plans : GetPlan(p)
    \/ PatchPlan \/ ReconcileFails \/ PatchBroker

Next == API \/ Purge \/ BrokerController \/ ChangeCatalog \/ Crash

Spec == Init /\ [][Next]_vars

\* The controller keeps working off its queue.
FairSpec == Spec /\ WF_vars(BrokerController)

-----------------------------------------------------------------------------
(* Properties.                                                             *)

\* Broker, catalog and instances keep their types, and a plan that exists has
\* a visibility the API knows (reconcileCatalogPlan).
TypeOK ==
    /\ broker \in CFServiceBroker
    /\ secret \in BOOLEAN /\ queued \in BOOLEAN
    /\ remote \subseteq Plans /\ applied \subseteq Plans
    /\ offering \in CFServiceOffering
    /\ plan \in [Plans -> CFServicePlan]
    /\ \A p \in Plans : plan[p].exists <=> plan[p].type # ""
    /\ inst \in [Instances -> CFServiceInstance]
    /\ ctl.pc \in {"idle", "read", "getOffering", "patchOffering", "getPlan", "patchPlan",
                   "patch"}
    /\ req.pc \in {"idle", "visibility", "plans", "instances"}
    /\ faults \in 0..MaxFaults

\* The type of visibility that an administrator has given a plan lasts until
\* the next request changes it or the plan is deleted: no reconciliation takes
\* it back, also not one that had read the plan before the request
\* (reconcileCatalogPlan; "keeps the updated value" in its test).
VisibilityTypeKept ==
    [][\A p \in Plans :
         plan[p].exists /\ plan'[p].exists /\ plan'[p].type # plan[p].type
         => req.pc = "visibility" /\ req.p = p /\ req' = Idle]_vars

\* When the API reports the creation or the update of a broker as complete,
\* offering and plans carry the name the broker has now, whatever was deleted,
\* renamed, failed or restarted meanwhile (GetState, reconcileCatalog).  Plans
\* that the catalog no longer has are left as they are.
ReadyMeansApplied ==
    broker.phase = "live" /\ GetState = "ready" =>
        /\ offering.exists => offering.brokerName = broker.name
        /\ \A p \in applied : plan[p].exists => plan[p].brokerName = broker.name

\* A broker with its secret becomes ready and stays it, when failures and
\* deletions have come to an end (the errors ReconcileResource returns, the
\* watch on secrets).
CatalogSettles ==
    <>[](broker.phase = "live" /\ secret => GetState = "ready")

\* Purging an offering deletes "the offering and all related resources", and
\* no instance of another plan (purgeRelatedResources).
PurgeSparesOthers ==
    \A i \in Instances : inst[i].plan = Other /\ inst[i].phase # "absent" =>
        inst[i].phase = "live" /\ inst[i].finalizer
=============================================================================
