---------------------------- MODULE CatalogProofs ----------------------------
(***************************************************************************)
(* Proofs about Catalog, for every set of plans, organizations and         *)
(* instances, however often the broker is renamed and however much fails.  *)
(***************************************************************************)
EXTENDS Catalog, TLAPS

(***************************************************************************)
(* The types of the two workers.  What they carry depends on the step they *)
(* are at.                                                                 *)
(***************************************************************************)
CtlType ==
    /\ ctl.pc = "idle" => ctl = Idle
    /\ ctl.pc = "read" => ctl \in [pc : {"read"}, name : Names]
    /\ ctl.pc = "getOffering" =>
         ctl \in [pc : {"getOffering"}, name : Names, catalog : SUBSET Plans]
    /\ ctl.pc = "patchOffering" =>
         ctl \in [pc : {"patchOffering"}, name : Names, catalog : SUBSET Plans,
                  read : CFServiceOffering]
    /\ ctl.pc = "getPlan" =>
         ctl \in [pc : {"getPlan"}, name : Names, catalog : SUBSET Plans, todo : SUBSET Plans]
    /\ ctl.pc = "patchPlan" =>
         ctl \in [pc : {"patchPlan"}, name : Names, catalog : SUBSET Plans,
                  todo : SUBSET Plans, p : Plans, read : CFServicePlan]
    /\ ctl.pc = "patch" =>
         ctl \in [pc : {"patch"}, name : Names, ready : BOOLEAN, catalog : SUBSET Plans]

\* The patch of a visibility never touches existence or labels of the plan.
VisibilityPatch(patch) ==
    /\ DOMAIN patch \subseteq {"type", "orgs"}
    /\ "type" \in DOMAIN patch => patch["type"] \in {"admin", "public", "organization"}
    /\ "orgs" \in DOMAIN patch => patch["orgs"] \in SUBSET Orgs

ReqType ==
    /\ req.pc = "idle" => req = Idle
    /\ req.pc = "visibility" =>
         /\ req = [pc |-> "visibility", p |-> req.p, patch |-> req.patch]
         /\ req.p \in Plans
         /\ VisibilityPatch(req.patch)
    /\ req.pc = "plans" => req \in [pc : {"plans"}, guids : SUBSET Plans, todo : SUBSET Plans]
    /\ req.pc = "instances" =>
         req \in [pc : {"instances"}, todo : SUBSET Instances, bindings : SUBSET Instances]

\* What the controller read of a plan: a type exactly if the plan exists, and
\* what it has read as missing is still missing, as nobody else creates plans.
\* The name of the broker is in the labels that were read.
PlanRead ==
    ctl.pc = "patchPlan" =>
        /\ ctl.p \in ctl.todo
        /\ ctl.read.exists <=> ctl.read.type # ""
        /\ plan[ctl.p].exists =>
              ctl.read.exists /\ plan[ctl.p].brokerName = ctl.read.brokerName

TypeInv == TypeOK /\ CtlType /\ ReqType /\ PlanRead

-----------------------------------------------------------------------------
(* Merge patches.                                                          *)

\* Merging the patch of an offering into the stored one gives an offering,
\* field by field what was modified or what is stored.
LEMMA MergeOffering ==
    ASSUME NEW read \in CFServiceOffering, NEW current \in CFServiceOffering,
           NEW modified \in CFServiceOffering,
           NEW m, m = Merge(current, MergeFrom(read, modified))
    PROVE  /\ m \in CFServiceOffering
           /\ m.exists = IF modified.exists = read.exists THEN current.exists
                         ELSE modified.exists
           /\ m.brokerName = IF modified.brokerName = read.brokerName
                             THEN current.brokerName ELSE modified.brokerName
BY DEF Merge, MergeFrom, CFServiceOffering

\* The same for a plan.
LEMMA MergePlan ==
    ASSUME NEW read \in CFServicePlan, NEW current \in CFServicePlan,
           NEW modified \in CFServicePlan,
           NEW m, m = Merge(current, MergeFrom(read, modified))
    PROVE  /\ m \in CFServicePlan
           /\ m.exists = IF modified.exists = read.exists THEN current.exists
                         ELSE modified.exists
           /\ m.brokerName = IF modified.brokerName = read.brokerName
                             THEN current.brokerName ELSE modified.brokerName
           /\ m.type = IF modified.type = read.type THEN current.type ELSE modified.type
BY DEF Merge, MergeFrom, CFServicePlan

\* The patch of a request leaves all but the visibility alone.
LEMMA MergeVisibility ==
    ASSUME NEW current \in CFServicePlan, NEW patch, VisibilityPatch(patch),
           NEW m, m = Merge(current, patch)
    PROVE  /\ m \in CFServicePlan
           /\ m.exists = current.exists
           /\ m.brokerName = current.brokerName
           /\ m.type = IF "type" \in DOMAIN patch THEN patch["type"] ELSE current.type
           /\ current.type # "" => m.type # ""
BY DEF Merge, VisibilityPatch, CFServicePlan

\* The three requests about the visibility of a plan compute such a patch.
LEMMA RequestPatch ==
    ASSUME NEW read \in CFServicePlan,
           NEW new \in {ApplyVisibility(read, v) : v \in Visibilities}
                         \cup {UpdateVisibility(read, v) : v \in Visibilities}
                         \cup {DeleteVisibility(read, org) : org \in Orgs}
    PROVE  VisibilityPatch(MergeFrom(read, new))
<1>1. /\ new \in CFServicePlan
      /\ new.exists = read.exists /\ new.brokerName = read.brokerName
      /\ new.type = read.type \/ new.type \in {"admin", "public", "organization"}
  <2>1. CASE \E v \in Visibilities : new = ApplyVisibility(read, v)
    <3>1. PICK v \in Visibilities : new = ApplyVisibility(read, v)
      BY <2>1
    <3>2. v.type \in {"admin", "public", "organization"} /\ v.orgs \in SUBSET Orgs
      BY DEF Visibilities
    <3> QED
      BY <3>1, <3>2 DEF ApplyVisibility, CFServicePlan
  <2>2. CASE \E v \in Visibilities : new = UpdateVisibility(read, v)
    <3>1. PICK v \in Visibilities : new = UpdateVisibility(read, v)
      BY <2>2
    <3>2. v.type \in {"admin", "public", "organization"} /\ v.orgs \in SUBSET Orgs
      BY DEF Visibilities
    <3> QED
      BY <3>1, <3>2 DEF UpdateVisibility, CFServicePlan
  <2>3. CASE \E org \in Orgs : new = DeleteVisibility(read, org)
    BY <2>3 DEF DeleteVisibility, CFServicePlan
  <2> QED
    BY <2>1, <2>2, <2>3
<1> QED
  BY <1>1 DEF VisibilityPatch, MergeFrom, CFServicePlan

-----------------------------------------------------------------------------
(* Types.                                                                  *)

\* What a reconciliation makes of a plan: it exists with the name of the
\* broker, and the type of its visibility is the stored one, if it has any.
LEMMA PlanPatched ==
    ASSUME TypeInv, ctl.pc = "patchPlan",
           NEW m, m = CreateOrPatch(ctl.read, plan[ctl.p], ModifiedPlan(ctl.read, ctl.name))
    PROVE  /\ m \in CFServicePlan
           /\ m.exists <=> m.type # ""
           /\ m.exists => m.brokerName = ctl.name
           /\ plan[ctl.p].exists => m.type = plan[ctl.p].type
<1> DEFINE new == ModifiedPlan(ctl.read, ctl.name)
<1>1. /\ ctl.name \in Names /\ ctl.p \in Plans /\ ctl.read \in CFServicePlan
      /\ plan[ctl.p] \in CFServicePlan
      /\ plan[ctl.p].exists <=> plan[ctl.p].type # ""
  BY DEF TypeInv, TypeOK, CtlType
<1>2. /\ new \in CFServicePlan /\ new.exists /\ new.brokerName = ctl.name
      /\ new.type = IF ctl.read.type = "" THEN "admin" ELSE ctl.read.type
  BY <1>1 DEF ModifiedPlan, CFServicePlan
<1>3. CASE ~ctl.read.exists
  BY <1>1, <1>2, <1>3 DEF CreateOrPatch, TypeInv, PlanRead
<1>4. CASE ctl.read.exists /\ plan[ctl.p].exists
  <2>1. m = Merge(plan[ctl.p], MergeFrom(ctl.read, new))
    BY <1>4 DEF CreateOrPatch
  <2> HIDE DEF new
  <2>2. /\ m \in CFServicePlan
        /\ m.exists = IF new.exists = ctl.read.exists THEN plan[ctl.p].exists ELSE new.exists
        /\ m.brokerName = IF new.brokerName = ctl.read.brokerName
                          THEN plan[ctl.p].brokerName ELSE new.brokerName
        /\ m.type = IF new.type = ctl.read.type THEN plan[ctl.p].type ELSE new.type
    BY <1>1, <1>2, <2>1 DEF Merge, MergeFrom, CFServicePlan
  <2> QED
    BY <1>1, <1>2, <1>4, <2>2 DEF TypeInv, PlanRead
<1>5. CASE ctl.read.exists /\ ~plan[ctl.p].exists
  BY <1>1, <1>5 DEF CreateOrPatch
<1> QED
  BY <1>3, <1>4, <1>5

\* The same for the offering.
LEMMA OfferingPatched ==
    ASSUME TypeInv, ctl.pc = "patchOffering",
           NEW m, m = CreateOrPatch(ctl.read, offering, [exists |-> TRUE, brokerName |-> ctl.name])
    PROVE  /\ m \in CFServiceOffering
           /\ m.exists /\ (offering.exists => offering = ctl.read) => m.brokerName = ctl.name
<1> DEFINE new == [exists |-> TRUE, brokerName |-> ctl.name]
<1>1. /\ ctl.read \in CFServiceOffering /\ offering \in CFServiceOffering
      /\ ctl.name \in Names
  BY DEF TypeInv, TypeOK, CtlType
<1>2. new \in CFServiceOffering /\ new.exists /\ new.brokerName = ctl.name
  BY <1>1 DEF CFServiceOffering
<1>3. CASE ~ctl.read.exists
  <2>1. m = new
    BY <1>1, <1>3 DEF CreateOrPatch
  <2> QED
    BY <1>2, <2>1
<1>4. CASE ctl.read.exists /\ offering.exists
  <2>1. m = Merge(offering, MergeFrom(ctl.read, new))
    BY <1>4 DEF CreateOrPatch
  <2> HIDE DEF new
  <2> QED
    BY <1>1, <1>2, <1>4, <2>1, MergeOffering
<1>5. CASE ctl.read.exists /\ ~offering.exists
  BY <1>1, <1>5 DEF CreateOrPatch
<1> QED
  BY <1>3, <1>4, <1>5

\* The initial state is well typed.
LEMMA InitType == Init => TypeInv
<1> SUFFICES ASSUME Init PROVE TypeInv
  OBVIOUS
<1>1. broker \in CFServiceBroker
  BY NameAssumption DEF Init, NoBroker, CFServiceBroker, Names
<1>2. offering \in CFServiceOffering
  BY NameAssumption DEF Init, NoOffering, CFServiceOffering, Names
<1>3. /\ plan \in [Plans -> CFServicePlan]
      /\ \A p \in Plans : plan[p].exists <=> plan[p].type # ""
  <2>1. NoPlan \in CFServicePlan /\ ~NoPlan.exists /\ NoPlan.type = ""
    BY NameAssumption DEF NoPlan, CFServicePlan, Names
  <2> QED
    BY <2>1 DEF Init
<1>4. inst \in [Instances -> CFServiceInstance]
  BY DEF Init, CFServiceInstance
<1>5. ctl = Idle /\ req = Idle /\ ctl.pc = "idle" /\ req.pc = "idle"
  BY DEF Init, Idle
<1>6. faults \in 0..MaxFaults
  BY FaultsAssumption DEF Init
<1>7. secret \in BOOLEAN /\ queued \in BOOLEAN /\ remote \subseteq Plans /\ applied \subseteq Plans
  BY DEF Init
<1>8. TypeOK
  BY <1>1, <1>2, <1>3, <1>4, <1>5, <1>6, <1>7 DEF TypeOK
<1> QED
  BY <1>5, <1>8 DEF TypeInv, CtlType, ReqType, PlanRead

\* The requests about brokers keep the types.
LEMMA BrokerRequestsType ==
    ASSUME TypeInv,
           \/ CreateServiceBroker \/ CreateCredentials \/ RenameServiceBroker
           \/ UpdateCredentials \/ DeleteServiceBroker \/ ChangeCatalog
    PROVE  TypeInv'
<1>1. broker' \in CFServiceBroker
  <2>1. broker \in CFServiceBroker
    BY DEF TypeInv, TypeOK
  <2>2. CASE CreateServiceBroker
    BY <2>1, <2>2 DEF CreateServiceBroker, CFServiceBroker
  <2>3. CASE RenameServiceBroker
    BY <2>1, <2>3, NameAssumption DEF RenameServiceBroker, CFServiceBroker, Names
  <2>4. CASE DeleteServiceBroker
    <3>1. NoBroker \in CFServiceBroker
      BY NameAssumption DEF NoBroker, CFServiceBroker, Names
    <3> QED
      BY <2>4, <3>1 DEF DeleteServiceBroker, CFServiceBroker
  <2>5. CASE CreateCredentials \/ UpdateCredentials \/ ChangeCatalog
    BY <2>1, <2>5 DEF CreateCredentials, UpdateCredentials, ChangeCatalog
  <2> QED
    BY <2>2, <2>3, <2>4, <2>5
<1>2. remote' \subseteq Plans /\ secret' \in BOOLEAN /\ queued' \in BOOLEAN
  BY DEF TypeInv, TypeOK, CreateServiceBroker, CreateCredentials, RenameServiceBroker,
         UpdateCredentials, DeleteServiceBroker, ChangeCatalog
<1>3. UNCHANGED <<offering, plan, inst, ctl, req, applied, faults>>
  BY DEF CreateServiceBroker, CreateCredentials, RenameServiceBroker,
         UpdateCredentials, DeleteServiceBroker, ChangeCatalog
<1> QED
  BY <1>1, <1>2, <1>3 DEF TypeInv, TypeOK, CtlType, ReqType, PlanRead

\* Failures are counted within their bound.
LEMMA FaultType ==
    ASSUME TypeOK, Fault \/ faults' = faults
    PROVE  faults' \in 0..MaxFaults
<1>1. faults \in 0..MaxFaults
  BY DEF TypeOK
<1> QED
  BY <1>1, FaultsAssumption DEF Fault

\* Where the controller may go from a patch: on to the next plan, to the
\* status, or to rest.
LEMMA CtlAfter ==
    ASSUME NEW n \in Names, NEW c \in SUBSET Plans, NEW t \in SUBSET Plans,
           \/ ctl' = Idle
           \/ ctl' = [pc |-> "read", name |-> n]
           \/ ctl' = [pc |-> "patch", name |-> n, ready |-> FALSE, catalog |-> {}]
           \/ ctl' = [pc |-> "patch", name |-> n, ready |-> TRUE, catalog |-> c]
           \/ ctl' = [pc |-> "getPlan", name |-> n, catalog |-> c, todo |-> t]
    PROVE  CtlType' /\ PlanRead' /\ ctl'.pc \in {"idle", "read", "patch", "getPlan"}
<1>1. CASE ctl' = Idle
  BY <1>1 DEF CtlType, PlanRead, Idle
<1>2. CASE ctl' = [pc |-> "read", name |-> n]
  BY <1>2 DEF CtlType, PlanRead
<1>3. CASE ctl' = [pc |-> "patch", name |-> n, ready |-> FALSE, catalog |-> {}]
  BY <1>3 DEF CtlType, PlanRead
<1>4. CASE ctl' = [pc |-> "patch", name |-> n, ready |-> TRUE, catalog |-> c]
  BY <1>4 DEF CtlType, PlanRead
<1>5. CASE ctl' = [pc |-> "getPlan", name |-> n, catalog |-> c, todo |-> t]
  BY <1>5 DEF CtlType, PlanRead
<1> QED
  BY <1>1, <1>2, <1>3, <1>4, <1>5

\* The steps of the controller keep the types.
LEMMA ControllerType ==
    ASSUME TypeInv, BrokerController \/ Crash
    PROVE  TypeInv'
<1> USE NameAssumption DEF TypeInv
<1>1. CASE ReadBroker
  <2>1. ctl' = Idle \/ ctl' = [pc |-> "read", name |-> broker.name]
    BY <1>1 DEF ReadBroker
  <2>2. broker.name \in Names /\ queued' \in BOOLEAN
    BY <1>1 DEF ReadBroker, TypeOK, CFServiceBroker
  <2>3. UNCHANGED <<broker, secret, remote, offering, plan, inst, req, applied, faults>>
    BY <1>1 DEF ReadBroker
  <2>4. CtlType' /\ PlanRead' /\ ctl'.pc \in {"idle", "read", "patch", "getPlan"}
    BY <2>1, <2>2, CtlAfter
  <2> QED
    BY <2>2, <2>3, <2>4 DEF TypeOK, ReqType
<1>2. CASE NoCatalog
  <2>1. ctl' = [pc |-> "patch", name |-> ctl.name, ready |-> FALSE, catalog |-> {}]
    BY <1>2 DEF NoCatalog, Failed, Return
  <2>2. ctl.name \in Names /\ faults' \in 0..MaxFaults
    <3>1. ctl.name \in Names
      BY <1>2 DEF NoCatalog, CtlType
    <3>2. secret => Fault
      BY <1>2 DEF NoCatalog
    <3>3. ~secret => faults' = faults
      BY <1>2 DEF NoCatalog
    <3> QED
      BY <3>1, <3>2, <3>3, FaultType
  <2>3. UNCHANGED <<broker, secret, remote, offering, plan, inst, queued, req, applied>>
    BY <1>2 DEF NoCatalog
  <2> QED
    BY <2>1, <2>2, <2>3 DEF TypeOK, CtlType, ReqType, PlanRead
<1>3. CASE GetCatalog
  <2>1. ctl' = [pc |-> "getOffering", name |-> ctl.name, catalog |-> remote]
    BY <1>3 DEF GetCatalog
  <2>2. ctl.name \in Names /\ remote \subseteq Plans
    BY <1>3 DEF GetCatalog, TypeOK, CtlType
  <2>3. UNCHANGED <<broker, secret, remote, offering, plan, inst, queued, req, applied, faults>>
    BY <1>3 DEF GetCatalog
  <2> QED
    BY <2>1, <2>2, <2>3 DEF TypeOK, CtlType, ReqType, PlanRead
<1>4. CASE GetOffering
  <2>1. ctl' = [pc |-> "patchOffering", name |-> ctl.name, catalog |-> ctl.catalog,
                read |-> offering]
    BY <1>4 DEF GetOffering
  <2>2. ctl.name \in Names /\ ctl.catalog \subseteq Plans /\ offering \in CFServiceOffering
    BY <1>4 DEF GetOffering, TypeOK, CtlType
  <2>3. UNCHANGED <<broker, secret, remote, offering, plan, inst, queued, req, applied, faults>>
    BY <1>4 DEF GetOffering
  <2> QED
    BY <2>1, <2>2, <2>3 DEF TypeOK, CtlType, ReqType, PlanRead
<1>5. CASE PatchOffering
  <2>1. ctl.pc = "patchOffering" /\ ctl.name \in Names /\ ctl.catalog \subseteq Plans
    BY <1>5 DEF PatchOffering, TypeOK, CtlType
  <2>2. \/ ctl' = [pc |-> "patch", name |-> ctl.name, ready |-> FALSE, catalog |-> {}]
        \/ ctl' = [pc |-> "patch", name |-> ctl.name, ready |-> TRUE, catalog |-> ctl.catalog]
        \/ ctl' = [pc |-> "getPlan", name |-> ctl.name, catalog |-> ctl.catalog,
                   todo |-> ctl.catalog]
    BY <1>5 DEF PatchOffering, Failed, Return, NextPlan
  <2>3. offering' \in CFServiceOffering
    BY <1>5, <2>1, OfferingPatched DEF PatchOffering, TypeOK
  <2>4. UNCHANGED <<broker, secret, remote, plan, inst, queued, req, applied, faults>>
    BY <1>5 DEF PatchOffering
  <2>5. CtlType' /\ PlanRead' /\ ctl'.pc \in {"idle", "read", "patch", "getPlan"}
    BY <2>1, <2>2, CtlAfter
  <2> QED
    BY <2>3, <2>4, <2>5 DEF TypeOK, ReqType
<1>6. CASE \E p \in Plans : GetPlan(p)
  <2>1. PICK p \in Plans : GetPlan(p)
    BY <1>6
  <2>2. ctl' = [pc |-> "patchPlan", name |-> ctl.name, catalog |-> ctl.catalog,
                todo |-> ctl.todo, p |-> p, read |-> plan[p]]
    BY <2>1 DEF GetPlan
  <2>3. /\ ctl.name \in Names /\ ctl.catalog \subseteq Plans /\ ctl.todo \subseteq Plans
        /\ p \in ctl.todo
        /\ plan[p] \in CFServicePlan
        /\ plan[p].exists <=> plan[p].type # ""
    BY <2>1 DEF GetPlan, TypeOK, CtlType
  <2>4. UNCHANGED <<broker, secret, remote, offering, plan, inst, queued, req, applied, faults>>
    BY <2>1 DEF GetPlan
  <2> QED
    BY <2>2, <2>3, <2>4 DEF TypeOK, CtlType, ReqType, PlanRead
<1>7. CASE PatchPlan
  <2>1. /\ ctl.pc = "patchPlan" /\ ctl.name \in Names /\ ctl.catalog \subseteq Plans
        /\ ctl.todo \subseteq Plans /\ ctl.p \in Plans
    BY <1>7 DEF PatchPlan, TypeOK, CtlType
  <2>2. \/ ctl' = [pc |-> "patch", name |-> ctl.name, ready |-> FALSE, catalog |-> {}]
        \/ ctl' = [pc |-> "patch", name |-> ctl.name, ready |-> TRUE, catalog |-> ctl.catalog]
        \/ ctl' = [pc |-> "getPlan", name |-> ctl.name, catalog |-> ctl.catalog,
                   todo |-> ctl.todo \ {ctl.p}]
    BY <1>7 DEF PatchPlan, Failed, Return, NextPlan
  <2>3. /\ plan' \in [Plans -> CFServicePlan]
        /\ \A p \in Plans : plan'[p].exists <=> plan'[p].type # ""
    <3> DEFINE m == CreateOrPatch(ctl.read, plan[ctl.p], ModifiedPlan(ctl.read, ctl.name))
    <3>1. plan' = plan \/ plan' = [plan EXCEPT ![ctl.p] = m]
      BY <1>7 DEF PatchPlan
    <3>2. m \in CFServicePlan /\ (m.exists <=> m.type # "")
      BY <2>1, PlanPatched
    <3> QED
      BY <2>1, <3>1, <3>2 DEF TypeOK
  <2>4. UNCHANGED <<broker, secret, remote, offering, inst, queued, req, applied, faults>>
    BY <1>7 DEF PatchPlan
  <2>5. CtlType' /\ PlanRead' /\ ctl'.pc \in {"idle", "read", "patch", "getPlan"}
    BY <2>1, <2>2, CtlAfter
  <2> QED
    BY <2>3, <2>4, <2>5 DEF TypeOK, ReqType
<1>8. CASE ReconcileFails
  <2>1. ctl' = [pc |-> "patch", name |-> ctl.name, ready |-> FALSE, catalog |-> {}]
    BY <1>8 DEF ReconcileFails, Failed, Return
  <2>2. ctl.name \in Names /\ faults' \in 0..MaxFaults
    BY <1>8, FaultType DEF ReconcileFails, CtlType
  <2>3. UNCHANGED <<broker, secret, remote, offering, plan, inst, queued, req, applied>>
    BY <1>8 DEF ReconcileFails
  <2> QED
    BY <2>1, <2>2, <2>3 DEF TypeOK, CtlType, ReqType, PlanRead
<1>9. CASE PatchBroker
  <2>1. ctl \in [pc : {"patch"}, name : Names, ready : BOOLEAN, catalog : SUBSET Plans]
    BY <1>9 DEF PatchBroker, CtlType
  <2>2. broker' \in CFServiceBroker
    BY <1>9, <2>1 DEF PatchBroker, TypeOK, CFServiceBroker
  <2>3. applied' \subseteq Plans /\ queued' \in BOOLEAN
    BY <1>9, <2>1 DEF PatchBroker, TypeOK
  <2>4. ctl' = Idle /\ UNCHANGED <<secret, remote, offering, plan, inst, req, faults>>
    BY <1>9 DEF PatchBroker
  <2> QED
    BY <2>2, <2>3, <2>4 DEF TypeOK, CtlType, ReqType, PlanRead, Idle
<1>10. CASE Crash
  <2>1. faults' \in 0..MaxFaults /\ queued' \in BOOLEAN
    BY <1>10, FaultType DEF Crash
  <2>2. ctl' = Idle /\ UNCHANGED <<broker, secret, remote, offering, plan, inst, req, applied>>
    BY <1>10 DEF Crash
  <2> QED
    BY <2>1, <2>2 DEF TypeOK, CtlType, ReqType, PlanRead, Idle
<1> QED
  BY <1>1, <1>2, <1>3, <1>4, <1>5, <1>6, <1>7, <1>8, <1>9, <1>10 DEF BrokerController

\* The requests about plans and offerings keep the types.
LEMMA PlanRequestsType ==
    ASSUME TypeInv,
           \/ \E p \in Plans : ReadPlan(p) \/ DeletePlan(p)
           \/ PatchVisibility
           \/ \E i \in Instances, p \in Plans \cup {Other} : CreateInstance(i, p)
           \/ DeleteOffering \/ RequestFails
    PROVE  TypeInv'
<1> USE DEF TypeInv
<1>1. CASE \E p \in Plans : ReadPlan(p)
  <2>1. PICK p \in Plans : ReadPlan(p)
    BY <1>1
  <2>2. PICK new \in {ApplyVisibility(plan[p], v) : v \in Visibilities}
                       \cup {UpdateVisibility(plan[p], v) : v \in Visibilities}
                       \cup {DeleteVisibility(plan[p], org) : org \in Orgs} :
            req' = [pc |-> "visibility", p |-> p, patch |-> MergeFrom(plan[p], new)]
    BY <2>1 DEF ReadPlan
  <2>3. plan[p] \in CFServicePlan
    BY DEF TypeOK
  <2>4. VisibilityPatch(MergeFrom(plan[p], new))
    BY <2>3, RequestPatch
  <2>5. ReqType' /\ req'.pc = "visibility"
    BY <2>2, <2>4 DEF ReqType
  <2>6. UNCHANGED <<broker, secret, remote, offering, plan, inst, queued, ctl, applied, faults>>
    BY <2>1 DEF ReadPlan
  <2> QED
    BY <2>5, <2>6 DEF TypeOK, CtlType, PlanRead
<1>2. CASE \E p \in Plans : DeletePlan(p)
  <2>1. PICK p \in Plans : DeletePlan(p)
    BY <1>2
  <2>2. /\ plan' \in [Plans -> CFServicePlan]
        /\ \A q \in Plans : plan'[q].exists <=> plan'[q].type # ""
        /\ \A q \in Plans : plan'[q].exists => plan'[q] = plan[q]
    <3>1. NoPlan \in CFServicePlan /\ ~NoPlan.exists /\ NoPlan.type = ""
      BY NameAssumption DEF NoPlan, CFServicePlan, Names
    <3>2. plan' = [plan EXCEPT ![p] = NoPlan]
      BY <2>1 DEF DeletePlan
    <3> QED
      BY <3>1, <3>2 DEF TypeOK
  <2>3. faults' \in 0..MaxFaults
    BY <2>1, FaultType DEF DeletePlan
  <2>4. UNCHANGED <<broker, secret, remote, offering, inst, queued, ctl, req, applied>>
    BY <2>1 DEF DeletePlan
  <2>5. PlanRead'
    BY <2>2, <2>4 DEF PlanRead, CtlType
  <2> QED
    BY <2>2, <2>3, <2>4, <2>5 DEF TypeOK, CtlType, ReqType
<1>3. CASE PatchVisibility
  <2>1. req.p \in Plans /\ VisibilityPatch(req.patch)
    BY <1>3 DEF PatchVisibility, ReqType
  <2> DEFINE m == Merge(plan[req.p], req.patch)
  <2>2. /\ m \in CFServicePlan
        /\ m.exists = plan[req.p].exists
        /\ m.brokerName = plan[req.p].brokerName
        /\ plan[req.p].type # "" => m.type # ""
    <3>1. plan[req.p] \in CFServicePlan
      BY <2>1 DEF TypeOK
    <3> HIDE DEF m
    <3>2. m = Merge(plan[req.p], req.patch)
      BY DEF m
    <3> QED
      BY <2>1, <3>1, <3>2, MergeVisibility, ZenonT(30)
  <2>3. plan' = [plan EXCEPT ![req.p] = IF @.exists THEN m ELSE @]
    BY <1>3 DEF PatchVisibility
  <2>4. /\ plan' \in [Plans -> CFServicePlan]
        /\ \A q \in Plans : plan'[q].exists <=> plan'[q].type # ""
        /\ \A q \in Plans :
             plan'[q].exists => plan[q].exists /\ plan'[q].brokerName = plan[q].brokerName
    BY <2>1, <2>2, <2>3 DEF TypeOK
  <2>5. /\ req' = Idle
        /\ UNCHANGED <<broker, secret, remote, offering, inst, queued, ctl, applied, faults>>
    BY <1>3 DEF PatchVisibility
  <2>6. PlanRead'
    BY <2>4, <2>5 DEF PlanRead, CtlType
  <2>7. ReqType' /\ req'.pc = "idle"
    BY <2>5 DEF ReqType, Idle
  <2> QED
    BY <2>4, <2>5, <2>6, <2>7 DEF TypeOK, CtlType
<1>4. CASE \E i \in Instances, p \in Plans \cup {Other} : CreateInstance(i, p)
  <2>1. inst' \in [Instances -> CFServiceInstance]
    <3>1. PICK i \in Instances, p \in Plans \cup {Other}, b \in {"none", "bound"} :
             inst' = [inst EXCEPT ![i] = [phase |-> "live", plan |-> p, finalizer |-> TRUE,
                                          binding |-> b]]
      BY <1>4 DEF CreateInstance
    <3>2. [phase |-> "live", plan |-> p, finalizer |-> TRUE, binding |-> b] \in CFServiceInstance
      BY DEF CFServiceInstance
    <3> QED
      BY <3>1, <3>2 DEF TypeOK
  <2>2. UNCHANGED <<broker, secret, remote, offering, plan, queued, ctl, req, applied, faults>>
    BY <1>4 DEF CreateInstance
  <2>3. TypeOK'
    BY <2>1, <2>2 DEF TypeOK
  <2>4. CtlType' /\ ReqType' /\ PlanRead'
    BY <2>1, <2>2 DEF CtlType, ReqType, PlanRead
  <2> QED
    BY <2>3, <2>4
<1>5. CASE DeleteOffering
  <2>1. offering' \in CFServiceOffering
    BY <1>5, NameAssumption DEF DeleteOffering, NoOffering, CFServiceOffering, Names
  <2>2. faults' \in 0..MaxFaults
    BY <1>5, FaultType DEF DeleteOffering
  <2>3. UNCHANGED <<broker, secret, remote, plan, inst, queued, ctl, req, applied>>
    BY <1>5 DEF DeleteOffering
  <2>4. TypeOK'
    BY <2>1, <2>2, <2>3 DEF TypeOK
  <2>5. CtlType' /\ ReqType' /\ PlanRead'
    BY <2>1, <2>2, <2>3 DEF CtlType, ReqType, PlanRead
  <2> QED
    BY <2>4, <2>5
<1>6. CASE RequestFails
  <2>1. faults' \in 0..MaxFaults
    BY <1>6, FaultType DEF RequestFails
  <2>2. /\ req' = Idle
        /\ UNCHANGED <<broker, secret, remote, offering, plan, inst, queued, ctl, applied>>
    BY <1>6 DEF RequestFails
  <2> QED
    BY <2>1, <2>2 DEF TypeOK, CtlType, ReqType, PlanRead, Idle
<1> QED
  BY <1>1, <1>2, <1>3, <1>4, <1>5, <1>6

\* The steps of a purge keep the types.
LEMMA PurgeType ==
    ASSUME TypeInv, Purge
    PROVE  TypeInv'
<1> USE DEF TypeInv
<1>1. CASE ListServicePlans
  <2>1. /\ req' \in [pc : {"plans"}, guids : SUBSET Plans, todo : SUBSET Plans]
        /\ UNCHANGED <<broker, secret, remote, offering, plan, inst, queued, ctl, applied>>
    BY <1>1 DEF ListServicePlans
  <2>2. faults' \in 0..MaxFaults
    BY <1>1, FaultType DEF ListServicePlans
  <2> QED
    BY <2>1, <2>2 DEF TypeOK, CtlType, ReqType, PlanRead
<1>2. CASE \E p \in Plans : DeleteServicePlan(p)
  <2>1. PICK p \in Plans : DeleteServicePlan(p)
    BY <1>2
  <2>2. /\ plan' \in [Plans -> CFServicePlan]
        /\ \A q \in Plans : plan'[q].exists <=> plan'[q].type # ""
        /\ \A q \in Plans : plan'[q].exists => plan'[q] = plan[q]
    <3>1. NoPlan \in CFServicePlan /\ ~NoPlan.exists /\ NoPlan.type = ""
      BY NameAssumption DEF NoPlan, CFServicePlan, Names
    <3>2. plan' = [plan EXCEPT ![p] = NoPlan]
      BY <2>1 DEF DeleteServicePlan
    <3> QED
      BY <3>1, <3>2 DEF TypeOK
  <2>3. \/ req' = Idle
        \/ req' \in [pc : {"plans"}, guids : SUBSET Plans, todo : SUBSET Plans]
    BY <2>1 DEF DeleteServicePlan, ReqType
  <2>4. UNCHANGED <<broker, secret, remote, offering, inst, queued, ctl, applied, faults>>
    BY <2>1 DEF DeleteServicePlan
  <2>5. PlanRead'
    BY <2>2, <2>4 DEF PlanRead, CtlType
  <2>6. ReqType' /\ req'.pc \in {"idle", "plans"}
    BY <2>3 DEF ReqType, Idle
  <2> QED
    BY <2>2, <2>4, <2>5, <2>6 DEF TypeOK, CtlType
<1>3. CASE FetchServiceInstances
  <2>1. /\ req' \in [pc : {"instances"}, todo : SUBSET Instances, bindings : SUBSET Instances]
        /\ UNCHANGED <<broker, secret, remote, offering, plan, inst, queued, ctl, applied, faults>>
    BY <1>3 DEF FetchServiceInstances, LabelIn
  <2> QED
    BY <2>1 DEF TypeOK, CtlType, ReqType, PlanRead
<1>4. CASE \E i \in Instances : ReleaseBinding(i) \/ ReleaseInstance(i) \/ DeleteReleased(i)
  <2>1. PICK i \in Instances : ReleaseBinding(i) \/ ReleaseInstance(i) \/ DeleteReleased(i)
    BY <1>4
  <2>2. req \in [pc : {"instances"}, todo : SUBSET Instances, bindings : SUBSET Instances]
    BY <2>1 DEF ReleaseBinding, ReleaseInstance, DeleteReleased, ReqType
  <2>3. req' \in [pc : {"instances"}, todo : SUBSET Instances, bindings : SUBSET Instances]
    BY <2>1, <2>2 DEF ReleaseBinding, ReleaseInstance, DeleteReleased
  <2>4. inst' \in [Instances -> CFServiceInstance]
    <3>1. inst[i] \in CFServiceInstance
      BY DEF TypeOK
    <3>2. /\ [inst[i] EXCEPT !.binding = "released"] \in CFServiceInstance
          /\ [inst[i] EXCEPT !.finalizer = FALSE] \in CFServiceInstance
          /\ [inst[i] EXCEPT !.phase = "gone"] \in CFServiceInstance
      BY <3>1 DEF CFServiceInstance
    <3>3. \/ inst' = [inst EXCEPT ![i] = [inst[i] EXCEPT !.binding = "released"]]
          \/ inst' = [inst EXCEPT ![i] = [inst[i] EXCEPT !.finalizer = FALSE]]
          \/ inst' = [inst EXCEPT ![i] = [inst[i] EXCEPT !.phase = "gone"]]
      BY <2>1 DEF ReleaseBinding, ReleaseInstance, DeleteReleased
    <3> QED
      BY <3>2, <3>3 DEF TypeOK
  <2>5. UNCHANGED <<broker, secret, remote, offering, plan, queued, ctl, applied, faults>>
    BY <2>1 DEF ReleaseBinding, ReleaseInstance, DeleteReleased
  <2> QED
    BY <2>3, <2>4, <2>5 DEF TypeOK, CtlType, ReqType, PlanRead
<1>5. CASE PurgeOffering
  <2>1. offering' \in CFServiceOffering
    BY <1>5, NameAssumption DEF PurgeOffering, NoOffering, CFServiceOffering, Names
  <2>2. /\ req' = Idle
        /\ UNCHANGED <<broker, secret, remote, plan, inst, queued, ctl, applied, faults>>
    BY <1>5 DEF PurgeOffering
  <2> QED
    BY <2>1, <2>2 DEF TypeOK, CtlType, ReqType, PlanRead, Idle
<1> QED
  BY <1>1, <1>2, <1>3, <1>4, <1>5 DEF Purge

\* Every step keeps the types.
LEMMA NextType ==
    ASSUME TypeInv, [Next]_vars
    PROVE  TypeInv'
<1>1. CASE UNCHANGED vars
  <2>1. TypeOK'
    BY <1>1 DEF TypeInv, TypeOK, vars
  <2>2. CtlType' /\ ReqType' /\ PlanRead'
    BY <1>1 DEF TypeInv, CtlType, ReqType, PlanRead, vars
  <2> QED
    BY <2>1, <2>2 DEF TypeInv
<1> QED
  BY <1>1, BrokerRequestsType, PlanRequestsType, PurgeType, ControllerType DEF Next, API

\* In every reachable state the broker, its catalog and the instances are well
\* typed, a plan exists exactly if it has a type of visibility, and the workers
\* carry what their step needs.
LEMMA TypeCorrect == Spec => []TypeInv
BY InitType, NextType, PTL DEF Spec

\* TypeOK is part of it.
THEOREM CatalogTypeOK == Spec => []TypeOK
<1>1. TypeInv => TypeOK
  BY DEF TypeInv
<1> QED
  BY <1>1, TypeCorrect, PTL

-----------------------------------------------------------------------------
(* A reconciliation never takes back the type of a visibility.             *)

\* Only the step that merges the patch of a request changes the type of the
\* visibility of a plan that stays.
LEMMA StepKeepsType ==
    ASSUME TypeInv, [Next]_vars, NEW p \in Plans,
           plan[p].exists, plan'[p].exists, plan'[p].type # plan[p].type
    PROVE  req.pc = "visibility" /\ req.p = p /\ req' = Idle
<1>1. plan' # plan
  OBVIOUS
<1>2. CASE \E q \in Plans : DeletePlan(q) \/ DeleteServicePlan(q)
  <2>1. PICK q \in Plans : plan' = [plan EXCEPT ![q] = NoPlan]
    BY <1>2 DEF DeletePlan, DeleteServicePlan
  <2> QED
    BY <2>1 DEF TypeInv, TypeOK, NoPlan
<1>3. CASE PatchPlan
  <2> DEFINE m == CreateOrPatch(ctl.read, plan[ctl.p], ModifiedPlan(ctl.read, ctl.name))
  <2>1. ctl.pc = "patchPlan" /\ (plan' = plan \/ plan' = [plan EXCEPT ![ctl.p] = m])
    BY <1>3 DEF PatchPlan
  <2>2. plan[ctl.p].exists => m.type = plan[ctl.p].type
    BY <2>1, PlanPatched
  <2> QED
    BY <2>1, <2>2 DEF TypeInv, TypeOK
<1>4. CASE PatchVisibility
  BY <1>4 DEF PatchVisibility, TypeInv, TypeOK
<1>5. CASE \/ CreateServiceBroker \/ CreateCredentials \/ RenameServiceBroker
           \/ UpdateCredentials \/ DeleteServiceBroker \/ ChangeCatalog
           \/ DeleteOffering \/ RequestFails \/ Crash
           \/ ListServicePlans \/ FetchServiceInstances \/ PurgeOffering
  BY <1>1, <1>5
     DEF CreateServiceBroker, CreateCredentials, RenameServiceBroker, UpdateCredentials,
         DeleteServiceBroker, ChangeCatalog, DeleteOffering, RequestFails, Crash,
         ListServicePlans, FetchServiceInstances, PurgeOffering
<1>6. CASE \/ \E q \in Plans : ReadPlan(q)
           \/ \E i \in Instances, q \in Plans \cup {Other} : CreateInstance(i, q)
           \/ \E i \in Instances : ReleaseBinding(i) \/ ReleaseInstance(i) \/ DeleteReleased(i)
  BY <1>1, <1>6 DEF ReadPlan, CreateInstance, ReleaseBinding, ReleaseInstance, DeleteReleased
<1>7. CASE \/ ReadBroker \/ NoCatalog \/ GetCatalog \/ GetOffering \/ PatchOffering
           \/ (\E q \in Plans : GetPlan(q)) \/ ReconcileFails \/ PatchBroker
  BY <1>1, <1>7 DEF ReadBroker, NoCatalog, GetCatalog, GetOffering, PatchOffering, GetPlan,
                    ReconcileFails, PatchBroker
<1>8. CASE UNCHANGED vars
  BY <1>1, <1>8 DEF vars
<1> QED
  BY <1>2, <1>3, <1>4, <1>5, <1>6, <1>7, <1>8 DEF Next, API, Purge, BrokerController

\* The type of visibility an administrator has given a plan lasts until the
\* next request changes it: no reconciliation takes it back, however its read
\* and its patch interleave with requests (reconcileCatalogPlan).
THEOREM TypeOfVisibilityKept == Spec => VisibilityTypeKept
<1>1. TypeInv /\ [Next]_vars =>
        [\A p \in Plans :
           plan[p].exists /\ plan'[p].exists /\ plan'[p].type # plan[p].type
           => req.pc = "visibility" /\ req.p = p /\ req' = Idle]_vars
  BY StepKeepsType
<1> QED
  BY <1>1, TypeCorrect, PTL DEF Spec, VisibilityTypeKept

-----------------------------------------------------------------------------
(* What a ready broker stands for.                                         *)

\* Names only grow while the broker lives, and the controller lags behind:
\* what it has observed is not newer than what it works on, and that not
\* newer than the broker.
NamesInOrder ==
    /\ broker.phase = "absent" => broker = NoBroker /\ ctl.pc = "idle"
    /\ broker.phase = "live" =>
         /\ broker.observed <= broker.name
         /\ ctl.pc # "idle" => broker.observed <= ctl.name /\ ctl.name <= broker.name

\* Nobody else writes the offering: it is as the controller has read it or it
\* has been deleted since.
OfferingRead ==
    ctl.pc = "patchOffering" => (offering.exists => offering = ctl.read)

Carries(name, ps) ==
    /\ offering.exists => offering.brokerName = name
    /\ \A p \in ps : plan[p].exists => plan[p].brokerName = name

\* What a reconciliation has already gone through carries the name it has
\* read, even if the broker has another one by now.
Progress ==
    /\ ctl.pc \in {"getPlan", "patchPlan"} => Carries(ctl.name, ctl.catalog \ ctl.todo)
    /\ ctl.pc = "patch" => (ctl.ready => Carries(ctl.name, ctl.catalog))

SafeInv == NamesInOrder /\ OfferingRead /\ Progress /\ ReadyMeansApplied

\* The parts of the state that SafeInv is about.
safeVars == <<broker, offering, plan, ctl, applied>>

\* It does not depend on the rest of the state.
LEMMA SafeFrame ==
    ASSUME SafeInv, UNCHANGED safeVars
    PROVE  SafeInv'
BY DEF SafeInv, safeVars, NamesInOrder, OfferingRead, Progress, Carries, ReadyMeansApplied, GetState

\* It is kept by deletions, and by patches that do not touch the labels.
LEMMA SafeUnlabelled ==
    ASSUME TypeInv, SafeInv, UNCHANGED <<broker, ctl, applied>>,
           offering' = offering \/ ~offering'.exists,
           \A q \in Plans :
             plan'[q].exists => plan[q].exists /\ plan'[q].brokerName = plan[q].brokerName
    PROVE  SafeInv'
<1>1. NamesInOrder' /\ OfferingRead'
  BY DEF SafeInv, NamesInOrder, OfferingRead
<1>2. \A ps \in SUBSET Plans, n \in Names : Carries(n, ps) => Carries(n, ps)'
  BY DEF Carries
<1>3. Progress'
  BY <1>2 DEF SafeInv, Progress, TypeInv, CtlType
<1>4. ReadyMeansApplied'
  <2>1. SUFFICES ASSUME broker.phase = "live", GetState = "ready"
                 PROVE  Carries(broker.name, applied)'
    BY DEF ReadyMeansApplied, Carries, GetState
  <2>2. Carries(broker.name, applied)
    BY <2>1 DEF SafeInv, ReadyMeansApplied, Carries
  <2> QED
    BY <1>2, <2>2 DEF TypeInv, TypeOK, CFServiceBroker
<1> QED
  BY <1>1, <1>3, <1>4 DEF SafeInv

\* The steps of the controller that write nothing but what it carries.
LEMMA SafeReads ==
    ASSUME TypeInv, SafeInv,
           \/ NoCatalog \/ GetCatalog \/ GetOffering \/ ReconcileFails \/ Crash
           \/ \E p \in Plans : GetPlan(p)
    PROVE  SafeInv'
<1>1. UNCHANGED <<broker, offering, plan, applied>>
  BY DEF NoCatalog, GetCatalog, GetOffering, ReconcileFails, Crash, GetPlan
<1>2. ReadyMeansApplied'
  BY <1>1 DEF SafeInv, ReadyMeansApplied, GetState
<1>3. CASE Crash
  <2>1. ctl'.pc = "idle"
    BY <1>3 DEF Crash, Idle
  <2> QED
    BY <1>1, <1>2, <2>1 DEF SafeInv, NamesInOrder, OfferingRead, Progress
<1>4. CASE NoCatalog \/ ReconcileFails
  <2>1. /\ ctl.pc # "idle"
        /\ ctl' = [pc |-> "patch", name |-> ctl.name, ready |-> FALSE, catalog |-> {}]
    BY <1>4 DEF NoCatalog, ReconcileFails, Failed, Return
  <2> QED
    BY <1>1, <1>2, <2>1 DEF SafeInv, NamesInOrder, OfferingRead, Progress
<1>5. CASE GetCatalog
  <2>1. /\ ctl.pc # "idle"
        /\ ctl' = [pc |-> "getOffering", name |-> ctl.name, catalog |-> remote]
    BY <1>5 DEF GetCatalog
  <2> QED
    BY <1>1, <1>2, <2>1 DEF SafeInv, NamesInOrder, OfferingRead, Progress
<1>6. CASE GetOffering
  <2>1. /\ ctl.pc # "idle"
        /\ ctl' = [pc |-> "patchOffering", name |-> ctl.name, catalog |-> ctl.catalog,
                   read |-> offering]
    BY <1>6 DEF GetOffering
  <2> QED
    BY <1>1, <1>2, <2>1 DEF SafeInv, NamesInOrder, OfferingRead, Progress
<1>7. CASE \E p \in Plans : GetPlan(p)
  <2>1. PICK p \in Plans : GetPlan(p)
    BY <1>7
  <2>2. /\ ctl.pc = "getPlan"
        /\ ctl' = [pc |-> "patchPlan", name |-> ctl.name, catalog |-> ctl.catalog,
                   todo |-> ctl.todo, p |-> p, read |-> plan[p]]
    BY <2>1 DEF GetPlan
  <2> QED
    BY <1>1, <1>2, <2>2 DEF SafeInv, NamesInOrder, OfferingRead, Progress, Carries
<1> QED
  BY <1>3, <1>4, <1>5, <1>6, <1>7

\* While a live broker counts as ready, what the controller works on has the
\* name of the broker.
LEMMA ReadyWorksOnName ==
    ASSUME TypeInv, SafeInv, broker.phase = "live", GetState = "ready", ctl.pc # "idle"
    PROVE  ctl.name = broker.name
<1>1. broker.observed \in Names /\ broker.name \in Names
  BY DEF TypeInv, TypeOK, CFServiceBroker
<1>2. ctl.name \in Names
  BY DEF TypeInv, TypeOK, CtlType
<1>3. broker.observed <= ctl.name /\ ctl.name <= broker.name /\ broker.observed = broker.name
  BY DEF SafeInv, NamesInOrder, GetState
<1> QED
  BY <1>1, <1>2, <1>3, NameAssumption DEF Names

\* The step that patches the offering.
LEMMA SafePatchOffering ==
    ASSUME TypeInv, SafeInv, PatchOffering
    PROVE  SafeInv'
<1> DEFINE m == CreateOrPatch(ctl.read, offering, [exists |-> TRUE, brokerName |-> ctl.name])
<1>1. /\ ctl.pc = "patchOffering"
      /\ UNCHANGED <<broker, plan, applied>>
  BY DEF PatchOffering
<1>2. m.exists => m.brokerName = ctl.name
  BY <1>1, OfferingPatched DEF SafeInv, OfferingRead
<1>3. ctl.name \in Names /\ ctl.catalog \subseteq Plans
  BY <1>1 DEF TypeInv, CtlType
<1>4. CASE /\ offering' = offering
           /\ ctl' = [pc |-> "patch", name |-> ctl.name, ready |-> FALSE, catalog |-> {}]
  <2>1. ReadyMeansApplied'
    BY <1>1, <1>4 DEF SafeInv, ReadyMeansApplied, GetState
  <2> QED
    BY <1>1, <1>4, <2>1 DEF SafeInv, NamesInOrder, OfferingRead, Progress
<1>5. CASE /\ offering' = m
           /\ \/ /\ ctl' = [pc |-> "patch", name |-> ctl.name, ready |-> TRUE,
                            catalog |-> ctl.catalog]
                 /\ ctl.catalog = {}
              \/ ctl' = [pc |-> "getPlan", name |-> ctl.name, catalog |-> ctl.catalog,
                         todo |-> ctl.catalog]
  <2>1. ctl'.pc \in {"patch", "getPlan"} /\ ctl'.name = ctl.name
    BY <1>5
  <2>2. NamesInOrder' /\ OfferingRead'
    BY <1>1, <2>1 DEF SafeInv, NamesInOrder, OfferingRead
  <2>3. Progress'
    BY <1>2, <1>5 DEF Progress, Carries
  <2>4. ReadyMeansApplied'
    <3>1. SUFFICES ASSUME broker.phase = "live", GetState = "ready"
                   PROVE  Carries(broker.name, applied)'
      BY <1>1 DEF ReadyMeansApplied, Carries, GetState
    <3>2. Carries(broker.name, applied)
      BY <3>1 DEF SafeInv, ReadyMeansApplied, Carries
    <3>3. ctl.name = broker.name
      BY <1>1, <3>1, ReadyWorksOnName
    <3> QED
      BY <1>1, <1>2, <1>5, <3>2, <3>3 DEF Carries
  <2> QED
    BY <2>2, <2>3, <2>4 DEF SafeInv
<1> QED
  BY <1>4, <1>5 DEF PatchOffering, Failed, Return, NextPlan

\* The step that patches a plan.
LEMMA SafePatchPlan ==
    ASSUME TypeInv, SafeInv, PatchPlan
    PROVE  SafeInv'
<1> DEFINE m == CreateOrPatch(ctl.read, plan[ctl.p], ModifiedPlan(ctl.read, ctl.name))
<1>1. /\ ctl.pc = "patchPlan"
      /\ UNCHANGED <<broker, offering, applied>>
  BY DEF PatchPlan
<1>2. m.exists => m.brokerName = ctl.name
  BY <1>1, PlanPatched
<1>3. /\ ctl.name \in Names /\ ctl.catalog \subseteq Plans /\ ctl.todo \subseteq Plans
      /\ ctl.p \in Plans
      /\ plan \in [Plans -> CFServicePlan]
      /\ applied \subseteq Plans
  BY <1>1 DEF TypeInv, TypeOK, CtlType
<1>4. CASE /\ plan' = plan
           /\ ctl' = [pc |-> "patch", name |-> ctl.name, ready |-> FALSE, catalog |-> {}]
  <2>1. ReadyMeansApplied'
    BY <1>1, <1>4 DEF SafeInv, ReadyMeansApplied, GetState
  <2> QED
    BY <1>1, <1>4, <2>1 DEF SafeInv, NamesInOrder, OfferingRead, Progress
<1>5. CASE /\ plan' = [plan EXCEPT ![ctl.p] = m]
           /\ \/ /\ ctl' = [pc |-> "patch", name |-> ctl.name, ready |-> TRUE,
                            catalog |-> ctl.catalog]
                 /\ ctl.todo \ {ctl.p} = {}
              \/ ctl' = [pc |-> "getPlan", name |-> ctl.name, catalog |-> ctl.catalog,
                         todo |-> ctl.todo \ {ctl.p}]
  <2>1. ctl'.pc \in {"patch", "getPlan"} /\ ctl'.name = ctl.name
    BY <1>5
  <2>2. NamesInOrder' /\ OfferingRead'
    BY <1>1, <2>1 DEF SafeInv, NamesInOrder, OfferingRead
  <2>3. Carries(ctl.name, ctl.catalog \ ctl.todo)
    BY <1>1 DEF SafeInv, Progress
  <2>4. /\ offering'.exists => offering'.brokerName = ctl.name
        /\ \A p \in ctl.catalog \ (ctl.todo \ {ctl.p}) :
              plan'[p].exists => plan'[p].brokerName = ctl.name
    BY <1>1, <1>2, <1>3, <1>5, <2>3 DEF Carries
  <2>5. Progress'
    BY <1>5, <2>4 DEF Progress, Carries
  <2>6. ReadyMeansApplied'
    <3>1. SUFFICES ASSUME broker.phase = "live", GetState = "ready"
                   PROVE  Carries(broker.name, applied)'
      BY <1>1 DEF ReadyMeansApplied, Carries, GetState
    <3>2. Carries(broker.name, applied)
      BY <3>1 DEF SafeInv, ReadyMeansApplied, Carries
    <3>3. ctl.name = broker.name
      BY <1>1, <3>1, ReadyWorksOnName
    <3> QED
      BY <1>1, <1>2, <1>3, <1>5, <3>2, <3>3 DEF Carries
  <2> QED
    BY <2>2, <2>5, <2>6 DEF SafeInv
<1> QED
  BY <1>4, <1>5 DEF PatchPlan, Failed, Return, NextPlan

\* The controller starts with the name of the broker, and ends with the
\* status.
LEMMA SafeReadAndStatus ==
    ASSUME TypeInv, SafeInv, ReadBroker \/ PatchBroker
    PROVE  SafeInv'
<1>1. broker \in CFServiceBroker
  BY DEF TypeInv, TypeOK
<1>2. CASE ReadBroker
  <2>1. /\ UNCHANGED <<broker, offering, plan, applied>>
        /\ \/ ctl' = Idle
           \/ broker.phase = "live" /\ ctl' = [pc |-> "read", name |-> broker.name]
    BY <1>2 DEF ReadBroker
  <2>2. ReadyMeansApplied'
    BY <2>1 DEF SafeInv, ReadyMeansApplied, GetState
  <2>3. /\ ctl'.pc \in {"idle", "read"}
        /\ ctl'.pc = "read" => broker.phase = "live" /\ ctl'.name = broker.name
    BY <2>1 DEF Idle
  <2>4. broker.name <= broker.name
    BY <1>1, NameAssumption DEF CFServiceBroker, Names
  <2> QED
    BY <2>1, <2>2, <2>3, <2>4 DEF SafeInv, NamesInOrder, OfferingRead, Progress
<1>3. CASE PatchBroker
  <2>1. /\ ctl.pc = "patch" /\ ctl.ready \in BOOLEAN
        /\ UNCHANGED <<offering, plan>>
        /\ ctl'.pc = "idle"
    BY <1>3 DEF PatchBroker, Idle, TypeInv, CtlType
  <2>2. CASE broker.phase = "live"
    <3>1. broker' = [broker EXCEPT !.ready = ctl.ready, !.observed = ctl.name]
      BY <1>3, <2>2 DEF PatchBroker
    <3>2. /\ broker'.phase = "live" /\ broker'.ready = ctl.ready
          /\ broker'.observed = ctl.name /\ broker'.name = broker.name
      BY <1>1, <2>2, <3>1 DEF CFServiceBroker
    <3>3. NamesInOrder'
      BY <2>1, <2>2, <3>2 DEF SafeInv, NamesInOrder
    <3>4. ReadyMeansApplied'
      <4>1. SUFFICES ASSUME ctl.ready, ctl.name = broker.name
                     PROVE  Carries(broker.name, applied)'
        BY <3>2 DEF ReadyMeansApplied, Carries, GetState
      <4>2. applied' = ctl.catalog
        BY <1>3, <4>1 DEF PatchBroker
      <4>3. Carries(ctl.name, ctl.catalog)
        BY <2>1, <4>1 DEF SafeInv, Progress
      <4> QED
        BY <2>1, <3>2, <4>1, <4>2, <4>3 DEF Carries
    <3> QED
      BY <2>1, <3>3, <3>4 DEF SafeInv, OfferingRead, Progress
  <2>3. CASE broker.phase # "live"
    <3>1. broker' = broker
      BY <1>3, <2>3 DEF PatchBroker
    <3> QED
      BY <2>1, <2>3, <3>1 DEF SafeInv, NamesInOrder, OfferingRead, Progress, ReadyMeansApplied
  <2> QED
    BY <2>2, <2>3
<1> QED
  BY <1>2, <1>3

\* The requests about the broker.
LEMMA SafeBrokerRequests ==
    ASSUME TypeInv, SafeInv, CreateServiceBroker \/ RenameServiceBroker \/ DeleteServiceBroker
    PROVE  SafeInv'
<1>1. UNCHANGED <<offering, plan, ctl, applied>>
  BY DEF CreateServiceBroker, RenameServiceBroker, DeleteServiceBroker
<1>2. OfferingRead' /\ Progress'
  BY <1>1 DEF SafeInv, OfferingRead, Progress, Carries
<1>3. broker \in CFServiceBroker
  BY DEF TypeInv, TypeOK
<1>4. CASE CreateServiceBroker
  <2>1. broker' = [NoBroker EXCEPT !.phase = "live"] /\ ctl.pc = "idle"
    BY <1>4 DEF CreateServiceBroker, SafeInv, NamesInOrder
  <2> QED
    BY <1>1, <1>2, <2>1 DEF SafeInv, NamesInOrder, ReadyMeansApplied, GetState, NoBroker
<1>5. CASE RenameServiceBroker
  <2>1. /\ broker.phase = "live" /\ broker.name \in Nat /\ broker.observed \in Nat
        /\ broker'.phase = "live" /\ broker'.name = broker.name + 1
        /\ broker'.observed = broker.observed
    BY <1>3, <1>5, NameAssumption DEF RenameServiceBroker, CFServiceBroker, Names
  <2>2. broker.observed <= broker.name
    BY <2>1 DEF SafeInv, NamesInOrder
  <2>3. ctl.pc # "idle" => ctl.name \in Nat
    <3>1. ctl.pc # "idle" => ctl.name \in Names
      BY DEF TypeInv, TypeOK, CtlType
    <3> QED
      BY <3>1, NameAssumption DEF Names
  <2>4. NamesInOrder'
    BY <1>1, <2>1, <2>2, <2>3 DEF SafeInv, NamesInOrder
  <2>5. ReadyMeansApplied'
    BY <2>1, <2>2 DEF ReadyMeansApplied, GetState
  <2> QED
    BY <1>2, <2>4, <2>5 DEF SafeInv
<1>6. CASE DeleteServiceBroker
  <2>1. broker'.phase = "gone"
    BY <1>6 DEF DeleteServiceBroker, NoBroker
  <2> QED
    BY <1>2, <2>1 DEF SafeInv, NamesInOrder, ReadyMeansApplied
<1> QED
  BY <1>4, <1>5, <1>6

\* Every step keeps what a ready broker stands for.
LEMMA NextSafe ==
    ASSUME TypeInv, SafeInv, [Next]_vars
    PROVE  SafeInv'
<1>1. CASE \/ CreateCredentials \/ UpdateCredentials \/ ChangeCatalog
           \/ \E p \in Plans : ReadPlan(p)
           \/ \E i \in Instances, p \in Plans \cup {Other} : CreateInstance(i, p)
           \/ RequestFails
           \/ ListServicePlans \/ FetchServiceInstances
           \/ \E i \in Instances : ReleaseBinding(i) \/ ReleaseInstance(i) \/ DeleteReleased(i)
           \/ UNCHANGED vars
  <2>1. UNCHANGED safeVars
    BY <1>1
       DEF safeVars, CreateCredentials, UpdateCredentials, ChangeCatalog, ReadPlan,
           CreateInstance, RequestFails, ListServicePlans, FetchServiceInstances,
           ReleaseBinding, ReleaseInstance, DeleteReleased, vars
  <2> QED
    BY <2>1, SafeFrame
<1>2. CASE \E p \in Plans : DeletePlan(p) \/ DeleteServicePlan(p)
  <2>1. PICK p \in Plans : plan' = [plan EXCEPT ![p] = NoPlan]
    BY <1>2 DEF DeletePlan, DeleteServicePlan
  <2>2. UNCHANGED <<broker, ctl, applied, offering>>
    BY <1>2 DEF DeletePlan, DeleteServicePlan
  <2>3. \A q \in Plans : plan'[q].exists => plan'[q] = plan[q]
    BY <2>1 DEF TypeInv, TypeOK, NoPlan
  <2> QED
    BY <2>2, <2>3, SafeUnlabelled
<1>3. CASE PatchVisibility
  <2> DEFINE m == Merge(plan[req.p], req.patch)
  <2>1. req.p \in Plans /\ VisibilityPatch(req.patch) /\ plan[req.p] \in CFServicePlan
    BY <1>3 DEF PatchVisibility, TypeInv, TypeOK, ReqType
  <2>2. m.exists = plan[req.p].exists /\ m.brokerName = plan[req.p].brokerName
    <3> HIDE DEF m
    <3>1. m = Merge(plan[req.p], req.patch)
      BY DEF m
    <3> QED
      BY <2>1, <3>1 DEF Merge, VisibilityPatch, CFServicePlan
  <2>3. \A q \in Plans :
           plan'[q].exists => plan[q].exists /\ plan'[q].brokerName = plan[q].brokerName
    BY <1>3, <2>1, <2>2 DEF PatchVisibility, TypeInv, TypeOK
  <2>4. UNCHANGED <<broker, ctl, applied, offering>>
    BY <1>3 DEF PatchVisibility
  <2> QED
    BY <2>3, <2>4, SafeUnlabelled
<1>4. CASE DeleteOffering \/ PurgeOffering
  <2>1. UNCHANGED <<broker, ctl, applied, plan>> /\ ~offering'.exists
    BY <1>4 DEF DeleteOffering, PurgeOffering, NoOffering
  <2> QED
    BY <2>1, SafeUnlabelled
<1> QED
  BY <1>1, <1>2, <1>3, <1>4, SafeBrokerRequests, SafeReads, SafePatchOffering, SafePatchPlan,
     SafeReadAndStatus
     DEF Next, API, Purge, BrokerController

\* When the API reports a broker as ready, offering and plans of the catalog
\* that was applied carry the broker's present name, for any number of plans,
\* renames, deletions, failures and restarts (reconcileCatalog, GetState).
THEOREM ReadyIsApplied == Spec => []ReadyMeansApplied
<1>1. Init => SafeInv
  BY DEF Init, SafeInv, NamesInOrder, OfferingRead, Progress, ReadyMeansApplied, NoBroker, Idle
<1>2. TypeInv /\ SafeInv /\ [Next]_vars => SafeInv'
  BY NextSafe
<1>3. SafeInv => ReadyMeansApplied
  BY DEF SafeInv
<1> QED
  BY <1>1, <1>2, <1>3, TypeCorrect, PTL DEF Spec

-----------------------------------------------------------------------------
(***************************************************************************)
(* No wake-up is lost.  This is what remains of CatalogSettles without     *)
(* fairness: the controller never comes to rest with work left to do.      *)
(***************************************************************************)

\* A broker that the API does not report as ready is waiting to be reconciled
\* or is being reconciled, whatever is renamed, failed or restarted meanwhile
\* (SetupWithManager and its watches, the errors ReconcileResource returns).
BrokerIsQueued == broker.phase = "live" /\ GetState # "ready" => queued \/ ctl # Idle

\* A broker that was renamed since the worker has read it is queued again.
RenameIsQueued == broker.phase = "live" /\ ctl # Idle /\ ctl.name # broker.name => queued

WakeInv == BrokerIsQueued /\ RenameIsQueued

\* Requests about brokers queue the broker.
LEMMA WakeBrokerRequests ==
    ASSUME TypeInv, WakeInv,
           \/ CreateServiceBroker \/ CreateCredentials \/ RenameServiceBroker
           \/ UpdateCredentials \/ DeleteServiceBroker
    PROVE  WakeInv'
<1>1. queued'
  BY DEF CreateServiceBroker, CreateCredentials, RenameServiceBroker, UpdateCredentials,
         DeleteServiceBroker
<1> QED
  BY <1>1 DEF WakeInv, BrokerIsQueued, RenameIsQueued

\* Between its first read and its last patch the worker stays with the broker
\* it has read.
LEMMA WakeSteps ==
    ASSUME TypeInv, WakeInv,
           \/ NoCatalog \/ GetCatalog \/ GetOffering \/ PatchOffering
           \/ \E p \in Plans : GetPlan(p)
           \/ PatchPlan \/ ReconcileFails
    PROVE  WakeInv'
<1>1. UNCHANGED <<broker, queued>>
  BY DEF NoCatalog, GetCatalog, GetOffering, PatchOffering, GetPlan, PatchPlan, ReconcileFails
<1>2. ctl # Idle
  BY DEF NoCatalog, GetCatalog, GetOffering, PatchOffering, GetPlan, PatchPlan, ReconcileFails,
         Idle
<1>3. ctl' # Idle /\ ctl'.name = ctl.name
  BY DEF NoCatalog, GetCatalog, GetOffering, PatchOffering, GetPlan, PatchPlan, ReconcileFails,
         NextPlan, Failed, Return, Idle
<1> QED
  BY <1>1, <1>2, <1>3 DEF WakeInv, BrokerIsQueued, RenameIsQueued, GetState

\* The status that ends a reconciliation says ready of the name that was read,
\* or the broker is queued again.
LEMMA WakePatchBroker ==
    ASSUME TypeInv, WakeInv, PatchBroker
    PROVE  WakeInv'
<1>1. ctl # Idle /\ ctl' = Idle
  BY DEF PatchBroker, Idle
<1>2. SUFFICES ASSUME broker'.phase = "live", ~queued'
               PROVE  GetState' = "ready"
  BY <1>1 DEF WakeInv, BrokerIsQueued, RenameIsQueued
<1>3. ~queued /\ ctl.ready
  BY <1>2 DEF PatchBroker, Requeue
<1>4. broker.phase = "live"
  BY <1>2 DEF PatchBroker
<1>5. ctl.name = broker.name
  BY <1>1, <1>3, <1>4 DEF WakeInv, RenameIsQueued
<1>6. broker'.ready = ctl.ready /\ broker'.observed = ctl.name /\ broker'.name = broker.name
  BY <1>4 DEF PatchBroker, TypeInv, TypeOK, CFServiceBroker
<1> QED
  BY <1>3, <1>5, <1>6 DEF GetState

\* Every step keeps what is left to do queued.
LEMMA NextWakes ==
    ASSUME TypeInv, WakeInv, [Next]_vars
    PROVE  WakeInv'
<1>1. CASE ReadBroker
  <2>1. /\ broker' = broker /\ ctl = Idle
        /\ ctl' = IF broker.phase = "live" THEN [pc |-> "read", name |-> broker.name] ELSE Idle
    BY <1>1 DEF ReadBroker
  <2> QED
    BY <2>1 DEF WakeInv, BrokerIsQueued, RenameIsQueued, GetState, Idle
<1>2. CASE Crash
  <2>1. broker' = broker /\ ctl' = Idle /\ queued' = (broker.phase = "live")
    BY <1>2 DEF Crash
  <2> QED
    BY <2>1 DEF WakeInv, BrokerIsQueued, RenameIsQueued
<1>3. CASE \/ ChangeCatalog \/ PatchVisibility
           \/ \E p \in Plans : ReadPlan(p) \/ DeletePlan(p)
           \/ \E i \in Instances, p \in Plans \cup {Other} : CreateInstance(i, p)
           \/ DeleteOffering \/ RequestFails
           \/ ListServicePlans \/ FetchServiceInstances \/ PurgeOffering
           \/ \E p \in Plans : DeleteServicePlan(p)
           \/ \E i \in Instances : ReleaseBinding(i) \/ ReleaseInstance(i) \/ DeleteReleased(i)
           \/ UNCHANGED vars
  <2>1. UNCHANGED <<broker, queued, ctl>>
    BY <1>3
       DEF ChangeCatalog, PatchVisibility, ReadPlan, DeletePlan, CreateInstance,
           DeleteOffering, RequestFails, ListServicePlans, FetchServiceInstances,
           PurgeOffering, DeleteServicePlan, ReleaseBinding, ReleaseInstance,
           DeleteReleased, vars
  <2> QED
    BY <2>1 DEF WakeInv, BrokerIsQueued, RenameIsQueued, GetState
<1> QED
  BY <1>1, <1>2, <1>3, WakeBrokerRequests, WakeSteps, WakePatchBroker
     DEF Next, API, Purge, BrokerController

\* A broker that is not ready is never forgotten by its controller: when the
\* queue is empty and the worker rests, the API reports the broker as ready
\* (ReconcileResource, the watches of SetupWithManager).
THEOREM BrokerNeverForgotten == Spec => []BrokerIsQueued
<1>1. Init => WakeInv
  BY DEF Init, WakeInv, BrokerIsQueued, RenameIsQueued, NoBroker
<1>2. TypeInv /\ WakeInv /\ [Next]_vars => WakeInv'
  BY NextWakes
<1>3. WakeInv => BrokerIsQueued
  BY DEF WakeInv
<1> QED
  BY <1>1, <1>2, <1>3, TypeCorrect, PTL DEF Spec

=============================================================================
