------------------------------- MODULE Tenancy -------------------------------
(***************************************************************************)
(* An org and its spaces.  Each of them is an object with a namespace: a   *)
(* CFOrg lives in the root namespace, a CFSpace in the namespace of its    *)
(* org.  One generic reconciler creates the namespace and copies into it   *)
(* the role bindings of the parent namespace that are marked to            *)
(* propagate; spaces also get the service accounts of the root namespace.  *)
(* Deletion empties a space of its apps first, then deletes the namespace, *)
(* and lets the object go once the namespace is gone.                      *)
(*                                                                         *)
(* An object is reconciled when its key is queued: watches queue it when   *)
(* it, or a role binding next to it, changes.                              *)
(***************************************************************************)
EXTENDS Naturals, FiniteSets

CONSTANTS
    Spaces,         \* the CFSpaces of the org, named as their namespaces
    Kept,           \* roles and service accounts with propagate-deletion "false"
    MaxEvents,      \* bound on the requests of users and operators, the calls
                    \* that fail and the restarts, together
    MaxFaults       \* bound on the calls that fail and the restarts

VARIABLES
    org,            \* the CFOrg
    space,          \* the CFSpaces
    overdue,        \* has the appDeletionTimeout of a space passed?
    ns,             \* the namespaces of org and spaces
    bindings,       \* the role bindings in each namespace
    accounts,       \* the service accounts in the root and the space namespaces
    app,            \* the CFApp of each space
    queue,          \* the keys the org and the space controller have queued
    run,            \* the reconciliations under way
    calls, faults

Keys == {"org"} \cup Spaces

-----------------------------------------------------------------------------
(* State.  There are one admin and one user: a role names its binding, and *)
(* a binding of another level than its namespace's is a propagated copy.   *)

OrgRoles == {"organization_manager", "organization_user"}
SpaceRoles == {"space_developer"}
Roles == {"admin", "cf_user"} \cup OrgRoles \cup SpaceRoles
Accounts == {"runner", "builder"}

Phases == {"none", "live", "deleting", "gone"}
CFNamespaceObject == [phase : Phases, ready : BOOLEAN]
Run == [busy : BOOLEAN, listed : SUBSET Roles]
Idle == [busy |-> FALSE, listed |-> {}]
Absent == [phase |-> "none", ready |-> FALSE]

TenancyTypeOK ==
    /\ org \in CFNamespaceObject
    /\ space \in [Spaces -> CFNamespaceObject]
    /\ overdue \in [Spaces -> BOOLEAN]
    /\ ns \in [Keys -> {"none", "active", "terminating", "gone"}]
    /\ bindings \in [Keys \cup {"root"} -> SUBSET Roles]
    /\ accounts \in [Spaces \cup {"root"} -> SUBSET Accounts]
    /\ app \in [Spaces -> {"none", "live", "deleting", "unmapped", "gone"}]
    /\ queue \in SUBSET Keys
    /\ run \in [Keys -> Run]
    /\ calls \in 0 .. MaxEvents /\ faults \in 0 .. MaxFaults

Object(k) == IF k = "org" THEN org ELSE space[k]
Parent(k) == IF k = "org" THEN "root" ELSE "org"
Exists(object) == object.phase \in {"live", "deleting"}
AppExists(s) == app[s] \in {"live", "deleting", "unmapped"}

\* The roles a namespace is given directly, by level.
RolesOf(n) ==
    IF n = "root" THEN {"admin", "cf_user"} ELSE IF n = "org" THEN OrgRoles ELSE SpaceRoles

\* roleMappings of the installation.
Propagates(role) == role \in {"admin", "organization_manager"}

Call == calls + faults < MaxEvents /\ calls' = calls + 1
Fault == calls + faults < MaxEvents /\ faults < MaxFaults /\ faults' = faults + 1

SetObject(k, object) ==
    IF k = "org" THEN org' = object /\ UNCHANGED space
                 ELSE space' = [space EXCEPT ![k] = object] /\ UNCHANGED org

\* Mutant: only objects that are ready are queued.
WatchersReady(n) ==
    {k \in Keys : Parent(k) = n /\ Exists(Object(k)) /\ Object(k).ready}

\* enqueueCFOrgRequests and enqueueCFSpaceRequests: a role binding queues the
\* orgs or the spaces that live in its namespace.
Watchers(n) ==
    {k \in Keys : Parent(k) = n /\ Exists(Object(k))}

-----------------------------------------------------------------------------
(* Users and operators.                                                    *)

CreateOrg ==
    /\ Call
    /\ org.phase = "none"
    /\ org' = [phase |-> "live", ready |-> FALSE]
    /\ queue' = queue \cup {"org"}
    /\ UNCHANGED <<space, overdue, ns, bindings, accounts, app, run, faults>>

\* A space is created in the namespace of a ready org, one that is being
\* deleted included, as long as the namespace takes new objects.
CreateSpace(s) ==
    /\ Call
    /\ Exists(org) /\ org.ready /\ ns["org"] = "active"
    /\ space[s].phase = "none"
    /\ space' = [space EXCEPT ![s] = [phase |-> "live", ready |-> FALSE]]
    /\ queue' = queue \cup {s}
    /\ UNCHANGED <<org, overdue, ns, bindings, accounts, app, run, faults>>

\* DeleteOrg and DeleteSpace.
Delete(k) ==
    /\ Call
    /\ Object(k).phase = "live"
    /\ SetObject(k, [Object(k) EXCEPT !.phase = "deleting"])
    /\ queue' = queue \cup {k}
    /\ UNCHANGED <<overdue, ns, bindings, accounts, app, run, faults>>

\* A space role needs some role in the org.  The role binding is created
\* first, then the one that makes its subject a user of the platform.
CreateRole(n, role) ==
    /\ Call
    /\ role \in RolesOf(n) \ bindings[n]
    /\ Exists(Object(n)) /\ ns[n] = "active"
    /\ n \in Spaces => bindings["org"] \cap OrgRoles # {}
    /\ \E complete \in BOOLEAN :
        /\ bindings' = [bindings EXCEPT ![n] = @ \cup {role},
                                        !["root"] = IF complete THEN @ \cup {"cf_user"} ELSE @]
        /\ IF complete THEN UNCHANGED faults ELSE Fault
        /\ queue' = queue \cup Watchers(n)
                          \cup (IF complete /\ "cf_user" \notin bindings["root"] THEN Watchers("root") ELSE {})
    /\ UNCHANGED <<org, space, overdue, ns, accounts, app, run>>

\* It takes nothing else away: not the roles in the spaces of the org.
DeleteRole(n, role) ==
    /\ Call
    /\ role \in RolesOf(n) \cap bindings[n]
    /\ bindings' = [bindings EXCEPT ![n] = @ \ {role}]
    /\ queue' = queue \cup Watchers(n)
    /\ UNCHANGED <<org, space, overdue, ns, accounts, app, run, faults>>

\* An operator grants or revokes the role binding of the admin.
ChangeAdmin ==
    /\ Call
    /\ bindings' = [bindings EXCEPT !["root"] =
                        IF "admin" \in @ THEN @ \ {"admin"} ELSE @ \cup {"admin"}]
    /\ queue' = queue \cup Watchers("root")
    /\ UNCHANGED <<org, space, overdue, ns, accounts, app, run, faults>>

\* An operator installs or removes a service account to propagate: it queues
\* every space.
ChangeAccount(a) ==
    /\ Call
    /\ accounts' = [accounts EXCEPT !["root"] = IF a \in @ THEN @ \ {a} ELSE @ \cup {a}]
    /\ queue' = queue \cup Watchers("org")
    /\ UNCHANGED <<org, space, overdue, ns, bindings, app, run, faults>>

-----------------------------------------------------------------------------
(* The reconcilers.  Each controller has one worker.                       *)

WorkerFree(k) == \A j \in Keys : Parent(j) = Parent(k) => ~run[j].busy

\* ReconcileResource up to the list of the role bindings in the parent.
BeginReconcile(k) ==
    /\ k \in queue /\ WorkerFree(k)
    /\ Object(k).phase = "live"
    /\ ns' = [ns EXCEPT ![k] = "active"]
    /\ run' = [run EXCEPT ![k] =
                [busy |-> TRUE, listed |-> {role \in bindings[Parent(k)] : Propagates(role)}]]
    /\ queue' = queue \ {k}
    /\ UNCHANGED <<org, space, overdue, bindings, accounts, app, calls, faults>>

\* reconcileRoleBindings: the copies of k once it has created those of the
\* listed bindings and deleted the others.
Propagated(k) ==
    LET copies == {role \in bindings[k] : Propagates(role)} \ RolesOf(k)
    IN (bindings[k] \ ((copies \ run[k].listed) \ Kept)) \cup run[k].listed

\* reconcileServiceAccounts.
PropagatedAccounts(s) == (accounts[s] \cap Kept) \cup accounts["root"]

\* The rest of it.  Patching the status queues the object when that changes.
CompleteReconcile(k) ==
    /\ run[k].busy
    /\ bindings' = [bindings EXCEPT ![k] = Propagated(k)]
    /\ accounts' = IF k = "org" THEN accounts ELSE [accounts EXCEPT ![k] = PropagatedAccounts(k)]
    /\ SetObject(k, [Object(k) EXCEPT !.ready = TRUE])
    /\ run' = [run EXCEPT ![k] = Idle]
    /\ queue' = queue \cup (IF Object(k).ready THEN {} ELSE {k})
                      \cup (IF Propagated(k) # bindings[k] THEN Watchers(k) ELSE {})
    /\ UNCHANGED <<overdue, ns, app, calls, faults>>

\* A call fails after some of the copies are created: the object is not
\* ready and is queued again.
FailReconcile(k) ==
    /\ run[k].busy
    /\ Fault
    /\ \E done \in SUBSET run[k].listed :
        /\ bindings' = [bindings EXCEPT ![k] = @ \cup done]
        /\ queue' = queue \cup {k} \cup (IF done \subseteq bindings[k] THEN {} ELSE Watchers(k))
    /\ SetObject(k, [Object(k) EXCEPT !.ready = FALSE])
    /\ run' = [run EXCEPT ![k] = Idle]
    /\ UNCHANGED <<overdue, ns, accounts, app, calls>>

-----------------------------------------------------------------------------
(* Deletion.                                                               *)

CanFinalize(k) == k \in queue /\ WorkerFree(k) /\ Object(k).phase = "deleting"

\* SpaceAppsFinalizer: the space waits for its apps until the timeout.
AppsRemain(k) == k \in Spaces /\ ns[k] = "active" /\ AppExists(k) /\ ~overdue[k]

\* Mutant: it waits for the apps and does not delete them.
AwaitApps(s) ==
    /\ CanFinalize(s)
    /\ AppsRemain(s)
    /\ app' = app
    /\ UNCHANGED <<org, space, overdue, ns, bindings, accounts, queue, run, calls, faults>>

\* It is requeued after half a second.
DeleteApps(s) ==
    /\ CanFinalize(s)
    /\ AppsRemain(s)
    /\ app' = [app EXCEPT ![s] = IF @ = "live" THEN "deleting" ELSE @]
    /\ UNCHANGED <<org, space, overdue, ns, bindings, accounts, queue, run, calls, faults>>

\* appDeletionTimeout seconds after the deletion.
TimeOut(s) ==
    /\ space[s].phase = "deleting" /\ AppsRemain(s)
    /\ overdue' = [overdue EXCEPT ![s] = TRUE]
    /\ UNCHANGED <<org, space, ns, bindings, accounts, app, queue, run, calls, faults>>

\* NamespaceFinalizer.  It is requeued after a second.
DeleteNamespace(k) ==
    /\ CanFinalize(k)
    /\ ~AppsRemain(k)
    /\ ns[k] = "active"
    /\ ns' = [ns EXCEPT ![k] = "terminating"]
    /\ UNCHANGED <<org, space, overdue, bindings, accounts, app, queue, run, calls, faults>>

\* Mutant: it does not wait for a namespace that is terminating.
ReleaseEarly(k) ==
    /\ CanFinalize(k)
    /\ ns[k] # "active"
    /\ SetObject(k, [phase |-> "gone", ready |-> FALSE])
    /\ queue' = queue \ {k}
    /\ UNCHANGED <<overdue, ns, bindings, accounts, app, run, calls, faults>>

\* The namespace is not found: the finalizer is removed.
ReleaseObject(k) ==
    /\ CanFinalize(k)
    /\ ns[k] \in {"none", "gone"}
    /\ SetObject(k, [phase |-> "gone", ready |-> FALSE])
    /\ queue' = queue \ {k}
    /\ UNCHANGED <<overdue, ns, bindings, accounts, app, run, calls, faults>>

\* The namespace controller of Kubernetes deletes what a terminating
\* namespace holds: the spaces of an org.
EmptyOrgNamespace ==
    /\ ns["org"] = "terminating"
    /\ ~(bindings["org"] = {} /\ \A s \in Spaces : space[s].phase # "live")
    /\ space' = [s \in Spaces |-> [space[s] EXCEPT !.phase = IF @ = "live" THEN "deleting" ELSE @]]
    /\ bindings' = [bindings EXCEPT !["org"] = {}]
    /\ queue' = queue \cup Watchers("org")
    /\ UNCHANGED <<org, overdue, ns, accounts, app, run, calls, faults>>

\* Or the app of a space, and its routes.
EmptySpaceNamespace(s) ==
    /\ ns[s] = "terminating"
    /\ bindings' = [bindings EXCEPT ![s] = {}]
    /\ accounts' = [accounts EXCEPT ![s] = {}]
    /\ app' = [app EXCEPT ![s] = IF @ = "live" THEN "deleting" ELSE @]
    /\ UNCHANGED <<org, space, overdue, ns, queue, run, calls, faults>>

\* It removes a namespace that holds nothing more.
RemoveNamespace(n) ==
    /\ ns[n] = "terminating"
    /\ bindings[n] = {}
    /\ IF n = "org" THEN \A s \in Spaces : ~Exists(space[s]) ELSE ~AppExists(n)
    /\ ns' = [ns EXCEPT ![n] = "gone"]
    /\ UNCHANGED <<org, space, overdue, bindings, accounts, app, queue, run, calls, faults>>

-----------------------------------------------------------------------------
(* Properties.                                                             *)

\* A namespace always has its CFOrg or CFSpace, and a CFSpace always lives in
\* the namespace of an org: whatever users delete in whatever order, nothing
\* is left that the API can no longer reach.
NamespaceHasOwner ==
    /\ \A k \in Keys : ns[k] \in {"active", "terminating"} => Exists(Object(k))
    /\ \A s \in Spaces : Exists(space[s]) => ns["org"] \in {"active", "terminating"}

\* Access that was revoked in the parent namespace, or granted there and not
\* yet copied, is never forgotten: the reconciliation that settles it is
\* queued or under way, although it lists the parent before it writes.
StaleAccessIsQueued ==
    \A k \in Keys :
        Object(k).phase = "live" =>
            LET granted == {role \in bindings[Parent(k)] : Propagates(role)}
                copies == {role \in bindings[k] : Propagates(role)} \ RolesOf(k)
            IN \/ granted \subseteq copies /\ copies \ granted \subseteq Kept
               \/ run[k].busy /\ run[k].listed = granted
               \/ k \in queue
=============================================================================
