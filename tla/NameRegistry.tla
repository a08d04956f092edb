---------------------------- MODULE NameRegistry ----------------------------
(***************************************************************************)
(* Unique display names of korifi resources (CFApp, CFRoute, CFOrg,        *)
(* CFSpace, CFServiceInstance, CFServiceBinding, CFServiceBroker,          *)
(* CFSecurityGroup).                                                       *)
(*                                                                         *)
(* A name is claimed by creating a Lease whose Kubernetes name is the hash *)
(* of the entity type and the name (controllers/coordination).  The leases *)
(* are driven by the validating webhooks of the resources, all of which    *)
(* delegate to validation.DuplicateValidator.  The module describes the    *)
(* leases of one entity type in one namespace (the hash keeps types apart, *)
(* Kubernetes keeps namespaces apart), the objects of that type in etcd,   *)
(* and the admission requests in flight between the API server and the     *)
(* webhook.  Every call of the webhook to the API server is a step of its  *)
(* own, so requests interleave between any two calls.                      *)
(***************************************************************************)
EXTENDS Naturals

CONSTANTS
    Objects,    \* object identities (namespace + Kubernetes name)
    Names,      \* unique names
    Requests,   \* slots for concurrent admission requests
    Env,        \* what the environment may do, a subset of AllFaults
    DryRuns,    \* the dryRun values of the submitted requests
    None

\* Faults that leave every claimed name claimed.
SafeFaults ==
    {"callError",       \* a call of the registry fails without effect
     "crash",           \* the webhook dies before it has released a name
     "abandonCreate"}   \* an admitted create is not written to etcd

\* Behaviour of clients and of the API server that the registry does not
\* defend against.
UnsafeFaults ==
    {"abandon",         \* an admitted rename or delete is not written to etcd
     "touch",           \* another writer changes the object meanwhile
     "parallel",        \* two requests for one object are in flight
     "redelete"}        \* DELETE of an object that is already terminating

AllFaults == SafeFaults \cup UnsafeFaults

ASSUME EnvAssumption == Env \subseteq AllFaults
ASSUME DryRunsAssumption == DryRuns \subseteq BOOLEAN
ASSUME NoneAssumption == None \notin Objects /\ None \notin Names

VARIABLES
    lease,      \* the Lease claiming each name; NoLease if there is none
    store,      \* the objects in etcd
    req         \* the admission requests in flight

vars == <<lease, store, req>>

-----------------------------------------------------------------------------
(* State.                                                                  *)

\* spec.holderIdentity is "none" or "locked"; the owner annotations name an
\* object.
NoLease == [holder |-> "absent", owner |-> None]
Lease == [holder : {"none", "locked"}, owner : Objects] \cup {NoLease}

\* A terminating object has a deletionTimestamp and waits for its finalizer.
NoObject == [phase |-> "absent", name |-> None]
Object == [phase : {"live", "deleting"}, name : Names] \cup {NoObject}

Steps == {"register", "lock", "checkOwner", "registerNew", "unlock",
          "deregisterOld", "deregister", "admitted"}

Idle == [step |-> "idle", op |-> "none", obj |-> None, old |-> None,
         new |-> None, stale |-> FALSE, dry |-> FALSE]
Request == [step : Steps, op : {"create", "update", "delete"},
            obj : Objects, old : Names \cup {None}, new : Names \cup {None},
            stale : BOOLEAN, dry : BOOLEAN] \cup {Idle}

Active(r) == req[r] # Idle

Init ==
    /\ lease = [n \in Names |-> NoLease]
    /\ store = [o \in Objects |-> NoObject]
    /\ req = [r \in Requests |-> Idle]

-----------------------------------------------------------------------------
(* The calls of coordination.NameRegistry.  Each is one call to the API    *)
(* server, which is atomic; out is what the caller can tell apart.  A      *)
(* dry-run request returns before any call that writes.                    *)

CallFails(out) == out = "error" /\ "callError" \in Env /\ UNCHANGED lease

\* Mutant: creates or replaces the lease, as an apply would.
RegisterNameReplacing(n, o, dry, out) ==
    /\ out = "ok"
    /\ lease' = IF dry THEN lease
                ELSE [lease EXCEPT ![n] = [holder |-> "none", owner |-> o]]

RegisterName(n, o, dry, out) ==
    \/ /\ dry
       /\ out = "ok"
       /\ UNCHANGED lease
    \/ /\ ~dry
       /\ \/ /\ lease[n] = NoLease
             /\ out = "ok"
             /\ lease' = [lease EXCEPT ![n] = [holder |-> "none", owner |-> o]]
          \/ /\ lease[n] # NoLease
             /\ out = "alreadyExists"
             /\ UNCHANGED lease
          \/ CallFails(out)

\* A lease that does not exist is not an error.
DeregisterName(n, dry, out) ==
    \/ /\ dry
       /\ out = "ok"
       /\ UNCHANGED lease
    \/ /\ ~dry
       /\ \/ /\ out = "ok"
             /\ lease' = [lease EXCEPT ![n] = NoLease]
          \/ CallFails(out)

\* Mutant: locks with an apply, which creates a missing lease without owner.
TryLockNameUpsert(n, dry, out) ==
    /\ out = "ok"
    /\ lease' = IF dry THEN lease ELSE [lease EXCEPT ![n].holder = "locked"]

\* The JSON patch tests the holder identity and replaces it atomically; a
\* failed test is an error other than NotFound.
TryLockName(n, dry, out) ==
    \/ /\ dry
       /\ out = "ok"
       /\ UNCHANGED lease
    \/ /\ ~dry
       /\ \/ /\ lease[n].holder = "none"
             /\ out = "ok"
             /\ lease' = [lease EXCEPT ![n].holder = "locked"]
          \/ /\ lease[n].holder = "locked"
             /\ out = "error"
             /\ UNCHANGED lease
          \/ /\ lease[n] = NoLease
             /\ out = "notFound"
             /\ UNCHANGED lease
          \/ CallFails(out)

UnlockName(n, dry, out) ==
    \/ /\ dry
       /\ out = "ok"
       /\ UNCHANGED lease
    \/ /\ ~dry
       /\ \/ /\ lease[n].holder = "locked"
             /\ out = "ok"
             /\ lease' = [lease EXCEPT ![n].holder = "none"]
          \/ /\ lease[n].holder # "locked"
             /\ out = "error"
             /\ UNCHANGED lease
          \/ CallFails(out)

CheckNameOwnership(n, o, out) ==
    /\ UNCHANGED lease
    /\ \/ /\ lease[n] # NoLease
          /\ out = (IF lease[n].owner = o THEN "owned" ELSE "notOwned")
       \/ /\ lease[n] = NoLease
          /\ out = "error"
       \/ CallFails(out)

-----------------------------------------------------------------------------
(* The steps of validation.DuplicateValidator.                             *)

At(r, step) == req[r].step = step
GoTo(r, step) == req' = [req EXCEPT ![r].step = step]

\* The webhook denies the request; the API server answers with an error.
Reject(r) == req' = [req EXCEPT ![r] = Idle]

\* Mutant: a failed create cleans up the name it could not register.
ValidateCreateCleansUp(r) ==
    /\ At(r, "register")
    /\ IF lease[req[r].new] = NoLease
         THEN /\ RegisterName(req[r].new, req[r].obj, req[r].dry, "ok")
              /\ GoTo(r, "admitted")
         ELSE /\ DeregisterName(req[r].new, req[r].dry, "ok")
              /\ Reject(r)
    /\ UNCHANGED store

\* A lease that exists is a duplicate name, any other failure an unknown
\* error; both deny the request.
ValidateCreate(r) ==
    /\ At(r, "register")
    /\ \E out \in {"ok", "alreadyExists", "error"} :
          /\ RegisterName(req[r].new, req[r].obj, req[r].dry, out)
          /\ IF out = "ok" THEN GoTo(r, "admitted") ELSE Reject(r)
    /\ UNCHANGED store

\* ValidateUpdate, a rename: lock the old name.
LockOldName(r) ==
    /\ At(r, "lock")
    /\ \E out \in {"ok", "notFound", "error"} :
          /\ TryLockName(req[r].old, req[r].dry, out)
          /\ \/ out = "ok" /\ GoTo(r, "registerNew")
             \/ out = "notFound" /\ GoTo(r, "checkOwner")
             \/ out = "error" /\ Reject(r)
    /\ UNCHANGED store

\* Mutant: a missing old name denies the rename at once.
CheckNewNameOwnerSkipped(r) ==
    /\ At(r, "checkOwner")
    /\ Reject(r)
    /\ UNCHANGED <<lease, store>>

\* The old name is not registered: an earlier attempt of this rename may have
\* moved the claim already.
CheckNewNameOwner(r) ==
    /\ At(r, "checkOwner")
    /\ \E out \in {"owned", "notOwned", "error"} :
          /\ CheckNameOwnership(req[r].new, req[r].obj, out)
          /\ IF out = "owned" THEN GoTo(r, "admitted") ELSE Reject(r)
    /\ UNCHANGED store

RegisterNewName(r) ==
    /\ At(r, "registerNew")
    /\ \E out \in {"ok", "alreadyExists", "error"} :
          /\ RegisterName(req[r].new, req[r].obj, req[r].dry, out)
          /\ GoTo(r, IF out = "ok" THEN "deregisterOld" ELSE "unlock")
    /\ UNCHANGED store

\* Mutant: the old name stays locked.
UnlockOldNameSkipped(r) ==
    /\ At(r, "unlock")
    /\ Reject(r)
    /\ UNCHANGED <<lease, store>>

\* The new name could not be registered; a failure to unlock is only logged.
UnlockOldName(r) ==
    /\ At(r, "unlock")
    /\ \E out \in {"ok", "error"} : UnlockName(req[r].old, req[r].dry, out)
    /\ Reject(r)
    /\ UNCHANGED store

\* Mutant: frees the name that has just been registered.
DeregisterOldNameSwapped(r) ==
    /\ At(r, "deregisterOld")
    /\ DeregisterName(req[r].new, req[r].dry, "ok")
    /\ GoTo(r, "admitted")
    /\ UNCHANGED store

\* A failure to deregister the old name is only logged.
DeregisterOldName(r) ==
    /\ At(r, "deregisterOld")
    /\ \E out \in {"ok", "error"} : DeregisterName(req[r].old, req[r].dry, out)
    /\ GoTo(r, "admitted")
    /\ UNCHANGED store

ValidateDelete(r) ==
    /\ At(r, "deregister")
    /\ \E out \in {"ok", "error"} :
          /\ DeregisterName(req[r].old, req[r].dry, out)
          /\ IF out = "ok" THEN GoTo(r, "admitted") ELSE Reject(r)
    /\ UNCHANGED store

Webhook(r) ==
    \/ ValidateCreate(r)
    \/ LockOldName(r)
    \/ CheckNewNameOwner(r)
    \/ RegisterNewName(r)
    \/ UnlockOldName(r)
    \/ DeregisterOldName(r)
    \/ ValidateDelete(r)

-----------------------------------------------------------------------------
(* The API server: it reads the object, calls the webhook, and writes the  *)
(* object if it has not changed in the meantime.                           *)

\* The first step of the validators for an object as read from etcd: updates
\* of terminating objects and updates that keep the name are let through.
FirstStep(op, o, n) ==
    CASE op = "create" -> "register"
      [] op = "delete" -> "deregister"
      [] OTHER -> IF store[o].phase = "deleting" \/ store[o].name = n
                    THEN "admitted" ELSE "lock"

Begin(r, op, o, n, dry) ==
    req' = [req EXCEPT ![r] =
              [step |-> FirstStep(op, o, n), op |-> op, obj |-> o,
               old |-> store[o].name, new |-> n, stale |-> FALSE, dry |-> dry]]

Submit(r, op, o, n, dry) ==
    /\ ~Active(r)
    /\ "parallel" \notin Env => \A q \in Requests : req[q].obj # o
    /\ Begin(r, op, o, n, dry)
    /\ UNCHANGED <<lease, store>>

SubmitCreate(r, o, n, dry) ==
    /\ store[o] = NoObject
    /\ Submit(r, "create", o, n, dry)

SubmitUpdate(r, o, n, dry) ==
    /\ store[o] # NoObject
    /\ store[o].name # n
    /\ Submit(r, "update", o, n, dry)

SubmitDelete(r, o, dry) ==
    /\ store[o].phase = "live" \/ (store[o].phase = "deleting" /\ "redelete" \in Env)
    /\ Submit(r, "delete", o, None, dry)

\* A write makes the other requests for the object conflict.
MarkStale(o, rq) ==
    [q \in Requests |-> IF rq[q].obj = o THEN [rq[q] EXCEPT !.stale = TRUE]
                                         ELSE rq[q]]

Written(r) ==
    CASE req[r].op = "create" -> [phase |-> "live", name |-> req[r].new]
      [] req[r].op = "update" -> [store[req[r].obj] EXCEPT !.name = req[r].new]
      [] req[r].op = "delete" -> [store[req[r].obj] EXCEPT !.phase = "deleting"]

Persist(r) ==
    /\ At(r, "admitted")
    /\ ~req[r].stale
    /\ IF req[r].dry
         THEN req' = [req EXCEPT ![r] = Idle] /\ UNCHANGED store
         ELSE /\ store' = [store EXCEPT ![req[r].obj] = Written(r)]
              /\ req' = [MarkStale(req[r].obj, req) EXCEPT ![r] = Idle]
    /\ UNCHANGED lease

\* The object changed since it was read: the API server runs the admission
\* again on the new version, or fails when the object came or went.
Conflict(r) ==
    /\ At(r, "admitted")
    /\ req[r].stale
    /\ IF (store[req[r].obj] = NoObject) = (req[r].op = "create")
         THEN Begin(r, req[r].op, req[r].obj, req[r].new, req[r].dry)
         ELSE Reject(r)
    /\ UNCHANGED <<lease, store>>

\* The write of an admitted request fails, or the admission reply is lost.
Abandon(r) ==
    /\ At(r, "admitted")
    /\ (IF req[r].op = "create" THEN "abandonCreate" ELSE "abandon") \in Env
    /\ Reject(r)
    /\ UNCHANGED <<lease, store>>

\* The webhook dies or times out (failurePolicy: Fail) between two calls.
Crash(r) ==
    /\ Active(r)
    /\ ~At(r, "admitted")
    /\ "crash" \in Env
    /\ Reject(r)
    /\ UNCHANGED <<lease, store>>

\* Another client changes the object and keeps its name.
Touch(o) ==
    /\ "touch" \in Env
    /\ store[o] # NoObject
    /\ req' = MarkStale(o, req)
    /\ UNCHANGED <<lease, store>>

\* The controller removes the finalizer and the object is gone.
RemoveFinalizer(o) ==
    /\ store[o].phase = "deleting"
    /\ "parallel" \notin Env => \A q \in Requests : req[q].obj # o
    /\ store' = [store EXCEPT ![o] = NoObject]
    /\ req' = MarkStale(o, req)
    /\ UNCHANGED lease

Next ==
    \/ \E r \in Requests, o \in Objects, dry \in DryRuns :
          \/ \E n \in Names : SubmitCreate(r, o, n, dry) \/ SubmitUpdate(r, o, n, dry)
          \/ SubmitDelete(r, o, dry)
    \/ \E r \in Requests :
          Webhook(r) \/ Persist(r) \/ Conflict(r) \/ Abandon(r) \/ Crash(r)
    \/ \E o \in Objects : Touch(o) \/ RemoveFinalizer(o)

Spec == Init /\ [][Next]_vars

\* The webhook server and the API server keep working on a request.
FairSpec == Spec /\ \A r \in Requests : WF_vars(Webhook(r) \/ Persist(r) \/ Conflict(r))

-----------------------------------------------------------------------------
(* Properties.                                                             *)

\* Leases, objects and requests keep their types: no lease exists without an
\* owner, whatever is retried or fails.
TypeOK ==
    /\ lease \in [Names -> Lease]
    /\ store \in [Objects -> Object]
    /\ req \in [Requests -> Request]

\* o owns the claim on n.
Holds(o, n) == lease[n].owner = o

\* An admitted rename or delete of o has not reached etcd yet.
PendingWrite(o) ==
    \E r \in Requests :
       req[r].obj = o /\ At(r, "admitted") /\ req[r].op # "create" /\ ~req[r].dry

\* Two live objects never carry the same unique name, except in the window in
\* which one of them has been admitted to give the name up and the write has
\* not happened yet.  This is what the webhooks of apps, routes, orgs, spaces,
\* brokers, service instances and bindings use the registry for.
UniqueNames ==
    \A o, p \in Objects :
       /\ o # p
       /\ store[o].phase = "live"
       /\ store[p].phase = "live"
       /\ store[o].name = store[p].name
       => PendingWrite(o) \/ PendingWrite(p)

\* Two live objects with no request in flight never carry the same name.
UniqueNamesAtRest ==
    \A o, p \in Objects :
       /\ o # p
       /\ store[o].phase = "live"
       /\ store[p].phase = "live"
       /\ \A r \in Requests : req[r].obj \notin {o, p}
       => store[o].name # store[p].name

\* A claim disappears only on behalf of its owner: no request for another
\* object, denied or admitted, ever frees a name (DeregisterName itself does
\* not look at the owner annotations of the lease).
LeaseRemovedByOwner ==
    [][\A n \in Names :
          lease[n] # NoLease /\ lease'[n] = NoLease
          => \E r \in Requests :
                /\ req[r].obj = lease[n].owner
                /\ req[r].op # "create"
                /\ ~req[r].dry]_vars

\* The name an object shows: terminating objects show none.
ShownName(o) == IF store[o].phase = "live" THEN store[o].name ELSE None

Leaving(o) == ShownName(o) # None /\ PendingWrite(o)

\* Leases and objects as NameService has them: locks, requests, dry runs and
\* crashes of the webhook do not show.
Service ==
    INSTANCE NameService WITH
        claim <- [n \in Names |-> lease[n].owner],
        shown <- [o \in Objects |-> ShownName(o)],
        leaving <- {o \in Objects : Leaving(o)}

\* With safe faults only, the webhooks serve names as NameService does: a
\* claim is made on a free name, never passes to another object, and ends only
\* when its owner is admitted to give up the very name it shows; and no write
\* of the API server shows a name its object has not claimed.
ServesNames == Service!Spec

\* A name is leaked when it is claimed for an object that neither carries it
\* nor is asking for it: its create was admitted and never written, or its
\* rename failed to deregister it.
Leaked(n) ==
    /\ lease[n] # NoLease
    /\ store[lease[n].owner].name # n
    /\ \A r \in Requests : req[r].obj = lease[n].owner => req[r].new # n

\* A leaked name is never given out again, as the comment in
\* DuplicateValidator.ValidateUpdate says ("It will remain claimed until an
\* operator intervenes"): no sequence of later requests frees or reuses it.
LeakedClaimStays ==
    \A n \in Names : [](Leaked(n) => [](lease[n] # NoLease))

\* When the write of an admitted rename is retried after a conflict, the
\* claim that the first attempt moved is recognised: a live object that does
\* not hold the claim on its stored name holds the one on the name it is
\* being renamed to, and the rename is still under way.
RetryKeepsClaim ==
    \A o \in Objects :
       store[o].phase = "live" /\ ~Holds(o, store[o].name)
       => \E r \in Requests :
             /\ req[r].obj = o
             /\ req[r].op # "update" \/ Holds(o, req[r].new)

\* With no crash and no failing call every lock on a name is released: a
\* rename either removes the locked lease or unlocks it.
LockReleased ==
    \A n \in Names : lease[n].holder = "locked" ~> lease[n].holder # "locked"
=============================================================================
