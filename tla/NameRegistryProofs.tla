------------------------- MODULE NameRegistryProofs -------------------------
(***************************************************************************)
(* Proofs about NameRegistry, for every set of objects, names and request  *)
(* slots.  TypeCorrect needs no assumption on the environment; uniqueness  *)
(* is proved for the environments that only have safe faults, and that     *)
(* retries keep their claim for a single object.                           *)
(***************************************************************************)
EXTENDS NameRegistry, TLAPS

\* What a request remembers agrees with etcd until it is marked stale.
RequestOK(r) ==
    req[r] # Idle =>
       /\ req[r].op # "delete" => req[r].new \in Names
       /\ ~req[r].stale => (store[req[r].obj] = NoObject <=> req[r].op = "create")

TypeInv == TypeOK /\ \A r \in Requests : RequestOK(r)

\* An idle slot is told apart from a request by its step and its object.
LEMMA IdleNotRequest ==
    ASSUME TypeOK, NEW r \in Requests
    PROVE  /\ req[r].step # "idle" => req[r] # Idle
           /\ req[r] # Idle => req[r].obj \in Objects
           /\ req[r].obj \in Objects => req[r] # Idle
BY NoneAssumption DEF TypeOK, Request, Idle

\* Marking requests stale keeps their types and what they remember.
LEMMA MarkStaleType ==
    ASSUME TypeOK, NEW o \in Objects
    PROVE  /\ MarkStale(o, req) \in [Requests -> Request]
           /\ \A q \in Requests :
                /\ MarkStale(o, req)[q] = Idle <=> req[q] = Idle
                /\ MarkStale(o, req)[q].op = req[q].op
                /\ MarkStale(o, req)[q].obj = req[q].obj
                /\ MarkStale(o, req)[q].new = req[q].new
                /\ req[q].obj = o => MarkStale(o, req)[q].stale
                /\ req[q].obj # o => MarkStale(o, req)[q] = req[q]
<1>1. SUFFICES ASSUME NEW q \in Requests
               PROVE  /\ MarkStale(o, req)[q] \in Request
                      /\ MarkStale(o, req)[q] = Idle <=> req[q] = Idle
                      /\ MarkStale(o, req)[q].op = req[q].op
                      /\ MarkStale(o, req)[q].obj = req[q].obj
                      /\ MarkStale(o, req)[q].new = req[q].new
                      /\ req[q].obj = o => MarkStale(o, req)[q].stale
                      /\ req[q].obj # o => MarkStale(o, req)[q] = req[q]
  BY DEF MarkStale
<1>2. req[q] \in Request
  BY DEF TypeOK
<1>3. CASE req[q].obj = o
  <2>1. req[q] # Idle
    BY <1>3, NoneAssumption DEF Idle
  <2>2. MarkStale(o, req)[q] = [req[q] EXCEPT !.stale = TRUE]
    BY <1>3 DEF MarkStale
  <2>3. req[q] \in [step : Steps, op : {"create", "update", "delete"},
                    obj : Objects, old : Names \cup {None},
                    new : Names \cup {None}, stale : BOOLEAN, dry : BOOLEAN]
    BY <1>2, <2>1 DEF Request
  <2>4. /\ [req[q] EXCEPT !.stale = TRUE] \in Request
        /\ [req[q] EXCEPT !.stale = TRUE].op = req[q].op
        /\ [req[q] EXCEPT !.stale = TRUE].obj = req[q].obj
        /\ [req[q] EXCEPT !.stale = TRUE].new = req[q].new
        /\ [req[q] EXCEPT !.stale = TRUE].stale
    BY <2>3 DEF Request
  <2>5. MarkStale(o, req)[q] # Idle
    BY <2>2, <2>4 DEF Idle
  <2> QED
    BY <1>3, <2>1, <2>2, <2>4, <2>5
<1>4. CASE req[q].obj # o
  BY <1>2, <1>4 DEF MarkStale
<1> QED
  BY <1>3, <1>4

\* The initial state is well typed.
LEMMA InitType == Init => TypeInv
BY DEF Init, TypeInv, TypeOK, RequestOK, Lease, Object, Request

\* The registry keeps the leases well formed.
LEMMA RegistryType ==
    ASSUME TypeOK, NEW n, NEW o \in Objects, NEW dry, NEW out,
           \/ RegisterName(n, o, dry, out)
           \/ DeregisterName(n, dry, out)
           \/ TryLockName(n, dry, out)
           \/ UnlockName(n, dry, out)
           \/ CheckNameOwnership(n, o, out)
    PROVE  lease' \in [Names -> Lease]
<1>1. CASE RegisterName(n, o, dry, out)
  BY <1>1 DEF TypeOK, RegisterName, CallFails, Lease, NoLease
<1>2. CASE DeregisterName(n, dry, out)
  BY <1>2 DEF TypeOK, DeregisterName, CallFails, Lease, NoLease
<1>3. CASE TryLockName(n, dry, out)
  BY <1>3 DEF TypeOK, TryLockName, CallFails, Lease, NoLease
<1>4. CASE UnlockName(n, dry, out)
  BY <1>4 DEF TypeOK, UnlockName, CallFails, Lease, NoLease
<1>5. CASE CheckNameOwnership(n, o, out)
  BY <1>5 DEF TypeOK, CheckNameOwnership
<1> QED
  BY <1>1, <1>2, <1>3, <1>4, <1>5

\* GoTo and Reject keep the requests well formed.
LEMMA GoToType ==
    ASSUME TypeOK, NEW r \in Requests, req[r] # Idle, NEW step \in Steps,
           GoTo(r, step)
    PROVE  /\ req' \in [Requests -> Request]
           /\ req'[r] # Idle
           /\ req'[r].step = step
           /\ req'[r].op = req[r].op
           /\ req'[r].obj = req[r].obj
           /\ req'[r].old = req[r].old
           /\ req'[r].new = req[r].new
           /\ req'[r].stale = req[r].stale
           /\ req'[r].dry = req[r].dry
           /\ \A q \in Requests \ {r} : req'[q] = req[q]
<1>1. req[r] \in [step : Steps, op : {"create", "update", "delete"},
                  obj : Objects, old : Names \cup {None},
                  new : Names \cup {None}, stale : BOOLEAN, dry : BOOLEAN]
  BY DEF TypeOK, Request
<1>2. req' = [req EXCEPT ![r] = [req[r] EXCEPT !.step = step]]
  BY DEF GoTo
<1>3. [req[r] EXCEPT !.step = step] \in Request
  BY <1>1 DEF Request
<1>4. req'[r] = [req[r] EXCEPT !.step = step]
  BY <1>2 DEF TypeOK
<1>5. req'[r] # Idle
  BY <1>1, <1>4 DEF Idle, Steps
<1> QED
  BY <1>1, <1>2, <1>3, <1>4, <1>5 DEF TypeOK

\* A denied request gives its slot back and touches no other.
LEMMA RejectType ==
    ASSUME TypeOK, NEW r \in Requests, Reject(r)
    PROVE  /\ req' \in [Requests -> Request]
           /\ req'[r] = Idle
           /\ \A q \in Requests \ {r} : req'[q] = req[q]
BY DEF TypeOK, Reject, Request

\* The admission of a request begins with what etcd has of its object.
LEMMA BeginType ==
    ASSUME TypeOK, NEW r \in Requests, NEW op \in {"create", "update", "delete"},
           NEW o \in Objects, NEW n \in Names \cup {None}, NEW dry \in BOOLEAN,
           Begin(r, op, o, n, dry)
    PROVE  /\ req' \in [Requests -> Request]
           /\ req'[r] = [step |-> FirstStep(op, o, n), op |-> op, obj |-> o,
                         old |-> store[o].name, new |-> n,
                         stale |-> FALSE, dry |-> dry]
           /\ req'[r] # Idle
           /\ \A q \in Requests \ {r} : req'[q] = req[q]
<1>1. FirstStep(op, o, n) \in Steps
  BY DEF FirstStep, Steps
<1>2. store[o].name \in Names \cup {None}
  BY DEF TypeOK, Object, NoObject
<1> QED
  BY <1>1, <1>2 DEF Begin, TypeOK, Request, Idle, Steps

\* A step of the webhook moves or ends its own request and leaves etcd alone.
LEMMA WebhookType ==
    ASSUME TypeOK, NEW r \in Requests, Webhook(r)
    PROVE  /\ req[r] # Idle
           /\ UNCHANGED store
           /\ lease' \in [Names -> Lease]
           /\ (\E step \in Steps : GoTo(r, step)) \/ Reject(r)
<1>0. req[r] # Idle => req[r].obj \in Objects
  BY IdleNotRequest
<1>1. CASE ValidateCreate(r)
  <2>1. req[r] # Idle
    BY <1>1 DEF ValidateCreate, At, Idle
  <2> QED
    BY <1>0, <1>1, <2>1, RegistryType DEF ValidateCreate, Steps
<1>2. CASE LockOldName(r)
  <2>1. req[r] # Idle
    BY <1>2 DEF LockOldName, At, Idle
  <2> QED
    BY <1>0, <1>2, <2>1, RegistryType DEF LockOldName, Steps
<1>3. CASE CheckNewNameOwner(r)
  <2>1. req[r] # Idle
    BY <1>3 DEF CheckNewNameOwner, At, Idle
  <2> QED
    BY <1>0, <1>3, <2>1, RegistryType DEF CheckNewNameOwner, Steps
<1>4. CASE RegisterNewName(r)
  <2>1. req[r] # Idle
    BY <1>4 DEF RegisterNewName, At, Idle
  <2> QED
    BY <1>0, <1>4, <2>1, RegistryType DEF RegisterNewName, Steps
<1>5. CASE UnlockOldName(r)
  <2>1. req[r] # Idle
    BY <1>5 DEF UnlockOldName, At, Idle
  <2> QED
    BY <1>0, <1>5, <2>1, RegistryType DEF UnlockOldName, Steps
<1>6. CASE DeregisterOldName(r)
  <2>1. req[r] # Idle
    BY <1>6 DEF DeregisterOldName, At, Idle
  <2> QED
    BY <1>0, <1>6, <2>1, RegistryType DEF DeregisterOldName, Steps
<1>7. CASE ValidateDelete(r)
  <2>1. req[r] # Idle
    BY <1>7 DEF ValidateDelete, At, Idle
  <2> QED
    BY <1>0, <1>7, <2>1, RegistryType DEF ValidateDelete, Steps
<1> QED
  BY <1>1, <1>2, <1>3, <1>4, <1>5, <1>6, <1>7 DEF Webhook

\* Every step keeps the type invariant, whatever the environment does.
LEMMA NextType == TypeInv /\ [Next]_vars => TypeInv'
<1> SUFFICES ASSUME TypeInv, [Next]_vars
             PROVE  TypeInv'
  OBVIOUS
<1>0. TypeOK /\ \A r \in Requests : RequestOK(r)
  BY DEF TypeInv
<1>1. ASSUME NEW r \in Requests, NEW o \in Objects, NEW dry \in DryRuns,
             NEW op \in {"create", "update", "delete"}, NEW n \in Names \cup {None},
             op # "delete" => n \in Names,
             store[o] = NoObject <=> op = "create",
             Submit(r, op, o, n, dry)
      PROVE  TypeInv'
  <2>1. dry \in BOOLEAN
    BY DryRunsAssumption
  <2>2. /\ req' \in [Requests -> Request]
        /\ req'[r] = [step |-> FirstStep(op, o, n), op |-> op, obj |-> o,
                      old |-> store[o].name, new |-> n,
                      stale |-> FALSE, dry |-> dry]
        /\ \A q \in Requests \ {r} : req'[q] = req[q]
        /\ UNCHANGED <<lease, store>>
    BY <1>0, <1>1, <2>1, BeginType DEF Submit
  <2> QED
    BY <1>0, <1>1, <2>2 DEF TypeInv, TypeOK, RequestOK
<1>2. ASSUME NEW r \in Requests, NEW o \in Objects, NEW dry \in DryRuns,
             NEW n \in Names, SubmitCreate(r, o, n, dry)
      PROVE  TypeInv'
  BY <1>1, <1>2 DEF SubmitCreate
<1>3. ASSUME NEW r \in Requests, NEW o \in Objects, NEW dry \in DryRuns,
             NEW n \in Names, SubmitUpdate(r, o, n, dry)
      PROVE  TypeInv'
  BY <1>1, <1>3 DEF SubmitUpdate
<1>4. ASSUME NEW r \in Requests, NEW o \in Objects, NEW dry \in DryRuns,
             SubmitDelete(r, o, dry)
      PROVE  TypeInv'
  <2>1. store[o] # NoObject
    BY <1>4 DEF SubmitDelete, NoObject
  <2> QED
    BY <1>1, <1>4, <2>1 DEF SubmitDelete
<1>5. ASSUME NEW r \in Requests, Webhook(r)
      PROVE  TypeInv'
  <2>1. /\ req[r] # Idle
        /\ UNCHANGED store
        /\ lease' \in [Names -> Lease]
    BY <1>0, <1>5, WebhookType
  <2>2. CASE Reject(r)
    BY <1>0, <2>1, <2>2, RejectType DEF TypeInv, TypeOK, RequestOK
  <2>3. ASSUME NEW step \in Steps, GoTo(r, step)
        PROVE  TypeInv'
    <3>1. /\ req' \in [Requests -> Request]
          /\ req'[r] # Idle
          /\ req'[r].op = req[r].op
          /\ req'[r].obj = req[r].obj
          /\ req'[r].new = req[r].new
          /\ req'[r].stale = req[r].stale
          /\ \A q \in Requests \ {r} : req'[q] = req[q]
      BY <1>0, <2>1, <2>3, GoToType
    <3> QED
      BY <1>0, <2>1, <3>1 DEF TypeInv, TypeOK, RequestOK
  <2> QED
    BY <1>0, <1>5, <2>2, <2>3, WebhookType
<1>6. ASSUME NEW r \in Requests, Persist(r)
      PROVE  TypeInv'
  <2>1. req[r] # Idle /\ req[r].obj \in Objects /\ ~req[r].stale
    BY <1>0, <1>6, IdleNotRequest DEF Persist, At, Idle
  <2>2. CASE req[r].dry
    BY <1>0, <1>6, <2>2 DEF Persist, TypeInv, TypeOK, RequestOK, Request
  <2>3. CASE ~req[r].dry
    <3> DEFINE o == req[r].obj
    <3>1. /\ store' = [store EXCEPT ![o] = Written(r)]
          /\ req' = [MarkStale(o, req) EXCEPT ![r] = Idle]
          /\ UNCHANGED lease
      BY <1>6, <2>3 DEF Persist
    <3>2. /\ req[r].op \in {"create", "update", "delete"}
          /\ req[r].op # "delete" => req[r].new \in Names
          /\ req[r].op # "create" => store[o] # NoObject
      BY <1>0, <2>1 DEF TypeOK, Request, RequestOK
    <3>3. Written(r) \in Object /\ Written(r) # NoObject
      BY <1>0, <2>1, <3>2 DEF Written, TypeOK, Object, NoObject
    <3>4. /\ req' \in [Requests -> Request]
          /\ req'[r] = Idle
          /\ \A q \in Requests \ {r} : req'[q] = MarkStale(o, req)[q]
      BY <1>0, <2>1, <3>1, MarkStaleType DEF Request
    <3>5. ASSUME NEW q \in Requests
          PROVE  RequestOK(q)'
      <4>1. CASE q = r
        BY <3>4, <4>1 DEF RequestOK
      <4>2. CASE q # r /\ req[q].obj = o
        BY <1>0, <2>1, <3>4, <4>2, MarkStaleType DEF RequestOK
      <4>3. CASE q # r /\ req[q].obj # o
        BY <1>0, <2>1, <3>1, <3>4, <4>3, MarkStaleType, IdleNotRequest DEF RequestOK, TypeOK
      <4> QED
        BY <4>1, <4>2, <4>3
    <3> QED
      BY <1>0, <2>1, <3>1, <3>3, <3>4, <3>5 DEF TypeInv, TypeOK
  <2> QED
    BY <2>2, <2>3
<1>7. ASSUME NEW r \in Requests, Conflict(r)
      PROVE  TypeInv'
  <2>1. /\ req[r] # Idle
        /\ req[r].obj \in Objects
        /\ req[r].op \in {"create", "update", "delete"}
        /\ req[r].new \in Names \cup {None}
        /\ req[r].op # "delete" => req[r].new \in Names
        /\ req[r].dry \in BOOLEAN
    <3>1. req[r] # Idle
      BY <1>7 DEF Conflict, At, Idle
    <3> QED
      BY <1>0, <3>1 DEF TypeOK, Request, RequestOK
  <2>2. CASE Reject(r)
    BY <1>0, <1>7, <2>2, RejectType DEF Conflict, TypeInv, TypeOK, RequestOK
  <2>3. CASE ~Reject(r)
    <3>1. /\ (store[req[r].obj] = NoObject) = (req[r].op = "create")
          /\ Begin(r, req[r].op, req[r].obj, req[r].new, req[r].dry)
          /\ UNCHANGED <<lease, store>>
      BY <1>7, <2>3 DEF Conflict
    <3>2. /\ req' \in [Requests -> Request]
          /\ req'[r].op = req[r].op
          /\ req'[r].obj = req[r].obj
          /\ req'[r].new = req[r].new
          /\ \A q \in Requests \ {r} : req'[q] = req[q]
      <4>1. PICK op \in {"create", "update", "delete"}, o \in Objects,
                 n \in Names \cup {None}, dry \in BOOLEAN :
               op = req[r].op /\ o = req[r].obj /\ n = req[r].new /\ dry = req[r].dry
        BY <2>1
      <4>2. Begin(r, op, o, n, dry)
        BY <3>1, <4>1
      <4>3. /\ req' \in [Requests -> Request]
            /\ req'[r] = [step |-> FirstStep(op, o, n), op |-> op, obj |-> o,
                          old |-> store[o].name, new |-> n,
                          stale |-> FALSE, dry |-> dry]
            /\ \A q \in Requests \ {r} : req'[q] = req[q]
        BY <1>0, <4>2, BeginType
      <4> QED
        BY <4>1, <4>3
    <3> QED
      BY <1>0, <2>1, <3>1, <3>2 DEF TypeInv, TypeOK, RequestOK
  <2> QED
    BY <2>2, <2>3
<1>8. ASSUME NEW r \in Requests, Abandon(r) \/ Crash(r)
      PROVE  TypeInv'
  BY <1>0, <1>8, RejectType DEF Abandon, Crash, TypeInv, TypeOK, RequestOK
<1>9. ASSUME NEW o \in Objects, Touch(o) \/ RemoveFinalizer(o)
      PROVE  TypeInv'
  <2>1. /\ req' = MarkStale(o, req)
        /\ UNCHANGED lease
        /\ store' \in [Objects -> Object]
        /\ \A p \in Objects \ {o} : store'[p] = store[p]
    BY <1>0, <1>9 DEF Touch, RemoveFinalizer, TypeOK, Object
  <2>2. ASSUME NEW q \in Requests
        PROVE  RequestOK(q)'
    <3>1. CASE req[q].obj = o
      BY <1>0, <2>1, <3>1, MarkStaleType DEF RequestOK
    <3>2. CASE req[q].obj # o
      BY <1>0, <2>1, <3>2, MarkStaleType, IdleNotRequest DEF RequestOK
    <3> QED
      BY <3>1, <3>2
  <2> QED
    BY <1>0, <2>1, <2>2, MarkStaleType DEF TypeInv, TypeOK
<1>10. CASE UNCHANGED vars
  BY <1>0, <1>10 DEF vars, TypeInv, TypeOK, RequestOK
<1> QED
  BY <1>2, <1>3, <1>4, <1>5, <1>6, <1>7, <1>8, <1>9, <1>10 DEF Next

\* Leases, objects and requests keep their types under every environment; in
\* particular an admitted update or delete is never written over an object
\* that is gone, because the API server sees the conflict first.
THEOREM TypeCorrect == Spec => []TypeOK
<1>1. TypeInv => TypeOK
  BY DEF TypeInv
<1> QED
  BY <1>1, InitType, NextType, PTL DEF Spec

-----------------------------------------------------------------------------
(* Uniqueness.  With only safe faults there is one request per object at a *)
(* time and no request is ever stale, so what a request has claimed or     *)
(* released so far can be read off its step.                               *)

Serial == \A q, r \in Requests : req[q] # Idle /\ req[q].obj = req[r].obj => q = r

\* What a request in flight holds.
SafeRequest(r) ==
    req[r] # Idle =>
       /\ ~req[r].stale
       /\ req[r].op = "create" =>
             /\ req[r].step \in {"register", "admitted"}
             /\ req[r].step = "admitted" /\ ~req[r].dry
                  => Holds(req[r].obj, req[r].new)
       /\ req[r].op = "update" =>
             /\ req[r].step \in {"lock", "registerNew", "unlock",
                                 "deregisterOld", "admitted"}
             /\ req[r].old = store[req[r].obj].name
             /\ req[r].step # "admitted" =>
                   store[req[r].obj].phase = "live" /\ req[r].new # req[r].old
             /\ /\ req[r].step \in {"deregisterOld", "admitted"}
                /\ store[req[r].obj].phase = "live"
                /\ ~req[r].dry
                => Holds(req[r].obj, req[r].new)
       /\ req[r].op = "delete" =>
             /\ req[r].step \in {"deregister", "admitted"}
             /\ req[r].old = store[req[r].obj].name
             /\ store[req[r].obj].phase = "live"

\* A live object holds the claim on its name until it is admitted to give it up.
LiveHolds(o) ==
    store[o].phase = "live" => Holds(o, store[o].name) \/ PendingWrite(o)

SafeInv ==
    /\ TypeInv
    /\ Serial
    /\ \A r \in Requests : SafeRequest(r)
    /\ \A o \in Objects : LiveHolds(o)

\* The safety invariant holds before the first request.
LEMMA InitSafe == Init => SafeInv
<1> SUFFICES ASSUME Init PROVE SafeInv
  OBVIOUS
<1>1. TypeInv
  BY InitType
<1> QED
  BY <1>1 DEF Init, SafeInv, Serial, SafeRequest, LiveHolds, NoObject

\* Claims are never transferred: registering, locking, unlocking and checking
\* a name keep every owner, and deregistering frees only the name it is given.
LEMMA OwnersKept ==
    ASSUME TypeOK, NEW n \in Names, NEW o \in Objects, NEW dry, NEW out
    PROVE  /\ \/ RegisterName(n, o, dry, out)
              \/ TryLockName(n, dry, out)
              \/ UnlockName(n, dry, out)
              => \A p \in Objects, m \in Names : Holds(p, m) => Holds(p, m)'
           /\ DeregisterName(n, dry, out)
              => \A m \in Names : dry \/ m # n => lease'[m] = lease[m]
           /\ RegisterName(n, o, dry, out) /\ out = "ok" /\ ~dry => Holds(o, n)'
<1>1. RegisterName(n, o, dry, out)
      => \A p \in Objects, m \in Names : Holds(p, m) => Holds(p, m)'
  BY NoneAssumption DEF TypeOK, RegisterName, CallFails, Holds, NoLease
<1>2. TryLockName(n, dry, out)
      => \A p \in Objects, m \in Names : Holds(p, m) => Holds(p, m)'
  BY NoneAssumption DEF TypeOK, TryLockName, CallFails, Holds, Lease, NoLease
<1>3. UnlockName(n, dry, out)
      => \A p \in Objects, m \in Names : Holds(p, m) => Holds(p, m)'
  BY NoneAssumption DEF TypeOK, UnlockName, CallFails, Holds, Lease, NoLease
<1>4. DeregisterName(n, dry, out)
      => \A m \in Names : dry \/ m # n => lease'[m] = lease[m]
  BY DEF TypeOK, DeregisterName, CallFails
<1>5. RegisterName(n, o, dry, out) /\ out = "ok" /\ ~dry => Holds(o, n)'
  BY DEF TypeOK, RegisterName, CallFails, Holds
<1> QED
  BY <1>1, <1>2, <1>3, <1>4, <1>5

\* A step of request r disturbs nothing else when it keeps the claims of the
\* other objects.
LEMMA Frame ==
    ASSUME SafeInv, TypeInv', NEW r \in Requests, req[r] # Idle,
           NEW o \in Objects, req[r].obj = o,
           \A p \in Objects \ {o} : store'[p] = store[p],
           \A q \in Requests \ {r} : req'[q] = req[q],
           req'[r] = Idle \/ req'[r].obj = o,
           \A p \in Objects \ {o}, m \in Names : Holds(p, m) => Holds(p, m)',
           SafeRequest(r)',
           LiveHolds(o)'
    PROVE  SafeInv'
<1>0. TypeOK /\ TypeOK' /\ \A q \in Requests : RequestOK(q)
  BY DEF SafeInv, TypeInv
<1>1. \A q \in Requests \ {r} : req[q] # Idle => req[q].obj \in Objects \ {o}
  BY <1>0, IdleNotRequest DEF SafeInv, Serial
<1>2. Serial'
  <2> SUFFICES ASSUME NEW q \in Requests, NEW s \in Requests,
                      req'[q] # Idle, req'[q].obj = req'[s].obj
               PROVE  q = s
    BY DEF Serial
  <2>1. req'[q].obj \in Objects
    BY <1>0, <1>1
  <2>2. req'[s] # Idle
    BY <2>1, NoneAssumption DEF Idle
  <2> QED
    BY <1>1, <2>1, <2>2 DEF SafeInv, Serial
<1>3. ASSUME NEW q \in Requests \ {r}
      PROVE  SafeRequest(q)'
  <2>1. CASE req[q] = Idle
    BY <2>1 DEF SafeRequest
  <2>2. CASE req[q] # Idle
    <3>1. SafeRequest(q) /\ RequestOK(q) /\ req[q] \in Request
      BY <1>0 DEF SafeInv, TypeOK
    <3>2. req[q].op \in {"create", "update"} =>
             (Holds(req[q].obj, req[q].new) => Holds(req[q].obj, req[q].new)')
      BY <1>1, <2>2, <3>1 DEF RequestOK
    <3>3. req'[q] = req[q] /\ store'[req[q].obj] = store[req[q].obj]
      BY <1>1, <2>2
    <3>4. req[q].op \in {"create", "update", "delete"}
      BY <2>2, <3>1 DEF Request
    <3> QED
      BY <2>2, <3>1, <3>2, <3>3, <3>4 DEF SafeRequest, Holds
  <2> QED
    BY <2>1, <2>2
<1>4. ASSUME NEW p \in Objects \ {o}
      PROVE  LiveHolds(p)'
  <2>1. LiveHolds(p)
    BY DEF SafeInv
  <2>2. PendingWrite(p) => PendingWrite(p)'
    BY <1>1, <1>0, IdleNotRequest DEF PendingWrite, At
  <2>3. store[p].phase = "live" => store[p].name \in Names
    BY <1>0 DEF TypeOK, Object, NoObject
  <2> QED
    BY <2>1, <2>2, <2>3 DEF LiveHolds
<1> QED
  BY <1>2, <1>3, <1>4, <1>0 DEF SafeInv

\* The only request on an object has not released the object's name yet.
LEMMA StillHeld ==
    ASSUME SafeInv, NEW r \in Requests, req[r] # Idle,
           NEW o \in Objects, req[r].obj = o,
           req[r].step # "admitted" \/ req[r].op = "create" \/ req[r].dry,
           store[o].phase = "live"
    PROVE  Holds(o, store[o].name)
<1>1. ~PendingWrite(o)
  BY DEF SafeInv, Serial, PendingWrite, At
<1> QED
  BY <1>1 DEF SafeInv, LiveHolds

\* A denied request that has released no name leaves a safe state behind.
LEMMA RejectSafe ==
    ASSUME SafeInv, TypeInv', NEW r \in Requests, req[r] # Idle,
           req[r].step # "admitted" \/ req[r].op = "create" \/ req[r].dry,
           Reject(r), UNCHANGED store,
           \A p \in Objects, m \in Names : Holds(p, m) => Holds(p, m)'
    PROVE  SafeInv'
<1>0. TypeOK
  BY DEF SafeInv, TypeInv
<1>1. PICK o \in Objects : req[r].obj = o
  BY <1>0, IdleNotRequest
<1>2. req'[r] = Idle /\ \A q \in Requests \ {r} : req'[q] = req[q]
  BY <1>0, RejectType
<1>3. SafeRequest(r)'
  BY <1>2 DEF SafeRequest
<1>4. LiveHolds(o)'
  <2>1. store[o].phase = "live" => store[o].name \in Names
    BY <1>0 DEF TypeOK, Object, NoObject
  <2> QED
    BY <1>1, <2>1, StillHeld DEF LiveHolds
<1> QED
  BY <1>1, <1>2, <1>3, <1>4, Frame

\* One step of the webhook.
LEMMA WebhookSafe ==
    ASSUME SafeInv, TypeInv', NEW r \in Requests, Webhook(r)
    PROVE  SafeInv'
<1>0. TypeOK /\ RequestOK(r) /\ SafeRequest(r)
  BY DEF SafeInv, TypeInv
<1>1. req[r] # Idle /\ UNCHANGED store
  BY <1>0, WebhookType
<1>2. PICK o \in Objects : req[r].obj = o
  BY <1>0, <1>1, IdleNotRequest
<1>3. PICK old \in Names \cup {None}, new \in Names \cup {None} :
         old = req[r].old /\ new = req[r].new
  BY <1>0, <1>1 DEF TypeOK, Request
<1>4. req[r].op \in {"create", "update", "delete"} /\ req[r].dry \in BOOLEAN
  BY <1>0, <1>1 DEF TypeOK, Request
<1>5. store[o].phase = "live" => store[o].name \in Names
  BY <1>0 DEF TypeOK, Object, NoObject
<1>6. ASSUME NEW step \in Steps, GoTo(r, step)
      PROVE  /\ req'[r] # Idle
             /\ req'[r].step = step
             /\ req'[r].op = req[r].op
             /\ req'[r].obj = o
             /\ req'[r].old = old
             /\ req'[r].new = new
             /\ req'[r].stale = req[r].stale
             /\ req'[r].dry = req[r].dry
             /\ \A q \in Requests \ {r} : req'[q] = req[q]
  BY <1>0, <1>1, <1>2, <1>3, <1>6, GoToType
<1>7. CASE ValidateCreate(r)
  <2>1. /\ req[r].op = "create"
        /\ req[r].step = "register"
        /\ new \in Names
        /\ ~req[r].stale
        /\ store[o] = NoObject
    BY <1>0, <1>1, <1>2, <1>3, <1>4, <1>7 DEF ValidateCreate, At, SafeRequest, RequestOK
  <2>2. PICK out \in {"ok", "alreadyExists", "error"} :
           /\ RegisterName(new, o, req[r].dry, out)
           /\ IF out = "ok" THEN GoTo(r, "admitted") ELSE Reject(r)
    BY <1>2, <1>3, <1>7 DEF ValidateCreate
  <2>3. \A p \in Objects, m \in Names : Holds(p, m) => Holds(p, m)'
    BY <1>0, <2>1, <2>2, OwnersKept
  <2>4. CASE Reject(r)
    BY <1>1, <2>1, <2>3, <2>4, RejectSafe
  <2>5. CASE out = "ok" /\ GoTo(r, "admitted")
    <3>1. ~req[r].dry => Holds(o, new)'
      BY <1>0, <2>1, <2>2, <2>5, OwnersKept
    <3>2. SafeRequest(r)'
      BY <1>1, <1>6, <2>1, <2>5, <3>1 DEF SafeRequest, Steps, Holds
    <3>3. LiveHolds(o)'
      BY <1>1, <2>1 DEF LiveHolds, NoObject
    <3> QED
      BY <1>1, <1>2, <1>6, <2>3, <2>5, <3>2, <3>3, Frame DEF Steps
  <2> QED
    BY <2>2, <2>4, <2>5
<1>8. ASSUME req[r].step \in {"lock", "registerNew", "unlock", "deregisterOld"}
      PROVE  /\ req[r].op = "update"
             /\ ~req[r].stale
             /\ old = store[o].name
             /\ old \in Names
             /\ new \in Names
             /\ new # old
             /\ store[o].phase = "live"
             /\ Holds(o, old)
  <2>1. /\ req[r].op = "update"
        /\ ~req[r].stale
        /\ old = store[o].name
        /\ new \in Names
        /\ new # old
        /\ store[o].phase = "live"
    BY <1>0, <1>1, <1>2, <1>3, <1>4, <1>8 DEF SafeRequest, RequestOK
  <2> QED
    BY <1>1, <1>2, <1>5, <1>8, <2>1, StillHeld
<1>9. CASE LockOldName(r)
  <2>1. req[r].step = "lock"
    BY <1>9 DEF LockOldName, At
  <2>2. PICK out \in {"ok", "notFound", "error"} :
           /\ TryLockName(old, req[r].dry, out)
           /\ \/ out = "ok" /\ GoTo(r, "registerNew")
              \/ out = "notFound" /\ GoTo(r, "checkOwner")
              \/ out = "error" /\ Reject(r)
    BY <1>3, <1>9 DEF LockOldName
  <2>3. \A p \in Objects, m \in Names : Holds(p, m) => Holds(p, m)'
    BY <1>0, <1>8, <2>1, <2>2, OwnersKept
  <2>4. out # "notFound"
    BY <1>8, <2>1, <2>2, NoneAssumption DEF TryLockName, CallFails, Holds, NoLease
  <2>5. CASE Reject(r)
    BY <1>1, <2>1, <2>3, <2>5, RejectSafe
  <2>6. CASE GoTo(r, "registerNew")
    <3>1. SafeRequest(r)'
      BY <1>1, <1>6, <1>8, <2>1, <2>6 DEF SafeRequest, Steps
    <3>2. LiveHolds(o)'
      BY <1>1, <1>8, <2>1, <2>3 DEF LiveHolds
    <3> QED
      BY <1>1, <1>2, <1>6, <2>3, <2>6, <3>1, <3>2, Frame DEF Steps
  <2> QED
    BY <2>2, <2>4, <2>5, <2>6
<1>10. CASE CheckNewNameOwner(r)
  BY <1>0, <1>1, <1>4, <1>10 DEF CheckNewNameOwner, At, SafeRequest
<1>11. CASE RegisterNewName(r)
  <2>1. req[r].step = "registerNew"
    BY <1>11 DEF RegisterNewName, At
  <2>2. PICK out \in {"ok", "alreadyExists", "error"} :
           /\ RegisterName(new, o, req[r].dry, out)
           /\ GoTo(r, IF out = "ok" THEN "deregisterOld" ELSE "unlock")
    BY <1>2, <1>3, <1>11 DEF RegisterNewName
  <2>3. \A p \in Objects, m \in Names : Holds(p, m) => Holds(p, m)'
    BY <1>0, <1>8, <2>1, <2>2, OwnersKept
  <2>4. out = "ok" /\ ~req[r].dry => Holds(o, new)'
    BY <1>0, <1>8, <2>1, <2>2, OwnersKept
  <2>5. LiveHolds(o)'
    BY <1>1, <1>8, <2>1, <2>3 DEF LiveHolds
  <2>6. CASE out = "ok" /\ GoTo(r, "deregisterOld")
    <3>1. SafeRequest(r)'
      BY <1>1, <1>6, <1>8, <2>1, <2>4, <2>6 DEF SafeRequest, Steps, Holds
    <3> QED
      BY <1>1, <1>2, <1>6, <2>3, <2>5, <2>6, <3>1, Frame DEF Steps
  <2>7. CASE GoTo(r, "unlock")
    <3>1. SafeRequest(r)'
      BY <1>1, <1>6, <1>8, <2>1, <2>7 DEF SafeRequest, Steps, Holds
    <3> QED
      BY <1>1, <1>2, <1>6, <2>3, <2>5, <2>7, <3>1, Frame DEF Steps
  <2> QED
    BY <2>2, <2>6, <2>7
<1>12. CASE UnlockOldName(r)
  <2>1. req[r].step = "unlock"
    BY <1>12 DEF UnlockOldName, At
  <2>2. PICK out \in {"ok", "error"} : UnlockName(old, req[r].dry, out)
    BY <1>3, <1>12 DEF UnlockOldName
  <2>3. \A p \in Objects, m \in Names : Holds(p, m) => Holds(p, m)'
    BY <1>0, <1>8, <2>1, <2>2, OwnersKept
  <2> QED
    BY <1>1, <1>12, <2>1, <2>3, RejectSafe DEF UnlockOldName
<1>13. CASE DeregisterOldName(r)
  <2>1. req[r].step = "deregisterOld"
    BY <1>13 DEF DeregisterOldName, At
  <2>2. PICK out \in {"ok", "error"} : DeregisterName(old, req[r].dry, out)
    BY <1>3, <1>13 DEF DeregisterOldName
  <2>3. GoTo(r, "admitted")
    BY <1>13 DEF DeregisterOldName
  <2>4. \A m \in Names : req[r].dry \/ m # old => lease'[m] = lease[m]
    BY <1>0, <1>8, <2>1, <2>2, OwnersKept
  <2>5. \A p \in Objects \ {o}, m \in Names : Holds(p, m) => Holds(p, m)'
    BY <1>8, <2>1, <2>4 DEF Holds
  <2>6. ~req[r].dry => Holds(o, new)
    BY <1>0, <1>1, <1>2, <1>3, <1>8, <2>1 DEF SafeRequest
  <2>7. SafeRequest(r)'
    BY <1>1, <1>6, <1>8, <2>1, <2>3, <2>4, <2>6 DEF SafeRequest, Steps, Holds
  <2>8. LiveHolds(o)'
    <3>1. CASE req[r].dry
      BY <1>1, <1>8, <2>1, <2>4, <3>1 DEF LiveHolds, Holds
    <3>2. CASE ~req[r].dry
      BY <1>4, <1>6, <1>8, <2>1, <2>3, <3>2 DEF LiveHolds, PendingWrite, At, Steps
    <3> QED
      BY <3>1, <3>2
  <2> QED
    BY <1>1, <1>2, <1>6, <2>3, <2>5, <2>7, <2>8, Frame DEF Steps
<1>14. CASE ValidateDelete(r)
  <2>1. /\ req[r].step = "deregister"
        /\ req[r].op = "delete"
        /\ ~req[r].stale
        /\ old = store[o].name
        /\ store[o].phase = "live"
    BY <1>0, <1>1, <1>2, <1>3, <1>4, <1>14 DEF ValidateDelete, At, SafeRequest
  <2>2. old \in Names /\ Holds(o, old)
    BY <1>1, <1>2, <1>5, <2>1, StillHeld
  <2>3. PICK out \in {"ok", "error"} :
           /\ DeregisterName(old, req[r].dry, out)
           /\ IF out = "ok" THEN GoTo(r, "admitted") ELSE Reject(r)
    BY <1>3, <1>14 DEF ValidateDelete
  <2>4. \A m \in Names : req[r].dry \/ m # old => lease'[m] = lease[m]
    BY <1>0, <2>2, <2>3, OwnersKept
  <2>5. CASE out # "ok" /\ Reject(r)
    <3>1. UNCHANGED lease
      BY <2>3, <2>5 DEF DeregisterName, CallFails
    <3> QED
      BY <1>1, <2>1, <2>5, <3>1, RejectSafe DEF Holds
  <2>6. CASE GoTo(r, "admitted")
    <3>1. \A p \in Objects \ {o}, m \in Names : Holds(p, m) => Holds(p, m)'
      BY <2>2, <2>4 DEF Holds
    <3>2. SafeRequest(r)'
      BY <1>1, <1>6, <2>1, <2>6 DEF SafeRequest, Steps
    <3>3. CASE req[r].dry
      <4>1. LiveHolds(o)'
        BY <1>1, <2>1, <2>2, <2>4, <3>3 DEF LiveHolds, Holds
      <4> QED
        BY <1>1, <1>2, <1>6, <2>6, <3>1, <3>2, <4>1, Frame DEF Steps
    <3>4. CASE ~req[r].dry
      <4>1. LiveHolds(o)'
        BY <1>6, <2>1, <2>6, <3>4 DEF LiveHolds, PendingWrite, At, Steps
      <4> QED
        BY <1>1, <1>2, <1>6, <2>6, <3>1, <3>2, <4>1, Frame DEF Steps
    <3> QED
      BY <3>3, <3>4
  <2> QED
    BY <2>3, <2>5, <2>6
<1> QED
  BY <1>7, <1>9, <1>10, <1>11, <1>12, <1>13, <1>14 DEF Webhook

\* A new request for an object that has none.
LEMMA SubmitSafe ==
    ASSUME Env \subseteq SafeFaults, SafeInv, TypeInv',
           NEW r \in Requests, NEW op \in {"create", "update", "delete"},
           NEW o \in Objects, NEW n \in Names \cup {None}, NEW dry \in BOOLEAN,
           Submit(r, op, o, n, dry),
           op = "update" => store[o].name # n /\ store[o] # NoObject,
           op = "delete" => store[o].phase = "live"
    PROVE  SafeInv'
<1>0. TypeOK /\ \A q \in Requests : RequestOK(q)
  BY DEF SafeInv, TypeInv
<1>1. /\ req[r] = Idle
      /\ \A q \in Requests : req[q].obj # o
      /\ UNCHANGED <<lease, store>>
  BY DEF Submit, Active, SafeFaults
<1>2. /\ req'[r] = [step |-> FirstStep(op, o, n), op |-> op, obj |-> o,
                    old |-> store[o].name, new |-> n,
                    stale |-> FALSE, dry |-> dry]
      /\ req'[r] # Idle
      /\ \A q \in Requests \ {r} : req'[q] = req[q]
  BY <1>0, BeginType DEF Submit
<1>3. req'[r].obj = o
  BY <1>2
<1>4. Serial'
  BY <1>1, <1>2, <1>3 DEF SafeInv, Serial
<1>5. ASSUME NEW q \in Requests \ {r}
      PROVE  SafeRequest(q)'
  BY <1>1, <1>2 DEF SafeInv, SafeRequest, Holds
<1>6. SafeRequest(r)'
  <2>1. store[o] # NoObject => store[o].phase \in {"live", "deleting"}
    BY <1>0 DEF TypeOK, Object
  <2>2. CASE op = "create"
    BY <1>1, <1>2, <2>2 DEF SafeRequest, FirstStep
  <2>3. CASE op = "update"
    BY <1>1, <1>2, <2>1, <2>3 DEF SafeRequest, FirstStep
  <2>4. CASE op = "delete"
    BY <1>1, <1>2, <2>4 DEF SafeRequest, FirstStep
  <2> QED
    BY <2>2, <2>3, <2>4
<1>7. ASSUME NEW p \in Objects
      PROVE  LiveHolds(p)'
  <2>1. PendingWrite(p) => PendingWrite(p)'
    BY <1>1, <1>2 DEF PendingWrite, At, Idle
  <2> QED
    BY <1>1, <2>1 DEF SafeInv, LiveHolds, Holds
<1> QED
  BY <1>4, <1>5, <1>6, <1>7 DEF SafeInv

\* The write of an admitted request: the object takes a name it has claimed.
LEMMA PersistSafe ==
    ASSUME SafeInv, TypeInv', NEW r \in Requests, Persist(r)
    PROVE  SafeInv'
<1>0. TypeOK /\ RequestOK(r) /\ SafeRequest(r)
  BY DEF SafeInv, TypeInv
<1>1. req[r] # Idle /\ req[r].step = "admitted" /\ UNCHANGED lease
  BY DEF Persist, At, Idle
<1>2. PICK o \in Objects : req[r].obj = o
  BY <1>0, <1>1, IdleNotRequest
<1>3. CASE req[r].dry
  <2>1. Reject(r) /\ UNCHANGED store
    BY <1>3 DEF Persist, Reject
  <2> QED
    BY <1>1, <1>3, <2>1, RejectSafe DEF Holds
<1>4. CASE ~req[r].dry
  <2>1. /\ store' = [store EXCEPT ![o] = Written(r)]
        /\ req' = [MarkStale(o, req) EXCEPT ![r] = Idle]
    BY <1>2, <1>4 DEF Persist
  <2>2. \A q \in Requests \ {r} : req[q].obj # o
    BY <1>1, <1>2 DEF SafeInv, Serial
  <2>3. \A q \in Requests \ {r} : req'[q] = req[q]
    BY <1>0, <2>1, <2>2, MarkStaleType
  <2>4. req'[r] = Idle
    BY <1>0, <2>1, MarkStaleType
  <2>5. SafeRequest(r)'
    BY <2>4 DEF SafeRequest
  <2>6. store'[o] = Written(r) /\ \A p \in Objects \ {o} : store'[p] = store[p]
    BY <1>0, <2>1 DEF TypeOK
  <2>7. req[r].op \in {"create", "update", "delete"}
    BY <1>0, <1>1 DEF TypeOK, Request
  <2>8. store[o] \in Object
    BY <1>0 DEF TypeOK
  <2>9. LiveHolds(o)'
    <3>1. CASE req[r].op = "create"
      BY <1>0, <1>1, <1>2, <1>4, <2>6, <3>1 DEF LiveHolds, SafeRequest, Holds, Written
    <3>2. CASE req[r].op = "update"
      <4>1. /\ Written(r).phase = store[o].phase
            /\ Written(r).name = req[r].new
        BY <1>2, <2>8, <3>2 DEF Written, Object, NoObject
      <4> QED
        BY <1>0, <1>1, <1>2, <1>4, <2>6, <3>2, <4>1 DEF LiveHolds, SafeRequest, Holds
    <3>3. CASE req[r].op = "delete"
      <4>1. Written(r).phase = "deleting"
        BY <1>2, <2>8, <3>3 DEF Written, Object, NoObject
      <4> QED
        BY <2>6, <4>1 DEF LiveHolds
    <3> QED
      BY <2>7, <3>1, <3>2, <3>3
  <2> QED
    BY <1>1, <1>2, <2>3, <2>4, <2>5, <2>6, <2>9, Frame DEF Holds
<1> QED
  BY <1>3, <1>4

\* The finalizer of an object without requests.
LEMMA RemoveFinalizerSafe ==
    ASSUME Env \subseteq SafeFaults, SafeInv, TypeInv',
           NEW o \in Objects, RemoveFinalizer(o)
    PROVE  SafeInv'
<1>0. TypeOK
  BY DEF SafeInv, TypeInv
<1>1. \A q \in Requests : req[q].obj # o
  BY DEF RemoveFinalizer, SafeFaults
<1>2. \A q \in Requests : req'[q] = req[q]
  BY <1>0, <1>1, MarkStaleType DEF RemoveFinalizer
<1>3. /\ UNCHANGED lease
      /\ store'[o] = NoObject
      /\ \A p \in Objects \ {o} : store'[p] = store[p]
  BY <1>0 DEF RemoveFinalizer, TypeOK
<1>4. Serial'
  BY <1>2 DEF SafeInv, Serial
<1>5. ASSUME NEW q \in Requests
      PROVE  SafeRequest(q)'
  <2>1. req[q] # Idle => store'[req[q].obj] = store[req[q].obj]
    BY <1>0, <1>1, <1>3, IdleNotRequest
  <2> QED
    BY <1>2, <1>3, <2>1 DEF SafeInv, SafeRequest, Holds
<1>6. ASSUME NEW p \in Objects
      PROVE  LiveHolds(p)'
  <2>1. PendingWrite(p) => PendingWrite(p)'
    BY <1>2 DEF PendingWrite, At
  <2>2. CASE p = o
    BY <1>3, <2>2 DEF LiveHolds, NoObject
  <2>3. CASE p # o
    BY <1>3, <2>1, <2>3 DEF SafeInv, LiveHolds, Holds
  <2> QED
    BY <2>2, <2>3
<1> QED
  BY <1>4, <1>5, <1>6 DEF SafeInv

\* Every step keeps the safety invariant, if only safe faults happen.
LEMMA NextSafe ==
    ASSUME Env \subseteq SafeFaults
    PROVE  SafeInv /\ [Next]_vars => SafeInv'
<1> SUFFICES ASSUME SafeInv, [Next]_vars
             PROVE  SafeInv'
  OBVIOUS
<1>0. TypeInv /\ TypeInv' /\ TypeOK
  BY NextType DEF SafeInv, TypeInv
<1>1. ASSUME NEW r \in Requests, NEW o \in Objects, NEW dry \in DryRuns,
             NEW n \in Names, SubmitCreate(r, o, n, dry)
      PROVE  SafeInv'
  BY <1>0, <1>1, SubmitSafe, DryRunsAssumption DEF SubmitCreate
<1>2. ASSUME NEW r \in Requests, NEW o \in Objects, NEW dry \in DryRuns,
             NEW n \in Names, SubmitUpdate(r, o, n, dry)
      PROVE  SafeInv'
  BY <1>0, <1>2, SubmitSafe, DryRunsAssumption DEF SubmitUpdate
<1>3. ASSUME NEW r \in Requests, NEW o \in Objects, NEW dry \in DryRuns,
             SubmitDelete(r, o, dry)
      PROVE  SafeInv'
  <2>1. store[o].phase = "live"
    BY <1>3 DEF SubmitDelete, SafeFaults
  <2> QED
    BY <1>0, <1>3, <2>1, SubmitSafe, DryRunsAssumption DEF SubmitDelete
<1>4. ASSUME NEW r \in Requests, Webhook(r)
      PROVE  SafeInv'
  BY <1>0, <1>4, WebhookSafe
<1>5. ASSUME NEW r \in Requests, Persist(r)
      PROVE  SafeInv'
  BY <1>0, <1>5, PersistSafe
<1>6. ASSUME NEW r \in Requests, Conflict(r)
      PROVE  FALSE
  BY <1>6 DEF Conflict, At, Idle, SafeInv, SafeRequest
<1>7. ASSUME NEW r \in Requests, Abandon(r) \/ Crash(r)
      PROVE  SafeInv'
  <2>1. req[r] # Idle /\ (req[r].step # "admitted" \/ req[r].op = "create")
    BY <1>7 DEF Abandon, Crash, At, Active, Idle, SafeFaults
  <2>2. Reject(r) /\ UNCHANGED <<lease, store>>
    BY <1>7 DEF Abandon, Crash
  <2> QED
    BY <1>0, <2>1, <2>2, RejectSafe DEF Holds
<1>8. ASSUME NEW o \in Objects, Touch(o)
      PROVE  FALSE
  BY <1>8 DEF Touch, SafeFaults
<1>9. ASSUME NEW o \in Objects, RemoveFinalizer(o)
      PROVE  SafeInv'
  BY <1>0, <1>9, RemoveFinalizerSafe
<1>10. CASE UNCHANGED vars
  BY <1>0, <1>10 DEF vars, SafeInv, Serial, SafeRequest, LiveHolds, Holds, PendingWrite, At
<1> QED
  BY <1>1, <1>2, <1>3, <1>4, <1>5, <1>6, <1>7, <1>8, <1>9, <1>10 DEF Next

\* Who holds a name holds it alone, so live objects have different names.
LEMMA SafeInvImpliesUnique == SafeInv => UniqueNames
BY DEF SafeInv, LiveHolds, UniqueNames, Holds

\* Names are unique for any number of objects, names and concurrent requests,
\* with failing registry calls, crashes of the webhook between any two calls
\* and creates that are admitted and never written, as long as requests for
\* one object do not overlap and an admitted rename or delete is written.
THEOREM NamesAreUnique ==
    ASSUME Env \subseteq SafeFaults
    PROVE  Spec => []UniqueNames
BY InitSafe, NextSafe, SafeInvImpliesUnique, PTL DEF Spec

\* In every step that frees a name the request at work is one of the owner.
LEMMA StepRemovesOwn ==
    ASSUME SafeInv, NEW n \in Names, lease[n] # NoLease, lease'[n] = NoLease,
           [Next]_vars
    PROVE  \E r \in Requests :
              /\ req[r].obj = lease[n].owner
              /\ req[r].op # "create"
              /\ ~req[r].dry
<1>0. TypeOK /\ \A r \in Requests : RequestOK(r) /\ SafeRequest(r)
  BY DEF SafeInv, TypeInv
<1>1. PICK r \in Requests : Webhook(r)
  BY DEF Next, vars, SubmitCreate, SubmitUpdate, SubmitDelete, Submit, Persist,
         Conflict, Abandon, Crash, Touch, RemoveFinalizer
<1>2. req[r] # Idle
  BY <1>0, <1>1, WebhookType
<1>3. /\ req[r].obj \in Objects
      /\ req[r].op \in {"create", "update", "delete"}
  BY <1>0, <1>2 DEF TypeOK, Request
<1>4. DeregisterOldName(r) \/ ValidateDelete(r)
  <2>1. CASE ValidateCreate(r) \/ RegisterNewName(r)
    BY <1>0, <2>1 DEF ValidateCreate, RegisterNewName, RegisterName, CallFails, TypeOK, NoLease
  <2>2. CASE LockOldName(r)
    BY <1>0, <2>2 DEF LockOldName, TryLockName, CallFails, TypeOK, Lease, NoLease
  <2>3. CASE UnlockOldName(r)
    BY <1>0, <2>3 DEF UnlockOldName, UnlockName, CallFails, TypeOK, Lease, NoLease
  <2>4. CASE CheckNewNameOwner(r)
    BY <2>4 DEF CheckNewNameOwner, CheckNameOwnership
  <2> QED
    BY <1>1, <2>1, <2>2, <2>3, <2>4 DEF Webhook
<1>5. ~req[r].dry /\ n = req[r].old
  BY <1>0, <1>4 DEF DeregisterOldName, ValidateDelete, DeregisterName, CallFails, TypeOK
<1>6. /\ req[r].op # "create"
      /\ req[r].step # "admitted"
      /\ req[r].old = store[req[r].obj].name
      /\ store[req[r].obj].phase = "live"
  BY <1>0, <1>2, <1>3, <1>4 DEF DeregisterOldName, ValidateDelete, At, SafeRequest
<1>7. lease[n].owner = req[r].obj
  BY <1>2, <1>3, <1>5, <1>6, StillHeld DEF Holds
<1> QED
  BY <1>5, <1>6, <1>7

\* No request frees a name that another object has claimed.
THEOREM OnlyOwnerFreesName ==
    ASSUME Env \subseteq SafeFaults
    PROVE  Spec => LeaseRemovedByOwner
<1> DEFINE Removal ==
       \A n \in Names :
          lease[n] # NoLease /\ lease'[n] = NoLease
          => \E r \in Requests :
                /\ req[r].obj = lease[n].owner
                /\ req[r].op # "create"
                /\ ~req[r].dry
<1>1. SafeInv /\ [Next]_vars => [Removal]_vars
  BY StepRemovesOwn
<1> QED
  BY <1>1, InitSafe, NextSafe, PTL DEF Spec, LeaseRemovedByOwner

-----------------------------------------------------------------------------
(* The registry implements NameService.  The first lemmas say when leases  *)
(* and objects that changed in a certain way make a step of the service.   *)

SameShown(p) == ShownName(p)' = ShownName(p) /\ (Leaving(p)' <=> Leaving(p))
SameClaim(n) == lease'[n].owner = lease[n].owner

\* Nothing that the service shows has changed.
LEMMA ServiceRests ==
    ASSUME \A n \in Names : SameClaim(n), \A p \in Objects : SameShown(p)
    PROVE  UNCHANGED Service!served
BY Zenon DEF SameClaim, SameShown, Service!served

\* A free name is claimed.
LEMMA ServiceClaims ==
    ASSUME NEW o \in Objects, NEW n \in Names,
           lease[n].owner = None, lease'[n].owner = o,
           \A m \in Names \ {n} : SameClaim(m),
           \A p \in Objects : SameShown(p)
    PROVE  Service!Next
<1>1. Service!Claim(o, n)
  BY DEF SameClaim, SameShown, Service!Claim
<1> QED
  BY <1>1 DEF Service!Next

\* An object gives its name up, and its claim ends or stays.
LEMMA ServiceGivesUp ==
    ASSUME NEW o \in Objects, NEW n \in Names, n # None,
           ShownName(o) = n, ShownName(o)' = n, lease[n].owner = o,
           ~Leaving(o), Leaving(o)',
           SameClaim(n) \/ lease'[n].owner = None,
           \A m \in Names \ {n} : SameClaim(m),
           \A p \in Objects \ {o} : SameShown(p)
    PROVE  Service!Next
<1>1. Service!GiveUp(o)
  BY DEF SameClaim, SameShown, Service!GiveUp
<1> QED
  BY <1>1 DEF Service!Next

\* An object shows a name that is claimed for it.
LEMMA ServiceTakes ==
    ASSUME NEW o \in Objects, NEW n \in Names,
           lease[n].owner = o, ShownName(o) = None \/ Leaving(o),
           ShownName(o)' = n, ~Leaving(o)',
           \A m \in Names : SameClaim(m),
           \A p \in Objects \ {o} : SameShown(p)
    PROVE  Service!Next
<1>1. Service!Take(o, n)
  BY DEF SameClaim, SameShown, Service!Take
<1> QED
  BY <1>1 DEF Service!Next

\* An object that leaves its name stops showing it.
LEMMA ServiceLeaves ==
    ASSUME NEW o \in Objects, Leaving(o), ShownName(o)' = None, ~Leaving(o)',
           \A m \in Names : SameClaim(m),
           \A p \in Objects \ {o} : SameShown(p)
    PROVE  Service!Next
<1>1. Service!Leave(o)
  BY DEF SameClaim, SameShown, Service!Leave
<1> QED
  BY <1>1 DEF Service!Next

\* At first no name is claimed and none is shown.
LEMMA ServiceInit == Init => Service!Init
<1> SUFFICES ASSUME Init PROVE Service!Init
  OBVIOUS
<1>1. \A n \in Names : lease[n].owner = None
  BY DEF Init, NoLease
<1>2. \A o \in Objects : ShownName(o) = None /\ ~Leaving(o)
  BY DEF Init, NoObject, ShownName, Leaving
<1> QED
  BY <1>1, <1>2 DEF Service!Init

\* A registered name was free; the other calls of the registry claim nothing,
\* and only deregistering ends a claim, that on the name it is given.
LEMMA ClaimsMoved ==
    ASSUME TypeOK, NEW n \in Names, NEW o \in Objects, NEW dry, NEW out
    PROVE  /\ RegisterName(n, o, dry, out) =>
                /\ \A m \in Names \ {n} : SameClaim(m)
                /\ IF out = "ok" /\ ~dry
                     THEN lease[n].owner = None /\ lease'[n].owner = o
                     ELSE SameClaim(n)
           /\ DeregisterName(n, dry, out) =>
                /\ \A m \in Names \ {n} : SameClaim(m)
                /\ SameClaim(n) \/ (out = "ok" /\ ~dry /\ lease'[n].owner = None)
           /\ TryLockName(n, dry, out) \/ UnlockName(n, dry, out) =>
                \A m \in Names : SameClaim(m)
<1>1. lease \in [Names -> Lease]
  BY DEF TypeOK
<1>2. ASSUME RegisterName(n, o, dry, out)
      PROVE  /\ \A m \in Names \ {n} : SameClaim(m)
             /\ IF out = "ok" /\ ~dry
                  THEN lease[n].owner = None /\ lease'[n].owner = o
                  ELSE SameClaim(n)
  BY <1>1, <1>2 DEF RegisterName, CallFails, SameClaim, NoLease
<1>3. ASSUME DeregisterName(n, dry, out)
      PROVE  /\ \A m \in Names \ {n} : SameClaim(m)
             /\ SameClaim(n) \/ (out = "ok" /\ ~dry /\ lease'[n].owner = None)
  BY <1>1, <1>3 DEF DeregisterName, CallFails, SameClaim, NoLease
<1>4. ASSUME TryLockName(n, dry, out)
      PROVE  \A m \in Names : SameClaim(m)
  BY <1>1, <1>4 DEF TryLockName, CallFails, SameClaim, Lease, NoLease
<1>5. ASSUME UnlockName(n, dry, out)
      PROVE  \A m \in Names : SameClaim(m)
  BY <1>1, <1>5 DEF UnlockName, CallFails, SameClaim, Lease, NoLease
<1> QED
  BY <1>2, <1>3, <1>4, <1>5

\* The object of a request in flight has no other request, so whether it is
\* about to be written can be read off that request.
LEMMA PendingOf ==
    ASSUME SafeInv, NEW r \in Requests, req[r] # Idle,
           NEW o \in Objects, req[r].obj = o
    PROVE  /\ PendingWrite(o) <=>
                req[r].step = "admitted" /\ req[r].op # "create" /\ ~req[r].dry
           /\ \A q \in Requests \ {r} : req[q].obj # o
<1>1. \A q \in Requests \ {r} : req[q].obj # o
  BY DEF SafeInv, Serial
<1> QED
  BY <1>1 DEF PendingWrite, At

\* Names and pending writes of the objects a step of request r does not touch.
LEMMA OthersShown ==
    ASSUME TypeOK, NEW r \in Requests, NEW o \in Objects,
           req[r] = Idle \/ req[r].obj = o, req'[r] = Idle \/ req'[r].obj = o,
           \A p \in Objects \ {o} : store'[p] = store[p],
           \A q \in Requests \ {r} : req'[q] = req[q]
    PROVE  \A p \in Objects \ {o} : SameShown(p)
<1> SUFFICES ASSUME NEW p \in Objects \ {o} PROVE SameShown(p)
  OBVIOUS
<1>1. req[r].obj # p /\ req'[r].obj # p
  BY NoneAssumption DEF Idle
<1>2. ShownName(p)' = ShownName(p)
  BY DEF ShownName
<1>3. PendingWrite(p)' <=> PendingWrite(p)
  BY <1>1 DEF PendingWrite, At
<1> QED
  BY <1>2, <1>3 DEF SameShown, Leaving

\* A request that ends before its object is about to be written changes
\* nothing the service shows, and neither does one that goes on without
\* being admitted to write.
LEMMA StillShown ==
    ASSUME SafeInv, TypeOK', NEW r \in Requests, req[r] # Idle,
           NEW o \in Objects, req[r].obj = o, UNCHANGED store,
           \A q \in Requests \ {r} : req'[q] = req[q],
           req[r].step # "admitted" \/ req[r].op = "create" \/ req[r].dry,
           \/ req'[r] = Idle
           \/ /\ req'[r].obj = o
              /\ req'[r].step # "admitted" \/ req'[r].op = "create" \/ req'[r].dry
    PROVE  \A p \in Objects : SameShown(p)
<1>1. TypeOK
  BY DEF SafeInv, TypeInv
<1>2. \A p \in Objects \ {o} : SameShown(p)
  BY <1>1, OthersShown
<1>3. ~PendingWrite(o)
  BY PendingOf
<1>4. ~PendingWrite(o)'
  <2>1. \A q \in Requests \ {r} : req'[q].obj # o
    BY PendingOf
  <2> QED
    BY <2>1 DEF PendingWrite, At, Idle
<1>5. SameShown(o)
  BY <1>3, <1>4 DEF SameShown, ShownName, Leaving
<1> QED
  BY <1>2, <1>5

\* A live object without a pending write is about to give its name up: the
\* request at work has been admitted to write it.
LEMMA GivesUp ==
    ASSUME SafeInv, TypeOK', NEW r \in Requests, req[r] # Idle,
           NEW o \in Objects, req[r].obj = o, UNCHANGED store,
           store[o].phase = "live", req[r].step # "admitted",
           req'[r].obj = o, req'[r].step = "admitted",
           req'[r].op # "create", ~req'[r].dry,
           \A q \in Requests \ {r} : req'[q] = req[q],
           \A m \in Names \ {store[o].name} : SameClaim(m),
           SameClaim(store[o].name) \/ lease'[store[o].name].owner = None
    PROVE  Service!Next
<1>1. TypeOK
  BY DEF SafeInv, TypeInv
<1>2. PICK n \in Names : n = store[o].name
  BY <1>1 DEF TypeOK, Object, NoObject
<1>3. \A p \in Objects \ {o} : SameShown(p)
  BY <1>1, OthersShown
<1>4. ShownName(o) = n /\ ShownName(o)' = n /\ n # None
  BY <1>2, NoneAssumption DEF ShownName
<1>5. lease[n].owner = o
  BY <1>2, StillHeld DEF Holds
<1>6. ~Leaving(o)
  BY PendingOf DEF Leaving
<1>7. Leaving(o)'
  BY <1>4 DEF Leaving, PendingWrite, At
<1> QED
  BY <1>2, <1>3, <1>4, <1>5, <1>6, <1>7, ServiceGivesUp

\* One step of the webhook claims a name, gives one up, or does not show.
LEMMA WebhookServes ==
    ASSUME SafeInv, TypeOK', NEW r \in Requests, Webhook(r)
    PROVE  Service!Next \/ UNCHANGED Service!served
<1>0. TypeOK /\ RequestOK(r) /\ SafeRequest(r)
  BY DEF SafeInv, TypeInv
<1>1. req[r] # Idle /\ UNCHANGED store
  BY <1>0, WebhookType
<1>2. PICK o \in Objects : req[r].obj = o
  BY <1>0, <1>1, IdleNotRequest
<1>3. PICK old \in Names \cup {None}, new \in Names \cup {None} :
         old = req[r].old /\ new = req[r].new
  BY <1>0, <1>1 DEF TypeOK, Request
<1>4. req[r].op \in {"create", "update", "delete"} /\ req[r].dry \in BOOLEAN
  BY <1>0, <1>1 DEF TypeOK, Request
<1>5. store[o].phase = "live" => store[o].name \in Names
  BY <1>0 DEF TypeOK, Object, NoObject
<1>6. ASSUME NEW step \in Steps, GoTo(r, step)
      PROVE  /\ req'[r].obj = o
             /\ req'[r].step = step
             /\ req'[r].op = req[r].op
             /\ req'[r].dry = req[r].dry
             /\ \A q \in Requests \ {r} : req'[q] = req[q]
  BY <1>0, <1>1, <1>2, <1>6, GoToType
<1>7. ASSUME Reject(r)
      PROVE  req'[r] = Idle /\ \A q \in Requests \ {r} : req'[q] = req[q]
  BY <1>0, <1>7, RejectType
<1>8. ASSUME req[r].step # "admitted",
             \/ Reject(r)
             \/ \E step \in Steps \ {"admitted"} : GoTo(r, step)
             \/ GoTo(r, "admitted") /\ (req[r].op = "create" \/ req[r].dry)
      PROVE  \A p \in Objects : SameShown(p)
  <2>1. CASE Reject(r)
    BY <1>1, <1>2, <1>7, <1>8, <2>1, StillShown
  <2>2. CASE \E step \in Steps \ {"admitted"} : GoTo(r, step)
    BY <1>1, <1>2, <1>6, <1>8, <2>2, StillShown
  <2>3. CASE GoTo(r, "admitted") /\ (req[r].op = "create" \/ req[r].dry)
    BY <1>1, <1>2, <1>6, <1>8, <2>3, StillShown DEF Steps
  <2> QED
    BY <1>8, <2>1, <2>2, <2>3
<1>9. ASSUME new \in Names, NEW out, RegisterName(new, o, req[r].dry, out),
             \A p \in Objects : SameShown(p)
      PROVE  Service!Next \/ UNCHANGED Service!served
  <2>1. /\ \A m \in Names \ {new} : SameClaim(m)
        /\ IF out = "ok" /\ ~req[r].dry
             THEN lease[new].owner = None /\ lease'[new].owner = o
             ELSE SameClaim(new)
    BY <1>0, <1>9, ClaimsMoved
  <2>2. CASE out = "ok" /\ ~req[r].dry
    BY <1>9, <2>1, <2>2, ServiceClaims
  <2>3. CASE ~(out = "ok" /\ ~req[r].dry)
    BY <1>9, <2>1, <2>3, ServiceRests
  <2> QED
    BY <2>2, <2>3
<1>10. CASE ValidateCreate(r)
  <2>1. req[r].step = "register" /\ req[r].op = "create" /\ new \in Names
    BY <1>0, <1>1, <1>3, <1>4, <1>10 DEF ValidateCreate, At, SafeRequest, RequestOK
  <2>2. PICK out \in {"ok", "alreadyExists", "error"} :
           /\ RegisterName(new, o, req[r].dry, out)
           /\ GoTo(r, "admitted") \/ Reject(r)
    BY <1>2, <1>3, <1>10 DEF ValidateCreate
  <2>3. \A p \in Objects : SameShown(p)
    BY <1>8, <2>1, <2>2
  <2> QED
    BY <1>9, <2>1, <2>2, <2>3
<1>11. ASSUME req[r].step \in {"lock", "registerNew", "unlock", "deregisterOld"}
       PROVE  /\ req[r].op = "update"
              /\ old = store[o].name
              /\ old \in Names
              /\ new \in Names
              /\ store[o].phase = "live"
  BY <1>0, <1>1, <1>2, <1>3, <1>4, <1>5, <1>11 DEF SafeRequest, RequestOK
<1>12. CASE LockOldName(r)
  <2>1. req[r].step = "lock"
    BY <1>12 DEF LockOldName, At
  <2>2. PICK out \in {"ok", "notFound", "error"} : TryLockName(old, req[r].dry, out)
    BY <1>3, <1>12 DEF LockOldName
  <2>3. \A m \in Names : SameClaim(m)
    BY <1>0, <1>11, <2>1, <2>2, ClaimsMoved
  <2>4. GoTo(r, "registerNew") \/ GoTo(r, "checkOwner") \/ Reject(r)
    BY <1>12 DEF LockOldName
  <2>5. \A p \in Objects : SameShown(p)
    BY <1>8, <2>1, <2>4 DEF Steps
  <2> QED
    BY <2>3, <2>5, ServiceRests
<1>13. CASE CheckNewNameOwner(r)
  BY <1>0, <1>1, <1>4, <1>13 DEF CheckNewNameOwner, At, SafeRequest
<1>14. CASE RegisterNewName(r)
  <2>1. req[r].step = "registerNew"
    BY <1>14 DEF RegisterNewName, At
  <2>2. PICK out \in {"ok", "alreadyExists", "error"} :
           /\ RegisterName(new, o, req[r].dry, out)
           /\ GoTo(r, "deregisterOld") \/ GoTo(r, "unlock")
    BY <1>2, <1>3, <1>14 DEF RegisterNewName
  <2>3. \A p \in Objects : SameShown(p)
    BY <1>8, <2>1, <2>2 DEF Steps
  <2> QED
    BY <1>9, <1>11, <2>1, <2>2, <2>3
<1>15. CASE UnlockOldName(r)
  <2>1. req[r].step = "unlock" /\ Reject(r)
    BY <1>15 DEF UnlockOldName, At
  <2>2. PICK out \in {"ok", "error"} : UnlockName(old, req[r].dry, out)
    BY <1>3, <1>15 DEF UnlockOldName
  <2>3. \A m \in Names : SameClaim(m)
    BY <1>0, <1>2, <1>11, <2>1, <2>2, ClaimsMoved
  <2>4. \A p \in Objects : SameShown(p)
    BY <1>8, <2>1
  <2> QED
    BY <2>3, <2>4, ServiceRests
<1>16. ASSUME old \in Names, old = store[o].name, store[o].phase = "live",
              req[r].op # "create", req[r].step # "admitted", GoTo(r, "admitted"),
              NEW out, DeregisterName(old, req[r].dry, out)
       PROVE  Service!Next \/ UNCHANGED Service!served
  <2>1. /\ \A m \in Names \ {old} : SameClaim(m)
        /\ SameClaim(old) \/ (out = "ok" /\ ~req[r].dry /\ lease'[old].owner = None)
    BY <1>0, <1>16, ClaimsMoved
  <2>2. CASE req[r].dry
    BY <1>8, <1>16, <2>1, <2>2, ServiceRests
  <2>3. CASE ~req[r].dry
    <3>1. /\ req'[r].obj = o
          /\ req'[r].step = "admitted"
          /\ req'[r].op # "create"
          /\ ~req'[r].dry
          /\ \A q \in Requests \ {r} : req'[q] = req[q]
      BY <1>6, <1>16, <2>3 DEF Steps
    <3> QED
      BY <1>1, <1>2, <1>16, <2>1, <3>1, GivesUp
  <2> QED
    BY <1>4, <2>2, <2>3
<1>17. CASE DeregisterOldName(r)
  <2>1. req[r].step = "deregisterOld" /\ GoTo(r, "admitted")
    BY <1>17 DEF DeregisterOldName, At
  <2>2. PICK out \in {"ok", "error"} : DeregisterName(old, req[r].dry, out)
    BY <1>3, <1>17 DEF DeregisterOldName
  <2> QED
    BY <1>11, <1>16, <2>1, <2>2
<1>18. CASE ValidateDelete(r)
  <2>1. /\ req[r].step = "deregister"
        /\ req[r].op = "delete"
        /\ old = store[o].name
        /\ old \in Names
        /\ store[o].phase = "live"
    BY <1>0, <1>1, <1>2, <1>3, <1>4, <1>5, <1>18 DEF ValidateDelete, At, SafeRequest
  <2>2. PICK out \in {"ok", "error"} :
           /\ DeregisterName(old, req[r].dry, out)
           /\ IF out = "ok" THEN GoTo(r, "admitted") ELSE Reject(r)
    BY <1>3, <1>18 DEF ValidateDelete
  <2>3. CASE GoTo(r, "admitted")
    BY <1>16, <2>1, <2>2, <2>3
  <2>4. CASE out # "ok" /\ Reject(r)
    <3>1. \A m \in Names : SameClaim(m)
      BY <1>0, <2>1, <2>2, <2>4, ClaimsMoved
    <3>2. \A p \in Objects : SameShown(p)
      BY <1>8, <2>1, <2>4
    <3> QED
      BY <3>1, <3>2, ServiceRests
  <2> QED
    BY <2>2, <2>3, <2>4
<1> QED
  BY <1>10, <1>12, <1>13, <1>14, <1>15, <1>17, <1>18 DEF Webhook

\* A new request: only the update of a terminating object, which shows no
\* name, is let through to be written at once.
LEMMA SubmitServes ==
    ASSUME Env \subseteq SafeFaults, SafeInv,
           NEW r \in Requests, NEW op \in {"create", "update", "delete"},
           NEW o \in Objects, NEW n \in Names \cup {None}, NEW dry \in BOOLEAN,
           Submit(r, op, o, n, dry),
           op = "update" => store[o].name # n
    PROVE  UNCHANGED Service!served
<1>0. TypeOK
  BY DEF SafeInv, TypeInv
<1>1. /\ req[r] = Idle
      /\ \A q \in Requests : req[q].obj # o
      /\ UNCHANGED <<lease, store>>
  BY DEF Submit, Active, SafeFaults
<1>2. /\ req'[r] = [step |-> FirstStep(op, o, n), op |-> op, obj |-> o,
                    old |-> store[o].name, new |-> n,
                    stale |-> FALSE, dry |-> dry]
      /\ \A q \in Requests \ {r} : req'[q] = req[q]
  BY <1>0, BeginType DEF Submit
<1>3. \A p \in Objects \ {o} : SameShown(p)
  BY <1>0, <1>1, <1>2, OthersShown
<1>4. ~PendingWrite(o)
  BY <1>1 DEF PendingWrite
<1>5. store[o].phase = "live" => ~PendingWrite(o)'
  <2>1. ASSUME store[o].phase = "live", op # "create"
        PROVE  FirstStep(op, o, n) # "admitted"
    BY <2>1 DEF FirstStep
  <2> QED
    BY <1>1, <1>2, <2>1 DEF PendingWrite, At
<1>6. SameShown(o)
  BY <1>1, <1>4, <1>5 DEF SameShown, ShownName, Leaving
<1>7. \A m \in Names : SameClaim(m)
  BY <1>1 DEF SameClaim
<1> QED
  BY <1>3, <1>6, <1>7, ServiceRests

\* The write of an admitted request shows the name its object has claimed, or
\* ends showing the one it has given up.
LEMMA PersistServes ==
    ASSUME SafeInv, TypeOK', NEW r \in Requests, Persist(r)
    PROVE  Service!Next \/ UNCHANGED Service!served
<1>0. TypeOK /\ RequestOK(r) /\ SafeRequest(r)
  BY DEF SafeInv, TypeInv
<1>1. req[r] # Idle /\ req[r].step = "admitted" /\ UNCHANGED lease
  BY DEF Persist, At, Idle
<1>2. PICK o \in Objects : req[r].obj = o
  BY <1>0, <1>1, IdleNotRequest
<1>3. \A m \in Names : SameClaim(m)
  BY <1>1 DEF SameClaim
<1>4. CASE req[r].dry
  <2>1. Reject(r) /\ UNCHANGED store
    BY <1>4 DEF Persist, Reject
  <2>2. req'[r] = Idle /\ \A q \in Requests \ {r} : req'[q] = req[q]
    BY <1>0, <2>1, RejectType
  <2>3. \A p \in Objects : SameShown(p)
    BY <1>1, <1>2, <1>4, <2>1, <2>2, StillShown
  <2> QED
    BY <1>3, <2>3, ServiceRests
<1>5. CASE ~req[r].dry
  <2>1. /\ store' = [store EXCEPT ![o] = Written(r)]
        /\ req' = [MarkStale(o, req) EXCEPT ![r] = Idle]
    BY <1>2, <1>5 DEF Persist
  <2>2. \A q \in Requests \ {r} : req[q].obj # o
    BY <1>1, <1>2, PendingOf
  <2>3. \A q \in Requests \ {r} : req'[q] = req[q]
    BY <1>0, <2>1, <2>2, MarkStaleType
  <2>4. req'[r] = Idle
    BY <1>0, <2>1, MarkStaleType
  <2>5. store'[o] = Written(r) /\ \A p \in Objects \ {o} : store'[p] = store[p]
    BY <1>0, <2>1 DEF TypeOK
  <2>6. \A p \in Objects \ {o} : SameShown(p)
    BY <1>0, <1>2, <2>3, <2>4, <2>5, OthersShown
  <2>7. ~Leaving(o)'
    <3>1. \A q \in Requests : req'[q].obj # o
      BY <2>2, <2>3, <2>4, NoneAssumption DEF Idle
    <3> QED
      BY <3>1 DEF Leaving, PendingWrite
  <2>8. /\ req[r].op \in {"create", "update", "delete"}
        /\ req[r].op # "delete" => req[r].new \in Names
    BY <1>0, <1>1 DEF TypeOK, Request, RequestOK
  <2>9. req[r].op # "create" => PendingWrite(o)
    BY <1>1, <1>2, <1>5, PendingOf
  <2>10. store[o] \in Object
    BY <1>0 DEF TypeOK
  <2>11. CASE req[r].op = "create"
    <3>1. PICK n \in Names : n = req[r].new
      BY <2>8, <2>11
    <3>2. lease[n].owner = o
      BY <1>0, <1>1, <1>2, <1>5, <2>11, <3>1 DEF SafeRequest, Holds
    <3>3. store[o] = NoObject
      BY <1>0, <1>1, <1>2, <2>11 DEF RequestOK, SafeRequest
    <3>4. ShownName(o) = None /\ ShownName(o)' = n
      BY <2>5, <2>11, <3>1, <3>3 DEF ShownName, Written, NoObject
    <3> QED
      BY <1>3, <2>6, <2>7, <3>2, <3>4, ServiceTakes
  <2>12. CASE req[r].op = "update" /\ store[o].phase = "live"
    <3>1. PICK n \in Names : n = req[r].new
      BY <2>8, <2>12
    <3>2. lease[n].owner = o
      BY <1>0, <1>1, <1>2, <1>5, <2>12, <3>1 DEF SafeRequest, Holds
    <3>3. /\ Written(r).phase = "live"
          /\ Written(r).name = n
      BY <1>2, <2>10, <2>12, <3>1 DEF Written, Object, NoObject
    <3>4. store[o].name \in Names
      BY <2>10, <2>12 DEF Object, NoObject
    <3>5. Leaving(o) /\ ShownName(o)' = n
      BY <2>5, <2>9, <2>12, <3>3, <3>4, NoneAssumption DEF Leaving, ShownName
    <3> QED
      BY <1>3, <2>6, <2>7, <3>2, <3>5, ServiceTakes
  <2>13. CASE req[r].op = "update" /\ store[o].phase # "live"
    <3>1. Written(r).phase # "live"
      BY <1>2, <2>10, <2>13 DEF Written, Object, NoObject
    <3>2. SameShown(o)
      BY <2>5, <2>7, <2>13, <3>1 DEF SameShown, ShownName, Leaving
    <3> QED
      BY <1>3, <2>6, <3>2, ServiceRests
  <2>14. CASE req[r].op = "delete"
    <3>1. store[o].phase = "live"
      BY <1>0, <1>1, <1>2, <2>14 DEF SafeRequest
    <3>2. Written(r).phase = "deleting"
      BY <1>2, <2>10, <2>14 DEF Written, Object, NoObject
    <3>3. store[o].name \in Names
      BY <2>10, <3>1 DEF Object, NoObject
    <3>4. Leaving(o) /\ ShownName(o)' = None
      BY <2>5, <2>9, <2>14, <3>1, <3>2, <3>3, NoneAssumption DEF Leaving, ShownName
    <3> QED
      BY <1>3, <2>6, <2>7, <3>4, ServiceLeaves
  <2> QED
    BY <2>8, <2>11, <2>12, <2>13, <2>14
<1> QED
  BY <1>4, <1>5

\* A terminating object showed no name, so nobody sees it go.
LEMMA RemoveFinalizerServes ==
    ASSUME Env \subseteq SafeFaults, SafeInv, NEW o \in Objects, RemoveFinalizer(o)
    PROVE  UNCHANGED Service!served
<1>0. TypeOK
  BY DEF SafeInv, TypeInv
<1>1. \A q \in Requests : req[q].obj # o
  BY DEF RemoveFinalizer, SafeFaults
<1>2. \A q \in Requests : req'[q] = req[q]
  BY <1>0, <1>1, MarkStaleType DEF RemoveFinalizer
<1>3. /\ UNCHANGED lease
      /\ store[o].phase = "deleting"
      /\ store'[o] = NoObject
      /\ \A p \in Objects \ {o} : store'[p] = store[p]
  BY <1>0 DEF RemoveFinalizer, TypeOK
<1>4. ASSUME NEW p \in Objects
      PROVE  SameShown(p)
  <2>1. PendingWrite(p)' <=> PendingWrite(p)
    BY <1>2 DEF PendingWrite, At
  <2>2. ShownName(p)' = ShownName(p)
    BY <1>3 DEF ShownName, NoObject
  <2> QED
    BY <2>1, <2>2 DEF SameShown, Leaving
<1>5. \A m \in Names : SameClaim(m)
  BY <1>3 DEF SameClaim
<1> QED
  BY <1>4, <1>5, ServiceRests

\* Every step of the registry is a step of the service, or does not show.
LEMMA NextServes ==
    ASSUME Env \subseteq SafeFaults, SafeInv, SafeInv', [Next]_vars
    PROVE  Service!Next \/ UNCHANGED Service!served
<1>0. TypeOK /\ TypeOK' /\ \A r \in Requests : SafeRequest(r)
  BY DEF SafeInv, TypeInv
<1>1. ASSUME NEW r \in Requests, NEW o \in Objects, NEW dry \in DryRuns,
             NEW n \in Names, SubmitCreate(r, o, n, dry) \/ SubmitUpdate(r, o, n, dry)
      PROVE  UNCHANGED Service!served
  BY <1>1, SubmitServes, DryRunsAssumption DEF SubmitCreate, SubmitUpdate
<1>2. ASSUME NEW r \in Requests, NEW o \in Objects, NEW dry \in DryRuns,
             SubmitDelete(r, o, dry)
      PROVE  UNCHANGED Service!served
  BY <1>2, SubmitServes, DryRunsAssumption DEF SubmitDelete
<1>3. ASSUME NEW r \in Requests, Webhook(r)
      PROVE  Service!Next \/ UNCHANGED Service!served
  BY <1>0, <1>3, WebhookServes
<1>4. ASSUME NEW r \in Requests, Persist(r)
      PROVE  Service!Next \/ UNCHANGED Service!served
  BY <1>0, <1>4, PersistServes
<1>5. ASSUME NEW r \in Requests, Conflict(r)
      PROVE  FALSE
  BY <1>0, <1>5 DEF Conflict, At, Idle, SafeRequest
<1>6. ASSUME NEW r \in Requests, Abandon(r) \/ Crash(r)
      PROVE  UNCHANGED Service!served
  <2>1. req[r] # Idle /\ (req[r].step # "admitted" \/ req[r].op = "create")
    BY <1>6 DEF Abandon, Crash, At, Active, Idle, SafeFaults
  <2>2. Reject(r) /\ UNCHANGED <<lease, store>>
    BY <1>6 DEF Abandon, Crash
  <2>3. req'[r] = Idle /\ \A q \in Requests \ {r} : req'[q] = req[q]
    BY <1>0, <2>2, RejectType
  <2>4. PICK o \in Objects : req[r].obj = o
    BY <1>0, <2>1, IdleNotRequest
  <2>5. \A p \in Objects : SameShown(p)
    BY <1>0, <2>1, <2>2, <2>3, <2>4, StillShown
  <2>6. \A m \in Names : SameClaim(m)
    BY <2>2 DEF SameClaim
  <2> QED
    BY <2>5, <2>6, ServiceRests
<1>7. ASSUME NEW o \in Objects, Touch(o)
      PROVE  FALSE
  BY <1>7 DEF Touch, SafeFaults
<1>8. ASSUME NEW o \in Objects, RemoveFinalizer(o)
      PROVE  UNCHANGED Service!served
  BY <1>8, RemoveFinalizerServes
<1>9. CASE UNCHANGED vars
  <2>1. /\ \A p \in Objects : SameShown(p)
        /\ \A m \in Names : SameClaim(m)
    BY <1>9 DEF vars, SameShown, SameClaim, ShownName, Leaving, PendingWrite, At
  <2> QED
    BY <2>1, ServiceRests
<1> QED
  BY <1>1, <1>2, <1>3, <1>4, <1>5, <1>6, <1>7, <1>8, <1>9 DEF Next

\* The webhooks implement NameService, for any number of objects, names and
\* concurrent requests: whatever calls fail, webhooks crash or creates are
\* lost, a claim is made on a free name, never passes to another object and is
\* ended only by its owner, when it is admitted to give up the name it shows.
THEOREM RegistryServesNames ==
    ASSUME Env \subseteq SafeFaults
    PROVE  Spec => ServesNames
<1>1. Init => Service!Init
  BY ServiceInit
<1>2. SafeInv /\ SafeInv' /\ [Next]_vars => [Service!Next]_(Service!served)
  BY NextServes
<1> QED
  BY <1>1, <1>2, InitSafe, NextSafe, PTL DEF Spec, ServesNames, Service!Spec

-----------------------------------------------------------------------------
(* Leaked names.  A name that is leaked now may be asked for again by its  *)
(* owner, and a terminating owner may even be renamed to it; none of that  *)
(* frees it.                                                               *)

\* o holds the claim on n, is not live under that name, and no request of o
\* for n has passed the registration.
StuckWith(o, n) ==
    /\ Holds(o, n)
    /\ ~(store[o].phase = "live" /\ store[o].name = n)
    /\ \A r \in Requests :
          req[r].obj = o /\ req[r].new = n /\ ~req[r].dry =>
             /\ req[r].op = "create" => req[r].step # "admitted"
             /\ req[r].op = "update" =>
                   /\ req[r].step # "deregisterOld"
                   /\ req[r].step = "admitted" => store[o].phase = "deleting"

\* A leaked name is stuck with its owner.
LEMMA LeakedIsStuck ==
    ASSUME SafeInv, NEW n \in Names, Leaked(n)
    PROVE  \E o \in Objects : StuckWith(o, n)
<1>1. lease[n].owner \in Objects
  BY DEF Leaked, SafeInv, TypeInv, TypeOK, Lease
<1>2. StuckWith(lease[n].owner, n)
  BY DEF Leaked, StuckWith, Holds
<1> QED
  BY <1>1, <1>2

\* A step of the webhook leaves the claim where it is.
LEMMA WebhookKeepsStuck ==
    ASSUME SafeInv, SafeInv', NEW n \in Names, NEW o \in Objects, StuckWith(o, n),
           NEW r \in Requests, Webhook(r)
    PROVE  StuckWith(o, n)'
<1>0. TypeOK /\ RequestOK(r) /\ SafeRequest(r)
  BY DEF SafeInv, TypeInv
<1>1. req[r] # Idle /\ UNCHANGED store /\ ((\E step \in Steps : GoTo(r, step)) \/ Reject(r))
  BY <1>0, WebhookType
<1>2. PICK p \in Objects : req[r].obj = p
  BY <1>0, <1>1, IdleNotRequest
<1>3. \A q \in Requests \ {r} : req'[q] = req[q]
  BY <1>0, <1>1, GoToType, RejectType
<1>4. Holds(o, n) /\ lease[n] # NoLease /\ ~(store[o].phase = "live" /\ store[o].name = n)
  BY NoneAssumption DEF StuckWith, Holds, NoLease
<1>5. req[r].op \in {"create", "update", "delete"} /\ req[r].old \in Names \cup {None}
  BY <1>0, <1>1 DEF TypeOK, Request
<1>6. \/ ~req[r].dry /\ DeregisterName(n, req[r].dry, "ok") /\ req[r].old = n
         /\ (DeregisterOldName(r) \/ ValidateDelete(r))
      \/ Holds(o, n)'
  <2>1. CASE ValidateCreate(r) \/ RegisterNewName(r)
    BY <1>0, <1>4, <2>1 DEF ValidateCreate, RegisterNewName, RegisterName, CallFails, TypeOK, Holds
  <2>2. CASE LockOldName(r)
    BY <1>0, <1>4, <2>2 DEF LockOldName, TryLockName, CallFails, TypeOK, Lease, NoLease, Holds
  <2>3. CASE UnlockOldName(r)
    BY <1>0, <1>4, <2>3 DEF UnlockOldName, UnlockName, CallFails, TypeOK, Lease, NoLease, Holds
  <2>4. CASE CheckNewNameOwner(r)
    BY <1>4, <2>4 DEF CheckNewNameOwner, CheckNameOwnership, Holds
  <2>5. CASE DeregisterOldName(r) \/ ValidateDelete(r)
    BY <1>0, <1>4, <2>5 DEF DeregisterOldName, ValidateDelete, DeregisterName, CallFails, TypeOK, Holds
  <2> QED
    BY <2>1, <2>2, <2>3, <2>4, <2>5 DEF Webhook
<1>7. Holds(o, n)'
  <2>1. SUFFICES ASSUME req[r].old = n, DeregisterOldName(r) \/ ValidateDelete(r)
                 PROVE  FALSE
    BY <1>6
  <2>2. req[r].step # "admitted" /\ req[r].old = store[p].name /\ store[p].phase = "live"
    BY <1>0, <1>1, <1>2, <1>5, <2>1 DEF DeregisterOldName, ValidateDelete, At, SafeRequest
  <2>3. Holds(p, n)
    BY <1>1, <1>2, <2>1, <2>2, StillHeld
  <2> QED
    BY <1>4, <2>1, <2>2, <2>3 DEF Holds
<1>8. ASSUME p = o, req[r].new = n, ~req[r].dry, req'[r].obj = o
      PROVE  /\ req'[r].op = "create" => req'[r].step # "admitted"
             /\ req'[r].op = "update" =>
                   /\ req'[r].step # "deregisterOld"
                   /\ req'[r].step = "admitted" => store[o].phase = "deleting"
  <2>1. ~Reject(r)
    BY <1>0, <1>8, RejectType, NoneAssumption DEF Idle
  <2>2. req'[r].op = req[r].op
    BY <1>0, <1>1, <2>1, GoToType
  <2>3. ASSUME NEW step \in Steps, GoTo(r, step)
        PROVE  req'[r].step = step
    BY <1>0, <1>1, <2>3, GoToType
  <2>4. CASE ValidateCreate(r)
    BY <1>4, <1>8, <2>1, <2>4 DEF ValidateCreate, RegisterName, CallFails
  <2>5. CASE LockOldName(r)
    <3>1. GoTo(r, "registerNew") \/ GoTo(r, "checkOwner")
      BY <2>1, <2>5 DEF LockOldName
    <3>2. req'[r].step \in {"registerNew", "checkOwner"}
      BY <2>3, <3>1 DEF Steps
    <3> QED
      BY <3>2
  <2>6. CASE CheckNewNameOwner(r)
    BY <1>0, <1>1, <1>5, <2>6 DEF CheckNewNameOwner, At, SafeRequest
  <2>7. CASE RegisterNewName(r)
    <3>1. GoTo(r, "unlock")
      BY <1>4, <1>8, <2>7 DEF RegisterNewName, RegisterName, CallFails
    <3>2. req'[r].step = "unlock"
      BY <2>3, <3>1 DEF Steps
    <3> QED
      BY <3>2
  <2>8. CASE UnlockOldName(r)
    BY <2>1, <2>8 DEF UnlockOldName
  <2>9. CASE DeregisterOldName(r)
    <3>1. req[r].step = "deregisterOld" /\ req[r].op = "update"
      BY <1>0, <1>1, <1>5, <2>9 DEF DeregisterOldName, At, SafeRequest
    <3> QED
      BY <1>2, <1>8, <3>1 DEF StuckWith
  <2>10. CASE ValidateDelete(r)
    <3>1. req[r].op = "delete"
      BY <1>0, <1>1, <1>5, <2>10 DEF ValidateDelete, At, SafeRequest
    <3> QED
      BY <2>2, <3>1
  <2> QED
    BY <2>4, <2>5, <2>6, <2>7, <2>8, <2>9, <2>10 DEF Webhook
<1>9. ASSUME NEW q \in Requests, req'[q].obj = o, req'[q].new = n, ~req'[q].dry
      PROVE  /\ req'[q].op = "create" => req'[q].step # "admitted"
             /\ req'[q].op = "update" =>
                   /\ req'[q].step # "deregisterOld"
                   /\ req'[q].step = "admitted" => store'[o].phase = "deleting"
  <2>1. CASE q # r
    BY <1>1, <1>3, <1>9, <2>1 DEF StuckWith
  <2>2. CASE q = r
    <3>1. ~Reject(r)
      BY <1>0, <1>9, <2>2, RejectType, NoneAssumption DEF Idle
    <3>2. req'[r].obj = req[r].obj /\ req'[r].new = req[r].new /\ req'[r].dry = req[r].dry
      BY <1>0, <1>1, <3>1, GoToType
    <3> QED
      BY <1>1, <1>2, <1>8, <1>9, <2>2, <3>2
  <2> QED
    BY <2>1, <2>2
<1> QED
  BY <1>1, <1>4, <1>7, <1>9 DEF StuckWith

\* So does the API server.
LEMMA ServerKeepsStuck ==
    ASSUME Env \subseteq SafeFaults, SafeInv, SafeInv', NEW n \in Names, NEW o \in Objects, StuckWith(o, n),
           [Next]_vars, ~(\E r \in Requests : Webhook(r))
    PROVE  StuckWith(o, n)'
<1>0. TypeOK /\ \A r \in Requests : RequestOK(r) /\ SafeRequest(r)
  BY DEF SafeInv, TypeInv
<1>1. ASSUME NEW r \in Requests, NEW op \in {"create", "update", "delete"}, NEW p \in Objects,
             NEW m \in Names \cup {None}, NEW dry \in BOOLEAN, Submit(r, op, p, m, dry),
             op = "update" => store[p].name # m
      PROVE  StuckWith(o, n)'
  <2>1. UNCHANGED <<lease, store>> /\ Begin(r, op, p, m, dry)
    BY <1>1 DEF Submit
  <2>2. req'[r] = [step |-> FirstStep(op, p, m), op |-> op, obj |-> p,
                   old |-> store[p].name, new |-> m, stale |-> FALSE, dry |-> dry]
        /\ \A q \in Requests \ {r} : req'[q] = req[q]
    BY <1>0, <2>1, BeginType
  <2>3. /\ op = "create" => FirstStep(op, p, m) # "admitted"
        /\ op = "update" => /\ FirstStep(op, p, m) # "deregisterOld"
                            /\ FirstStep(op, p, m) = "admitted" => store[p].phase = "deleting"
    BY <1>1 DEF FirstStep
  <2> HIDE DEF FirstStep
  <2>4. /\ req'[r].step = FirstStep(op, p, m) /\ req'[r].op = op /\ req'[r].obj = p
    BY <2>2
  <2> QED
    BY <2>1, <2>2, <2>3, <2>4 DEF StuckWith, Holds
<1>2. ASSUME NEW r \in Requests, Persist(r)
      PROVE  StuckWith(o, n)'
  <2>1. UNCHANGED lease /\ req[r] # Idle /\ req[r].step = "admitted"
    BY <1>2 DEF Persist, At, Idle
  <2>2. PICK p \in Objects : req[r].obj = p
    BY <1>0, <2>1, IdleNotRequest
  <2>3. CASE req[r].dry
    <3>1. UNCHANGED store /\ req' = [req EXCEPT ![r] = Idle]
      BY <1>2, <2>3 DEF Persist
    <3>2. req'[r] = Idle /\ \A q \in Requests \ {r} : req'[q] = req[q]
      BY <1>0, <3>1 DEF TypeOK
    <3> QED
      BY <2>1, <3>1, <3>2, NoneAssumption DEF StuckWith, Holds, Idle
  <2>4. CASE ~req[r].dry
    <3>1. /\ store' = [store EXCEPT ![p] = Written(r)]
          /\ req' = [MarkStale(p, req) EXCEPT ![r] = Idle]
      BY <1>2, <2>2, <2>4 DEF Persist
    <3>2. /\ MarkStale(p, req) \in [Requests -> Request]
          /\ \A q \in Requests : req[q].obj # p => MarkStale(p, req)[q] = req[q]
          /\ \A q \in Requests : MarkStale(p, req)[q].obj = req[q].obj
      BY <1>0, MarkStaleType
    <3>3. /\ req'[r] = Idle
          /\ \A q \in Requests \ {r} : req'[q] = MarkStale(p, req)[q]
      BY <3>1, <3>2
    <3>4. \A q \in Requests \ {r} : req[q].obj # p
      BY <2>1, <2>2 DEF SafeInv, Serial
    <3>5. \A q \in Requests \ {r} : req'[q] = req[q]
      BY <3>2, <3>3, <3>4
    <3>6. CASE p # o
      <4>1. store'[o] = store[o]
        BY <1>0, <3>1, <3>6 DEF TypeOK
      <4> QED
        BY <2>1, <3>3, <3>5, <4>1, NoneAssumption DEF StuckWith, Holds, Idle
    <3>7. CASE p = o
      <4>1. store'[o] = Written(r)
        BY <1>0, <3>1, <3>7 DEF TypeOK
      <4>2. \A q \in Requests : req'[q].obj # o
        BY <3>3, <3>4, <3>5, <3>7, NoneAssumption DEF Idle
      <4>3. ~(Written(r).phase = "live" /\ Written(r).name = n)
        <5>1. req[r].op \in {"create", "update", "delete"} /\ store[o] \in Object
          BY <1>0, <2>1 DEF TypeOK, Request
        <5>2. CASE req[r].op = "create"
          BY <2>1, <2>2, <2>4, <3>7, <5>2 DEF Written, StuckWith
        <5>3. CASE req[r].op = "update"
          <6>1. req[r].new = n => store[o].phase = "deleting"
            BY <2>1, <2>2, <2>4, <3>7, <5>3 DEF StuckWith
          <6>2. Written(r) = [store[o] EXCEPT !.name = req[r].new]
            BY <2>2, <3>7, <5>3 DEF Written
          <6>3. store[o] # NoObject
            BY <1>0, <2>1, <2>2, <3>7, <5>3 DEF RequestOK, SafeRequest
          <6> QED
            BY <5>1, <6>1, <6>2, <6>3 DEF Object
        <5>4. CASE req[r].op = "delete"
          <6>1. Written(r) = [store[o] EXCEPT !.phase = "deleting"]
            BY <2>2, <3>7, <5>4 DEF Written
          <6>2. Written(r).phase = "deleting"
            BY <5>1, <6>1 DEF Object, NoObject
          <6> QED
            BY <6>2
        <5> QED
          BY <5>1, <5>2, <5>3, <5>4
      <4>4. Holds(o, n)'
        BY <2>1 DEF StuckWith, Holds
      <4> QED
        BY <4>1, <4>2, <4>3, <4>4 DEF StuckWith
    <3> QED
      BY <3>6, <3>7
  <2> QED
    BY <2>3, <2>4
<1>3. ASSUME NEW r \in Requests, Abandon(r) \/ Crash(r) \/ Conflict(r)
      PROVE  StuckWith(o, n)'
  <2>1. ~Conflict(r)
    BY <1>0 DEF Conflict, At, Idle, SafeRequest
  <2>2. Reject(r) /\ UNCHANGED <<lease, store>>
    BY <1>3, <2>1 DEF Abandon, Crash
  <2>3. req'[r] = Idle /\ \A q \in Requests \ {r} : req'[q] = req[q]
    BY <1>0, <2>2, RejectType
  <2> QED
    BY <2>2, <2>3, NoneAssumption DEF StuckWith, Holds, Idle
<1>4. ASSUME NEW p \in Objects, Touch(p) \/ RemoveFinalizer(p)
      PROVE  StuckWith(o, n)'
  <2>1. RemoveFinalizer(p) /\ \A q \in Requests : req[q].obj # p
    BY <1>4 DEF Touch, RemoveFinalizer, SafeFaults
  <2>2. UNCHANGED lease /\ store' = [store EXCEPT ![p] = NoObject] /\ req' = MarkStale(p, req)
    BY <2>1 DEF RemoveFinalizer
  <2>3. \A q \in Requests : req'[q] = req[q]
    BY <1>0, <2>1, <2>2, MarkStaleType
  <2>4. CASE p = o
    <3>1. store'[o] = NoObject
      BY <1>0, <2>2, <2>4 DEF TypeOK
    <3> QED
      BY <2>1, <2>2, <2>3, <2>4, <3>1 DEF StuckWith, Holds, NoObject
  <2>5. CASE p # o
    <3>1. store'[o] = store[o]
      BY <1>0, <2>2, <2>5 DEF TypeOK
    <3> QED
      BY <2>2, <2>3, <3>1 DEF StuckWith, Holds
  <2> QED
    BY <2>4, <2>5
<1>5. CASE UNCHANGED vars
  BY <1>5 DEF vars, StuckWith, Holds
<1>6. ASSUME NEW r \in Requests, NEW p \in Objects, NEW dry \in DryRuns,
             \/ \E m \in Names : SubmitCreate(r, p, m, dry) \/ SubmitUpdate(r, p, m, dry)
             \/ SubmitDelete(r, p, dry)
      PROVE  StuckWith(o, n)'
  BY <1>1, <1>6, DryRunsAssumption DEF SubmitCreate, SubmitUpdate, SubmitDelete
<1> QED
  BY <1>2, <1>3, <1>4, <1>5, <1>6 DEF Next

\* A name that is leaked stays claimed for ever, whatever is asked for later
\* (the comment in DuplicateValidator.ValidateUpdate says as much), for any
\* number of objects, names and requests and with safe faults only.
THEOREM LeaksAreForever ==
    ASSUME Env \subseteq SafeFaults
    PROVE  Spec => LeakedClaimStays
<1> DEFINE Stuck(n) == \E o \in Objects : StuckWith(o, n)
<1>1. ASSUME NEW n \in Names
      PROVE  Spec => [](Leaked(n) => [](lease[n] # NoLease))
  <2>1. SafeInv /\ Leaked(n) => Stuck(n)
    BY LeakedIsStuck
  <2>2. SafeInv /\ SafeInv' /\ Stuck(n) /\ [Next]_vars => Stuck(n)'
    BY WebhookKeepsStuck, ServerKeepsStuck
  <2>3. Stuck(n) => lease[n] # NoLease
    BY NoneAssumption DEF StuckWith, Holds, NoLease
  <2> HIDE DEF Stuck
  <2> QED
    BY <2>1, <2>2, <2>3, InitSafe, NextSafe, PTL DEF Spec
<1> QED
  BY <1>1 DEF LeakedClaimStays

-----------------------------------------------------------------------------
(* Retries.  A write that conflicts with another writer is admitted again; *)
(* by then the first attempt has moved the claim.  Nobody else may have    *)
(* taken the old name meanwhile, so there is one object only.              *)

OneObject == \A o, p \in Objects : o = p
RetryFaults == {"touch", "abandonCreate", "redelete"}

OneAtATime == \A q, r \in Requests : req[q] # Idle /\ req[r] # Idle => q = r

\* What the step of a rename says of the old and the new name.
RenameHolds(r) ==
    /\ req[r].step = "lock" =>
          Holds(req[r].obj, req[r].old) \/ Holds(req[r].obj, req[r].new)
    /\ req[r].step \in {"registerNew", "unlock"} => Holds(req[r].obj, req[r].old)
    /\ req[r].step \in {"checkOwner", "deregisterOld", "admitted"} =>
          Holds(req[r].obj, req[r].new)

\* What a request holds, be it the first attempt or a later one.
RetryRequest(r) ==
    req[r] # Idle =>
       /\ req[r].op = "create" =>
             /\ req[r].step \in {"register", "admitted"}
             /\ ~req[r].stale
             /\ req[r].step = "admitted" /\ ~req[r].dry => Holds(req[r].obj, req[r].new)
       /\ req[r].op = "delete" => req[r].step \in {"deregister", "admitted"}
       /\ req[r].op = "update" =>
             req[r].step \in {"lock", "checkOwner", "registerNew", "unlock",
                              "deregisterOld", "admitted"}
       /\ req[r].op # "create" /\ store[req[r].obj].phase = "live" =>
             /\ req[r].old = store[req[r].obj].name
             /\ req[r].dry => Holds(req[r].obj, req[r].old)
       /\ req[r].op = "update" /\ store[req[r].obj].phase = "live" =>
             /\ req[r].new # req[r].old
             /\ ~req[r].dry => RenameHolds(r)
       /\ req[r].op = "update" /\ store[req[r].obj].phase # "live" =>
             req[r].step = "admitted"

\* A live object holds its name, or a request is moving the claim.
LiveKept(o) ==
    store[o].phase = "live" =>
        Holds(o, store[o].name) \/ \E r \in Requests : req[r].obj = o

RetryInv ==
    /\ OneAtATime
    /\ \A r \in Requests : RetryRequest(r)
    /\ \A o \in Objects : LiveKept(o)

\* With one object the invariant says what RetryKeepsClaim says.
LEMMA RetryInvSuffices == TypeInv /\ RetryInv => RetryKeepsClaim
<1> SUFFICES ASSUME TypeInv, RetryInv, NEW o \in Objects,
                    store[o].phase = "live", ~Holds(o, store[o].name)
             PROVE  \E r \in Requests :
                       req[r].obj = o /\ (req[r].op # "update" \/ Holds(o, req[r].new))
  BY DEF RetryKeepsClaim
<1>1. PICK r \in Requests : req[r].obj = o
  BY DEF RetryInv, LiveKept
<1>2. req[r] # Idle /\ RetryRequest(r)
  BY <1>1, IdleNotRequest DEF RetryInv, TypeInv
<1>3. req[r].op = "update" => Holds(o, req[r].new)
  BY <1>1, <1>2 DEF RetryRequest, RenameHolds
<1> QED
  BY <1>1, <1>3

\* A step of the only request leaves nothing else to look at.
LEMMA RetryFrame ==
    ASSUME OneObject, TypeOK, RetryInv, NEW r \in Requests, req[r] # Idle,
           NEW o \in Objects, req[r].obj = o,
           \A q \in Requests \ {r} : req'[q] = req[q],
           RetryRequest(r)',
           LiveKept(o)'
    PROVE  RetryInv'
<1>1. \A q \in Requests \ {r} : req[q] = Idle
  BY DEF RetryInv, OneAtATime
<1>2. \A p \in Objects : LiveKept(p)'
  BY DEF OneObject
<1>3. \A q \in Requests : RetryRequest(q)'
  BY <1>1 DEF RetryRequest
<1>4. OneAtATime'
  BY <1>1 DEF OneAtATime
<1> QED
  BY <1>2, <1>3, <1>4 DEF RetryInv

\* A request that is denied must leave the object with its name.
LEMMA RetryReject ==
    ASSUME OneObject, TypeOK, RetryInv, NEW r \in Requests, req[r] # Idle,
           NEW o \in Objects, req[r].obj = o,
           Reject(r), UNCHANGED store,
           store[o].phase = "live" => Holds(o, store[o].name)'
    PROVE  RetryInv'
<1>1. req'[r] = Idle /\ \A q \in Requests \ {r} : req'[q] = req[q]
  BY RejectType
<1>2. RetryRequest(r)' /\ LiveKept(o)'
  BY <1>1 DEF RetryRequest, LiveKept
<1> QED
  BY <1>1, <1>2, RetryFrame

\* One step of the webhook: a retry finds the claim its first attempt moved.
LEMMA WebhookRetry ==
    ASSUME OneObject, Env \subseteq RetryFaults, TypeInv, RetryInv,
           NEW r \in Requests, Webhook(r)
    PROVE  RetryInv'
<1>0. TypeOK /\ RequestOK(r) /\ RetryRequest(r) /\ "callError" \notin Env
  BY DEF RetryInv, TypeInv, RetryFaults
<1>1. req[r] # Idle /\ UNCHANGED store
  BY <1>0, WebhookType
<1>2. PICK o \in Objects : req[r].obj = o
  BY <1>0, <1>1, IdleNotRequest
<1>3. PICK old \in Names \cup {None}, new \in Names \cup {None} :
         old = req[r].old /\ new = req[r].new
  BY <1>0, <1>1 DEF TypeOK, Request
<1>4. req[r].op \in {"create", "update", "delete"} /\ req[r].dry \in BOOLEAN
  BY <1>0, <1>1 DEF TypeOK, Request
<1>5. store[o].phase = "live" => store[o].name \in Names
  BY <1>0 DEF TypeOK, Object, NoObject
<1>6. ASSUME NEW step \in Steps, GoTo(r, step)
      PROVE  /\ req'[r] # Idle
             /\ req'[r].step = step
             /\ req'[r].op = req[r].op
             /\ req'[r].obj = o
             /\ req'[r].old = old
             /\ req'[r].new = new
             /\ req'[r].stale = req[r].stale
             /\ req'[r].dry = req[r].dry
             /\ \A q \in Requests \ {r} : req'[q] = req[q]
             /\ LiveKept(o)'
  BY <1>0, <1>1, <1>2, <1>3, <1>6, GoToType DEF LiveKept
<1>7. \A m \in Names : lease[m] # NoLease => Holds(o, m)
  BY <1>0, <1>2 DEF TypeOK, Lease, Holds, OneObject
<1>8. CASE ValidateCreate(r)
  <2>1. /\ req[r].op = "create"
        /\ req[r].step = "register"
        /\ new \in Names
        /\ ~req[r].stale
        /\ store[o] = NoObject
    BY <1>0, <1>1, <1>2, <1>3, <1>4, <1>8 DEF ValidateCreate, At, RetryRequest, RequestOK
  <2>2. PICK out \in {"ok", "alreadyExists", "error"} :
           /\ RegisterName(new, o, req[r].dry, out)
           /\ IF out = "ok" THEN GoTo(r, "admitted") ELSE Reject(r)
    BY <1>2, <1>3, <1>8 DEF ValidateCreate
  <2>3. CASE Reject(r)
    BY <1>0, <1>1, <1>2, <2>1, <2>3, RetryReject DEF NoObject
  <2>4. CASE out = "ok" /\ GoTo(r, "admitted")
    <3>1. ~req[r].dry => Holds(o, new)'
      BY <1>0, <2>1, <2>2, <2>4, OwnersKept
    <3>2. RetryRequest(r)'
      BY <1>1, <1>6, <2>1, <2>4, <3>1 DEF RetryRequest, Steps, Holds
    <3> QED
      BY <1>0, <1>1, <1>2, <1>6, <2>4, <3>2, RetryFrame DEF Steps
  <2> QED
    BY <2>2, <2>3, <2>4
<1>9. ASSUME req[r].step \in {"lock", "checkOwner", "registerNew", "unlock", "deregisterOld"}
      PROVE  /\ req[r].op = "update"
             /\ store[o].phase = "live"
             /\ old = store[o].name
             /\ old \in Names
             /\ new \in Names
             /\ new # old
             /\ req[r].dry => Holds(o, old)
             /\ ~req[r].dry => RenameHolds(r)
  BY <1>0, <1>1, <1>2, <1>3, <1>4, <1>5, <1>9 DEF RetryRequest, RequestOK
<1>10. ASSUME NEW step \in {"checkOwner", "registerNew", "unlock", "deregisterOld", "admitted"},
              GoTo(r, step), req[r].op = "update", new # old, old = store[o].name,
              req[r].dry => Holds(o, old)',
              ~req[r].dry /\ step \in {"registerNew", "unlock"} => Holds(o, old)',
              ~req[r].dry /\ step \in {"checkOwner", "deregisterOld", "admitted"} => Holds(o, new)',
              store[o].phase = "live"
       PROVE  RetryInv'
  <2>1. step \in Steps
    BY <1>10 DEF Steps
  <2>2. RetryRequest(r)'
    BY <1>1, <1>6, <1>10, <2>1 DEF RetryRequest, RenameHolds, Holds
  <2> QED
    BY <1>0, <1>1, <1>2, <1>6, <1>10, <2>1, <2>2, RetryFrame
<1>11. CASE LockOldName(r)
  <2>1. req[r].step = "lock"
    BY <1>11 DEF LockOldName, At
  <2>2. PICK out \in {"ok", "notFound", "error"} :
           /\ TryLockName(old, req[r].dry, out)
           /\ \/ out = "ok" /\ GoTo(r, "registerNew")
              \/ out = "notFound" /\ GoTo(r, "checkOwner")
              \/ out = "error" /\ Reject(r)
    BY <1>3, <1>11 DEF LockOldName
  <2>3. \A p \in Objects, m \in Names : Holds(p, m) => Holds(p, m)'
    BY <1>0, <1>2, <1>9, <2>1, <2>2, OwnersKept
  <2>4. CASE out = "notFound" /\ GoTo(r, "checkOwner")
    <3>1. ~req[r].dry /\ lease[old] = NoLease
      BY <1>0, <2>2, <2>4 DEF TryLockName, CallFails
    <3>2. Holds(o, new)
      BY <1>2, <1>3, <1>9, <2>1, <3>1, NoneAssumption DEF RenameHolds, Holds, NoLease
    <3> QED
      BY <1>9, <1>10, <2>1, <2>3, <2>4, <3>1, <3>2
  <2>5. ASSUME out # "notFound"
        PROVE  Holds(o, old)'
    <3>1. ~req[r].dry => lease[old] # NoLease
      BY <1>0, <2>2, <2>5 DEF TryLockName, CallFails, NoLease
    <3> QED
      BY <1>7, <1>9, <2>1, <2>3, <3>1
  <2>6. CASE out = "error" /\ Reject(r)
    BY <1>0, <1>1, <1>2, <1>9, <2>1, <2>5, <2>6, RetryReject
  <2>7. CASE out = "ok" /\ GoTo(r, "registerNew")
    BY <1>9, <1>10, <2>1, <2>5, <2>7
  <2> QED
    BY <2>2, <2>4, <2>6, <2>7
<1>12. CASE CheckNewNameOwner(r)
  <2>1. req[r].step = "checkOwner"
    BY <1>12 DEF CheckNewNameOwner, At
  <2>2. PICK out \in {"owned", "notOwned", "error"} :
           /\ CheckNameOwnership(new, o, out)
           /\ IF out = "owned" THEN GoTo(r, "admitted") ELSE Reject(r)
    BY <1>2, <1>3, <1>12 DEF CheckNewNameOwner
  <2>3. UNCHANGED lease
    BY <2>2 DEF CheckNameOwnership
  <2>4. CASE GoTo(r, "admitted")
    BY <1>2, <1>3, <1>9, <1>10, <2>1, <2>3, <2>4 DEF RenameHolds, Holds
  <2>5. CASE out # "owned" /\ Reject(r)
    <3>1. ~Holds(o, new)
      BY <1>0, <1>2, <2>2, <2>5, NoneAssumption
         DEF CheckNameOwnership, CallFails, Holds, NoLease
    <3>2. req[r].dry
      BY <1>2, <1>3, <1>9, <2>1, <3>1 DEF RenameHolds
    <3>3. Holds(o, old)'
      BY <1>9, <2>1, <2>3, <3>2 DEF Holds
    <3> QED
      BY <1>0, <1>1, <1>2, <1>9, <2>1, <2>5, <3>3, RetryReject
  <2> QED
    BY <2>2, <2>4, <2>5
<1>13. CASE RegisterNewName(r)
  <2>1. req[r].step = "registerNew"
    BY <1>13 DEF RegisterNewName, At
  <2>2. PICK out \in {"ok", "alreadyExists", "error"} :
           /\ RegisterName(new, o, req[r].dry, out)
           /\ GoTo(r, IF out = "ok" THEN "deregisterOld" ELSE "unlock")
    BY <1>2, <1>3, <1>13 DEF RegisterNewName
  <2>3. Holds(o, old)'
    <3>1. Holds(o, old)
      BY <1>2, <1>3, <1>4, <1>9, <2>1 DEF RenameHolds
    <3> QED
      BY <1>0, <1>2, <1>9, <2>1, <2>2, <3>1, OwnersKept
  <2>4. CASE out = "ok"
    <3>1. ~req[r].dry => Holds(o, new)'
      BY <1>0, <1>2, <1>9, <2>1, <2>2, <2>4, OwnersKept
    <3> QED
      BY <1>9, <1>10, <2>1, <2>2, <2>3, <2>4, <3>1
  <2>5. CASE out # "ok"
    BY <1>9, <1>10, <2>1, <2>2, <2>3, <2>5
  <2> QED
    BY <2>4, <2>5
<1>14. CASE UnlockOldName(r)
  <2>1. req[r].step = "unlock" /\ Reject(r)
    BY <1>14 DEF UnlockOldName, At
  <2>2. PICK out \in {"ok", "error"} : UnlockName(old, req[r].dry, out)
    BY <1>3, <1>14 DEF UnlockOldName
  <2>3. Holds(o, old)
    BY <1>2, <1>3, <1>4, <1>9, <2>1 DEF RenameHolds
  <2>4. Holds(o, old)'
    BY <1>0, <1>2, <1>9, <2>1, <2>2, <2>3, OwnersKept
  <2> QED
    BY <1>0, <1>1, <1>2, <1>9, <2>1, <2>4, RetryReject
<1>15. CASE DeregisterOldName(r)
  <2>1. req[r].step = "deregisterOld" /\ GoTo(r, "admitted")
    BY <1>15 DEF DeregisterOldName, At
  <2>2. PICK out \in {"ok", "error"} : DeregisterName(old, req[r].dry, out)
    BY <1>3, <1>15 DEF DeregisterOldName
  <2>3. \A m \in Names : req[r].dry \/ m # old => lease'[m] = lease[m]
    BY <1>0, <1>2, <1>9, <2>1, <2>2, OwnersKept
  <2>4. /\ req[r].dry => Holds(o, old)'
        /\ ~req[r].dry => Holds(o, new)'
    BY <1>2, <1>3, <1>9, <2>1, <2>3 DEF RenameHolds, Holds
  <2> QED
    BY <1>9, <1>10, <2>1, <2>4
<1>16. CASE ValidateDelete(r)
  <2>1. req[r].step = "deregister" /\ req[r].op = "delete"
    BY <1>0, <1>1, <1>4, <1>16 DEF ValidateDelete, At, RetryRequest
  <2>2. PICK out \in {"ok", "error"} :
           /\ DeregisterName(old, req[r].dry, out)
           /\ IF out = "ok" THEN GoTo(r, "admitted") ELSE Reject(r)
    BY <1>3, <1>16 DEF ValidateDelete
  <2>3. GoTo(r, "admitted")
    BY <1>0, <2>2 DEF DeregisterName, CallFails
  <2>4. req[r].dry => UNCHANGED lease
    BY <2>2 DEF DeregisterName, CallFails
  <2>5. RetryRequest(r)'
    BY <1>0, <1>1, <1>2, <1>3, <1>4, <1>6, <2>1, <2>3, <2>4 DEF RetryRequest, Steps, Holds
  <2> QED
    BY <1>0, <1>1, <1>2, <1>6, <2>3, <2>5, RetryFrame DEF Steps
<1> QED
  BY <1>8, <1>11, <1>12, <1>13, <1>14, <1>15, <1>16 DEF Webhook

\* The API server: what it writes is what was claimed for it, and what it
\* admits again begins with the claim the first attempt has left.
LEMMA ServerRetry ==
    ASSUME OneObject, Env \subseteq RetryFaults, TypeInv, RetryInv,
           NEW r \in Requests, Persist(r) \/ Conflict(r) \/ Abandon(r) \/ Crash(r)
    PROVE  RetryInv'
<1>0. TypeOK /\ RequestOK(r) /\ RetryRequest(r)
      /\ "crash" \notin Env /\ "abandon" \notin Env
  BY DEF RetryInv, TypeInv, RetryFaults
<1>1. req[r].step = "admitted" /\ req[r] # Idle /\ UNCHANGED lease
  BY <1>0 DEF Persist, Conflict, Abandon, Crash, At, Idle
<1>2. PICK o \in Objects : req[r].obj = o
  BY <1>0, <1>1, IdleNotRequest
<1>3. req[r].op \in {"create", "update", "delete"} /\ req[r].dry \in BOOLEAN
  BY <1>0, <1>1 DEF TypeOK, Request
<1>4. CASE Persist(r) /\ req[r].dry
  <2>1. Reject(r) /\ UNCHANGED store
    BY <1>4 DEF Persist, Reject
  <2>2. store[o].phase = "live" => Holds(o, store[o].name)
    BY <1>0, <1>1, <1>2, <1>3, <1>4 DEF Persist, RetryRequest, RequestOK, NoObject
  <2> QED
    BY <1>0, <1>1, <1>2, <2>1, <2>2, RetryReject DEF Holds
<1>5. CASE Persist(r) /\ ~req[r].dry
  <2>1. /\ store' = [store EXCEPT ![o] = Written(r)]
        /\ req' = [MarkStale(o, req) EXCEPT ![r] = Idle]
        /\ ~req[r].stale
    BY <1>2, <1>5 DEF Persist
  <2>2. \A q \in Requests \ {r} : req[q] = Idle
    BY <1>1 DEF RetryInv, OneAtATime
  <2>3. \A q \in Requests \ {r} : req'[q] = req[q]
    BY <1>0, <1>2, <2>1, <2>2, MarkStaleType
  <2>4. req'[r] = Idle
    BY <1>0, <1>2, <2>1, MarkStaleType
  <2>5. store'[o] = Written(r)
    BY <1>0, <1>2, <2>1 DEF TypeOK
  <2>6. store'[o].phase = "live" => Holds(o, store'[o].name)
    <3>1. CASE req[r].op = "create"
      BY <1>0, <1>1, <1>2, <1>5, <2>5, <3>1 DEF RetryRequest, Written
    <3>2. CASE req[r].op = "update"
      <4>1. store'[o] = [store[o] EXCEPT !.name = req[r].new]
        BY <1>2, <2>5, <3>2 DEF Written
      <4>2. store[o] \in [phase : {"live", "deleting"}, name : Names]
        BY <1>0, <1>1, <1>2, <2>1, <3>2 DEF RequestOK, TypeOK, Object
      <4>3. store'[o].name = req[r].new /\ store'[o].phase = store[o].phase
        BY <4>1, <4>2
      <4> QED
        BY <1>0, <1>1, <1>2, <1>5, <3>2, <4>3 DEF RetryRequest, RenameHolds
    <3>3. CASE req[r].op = "delete"
      <4>1. store[o] \in [phase : {"live", "deleting"}, name : Names]
        BY <1>0, <1>1, <1>2, <2>1, <3>3 DEF RequestOK, TypeOK, Object
      <4>2. store'[o] = [store[o] EXCEPT !.phase = "deleting"]
        BY <1>2, <2>5, <3>3 DEF Written
      <4> QED
        BY <4>1, <4>2
    <3> QED
      BY <1>3, <3>1, <3>2, <3>3
  <2>7. RetryRequest(r)' /\ LiveKept(o)'
    BY <1>1, <2>4, <2>6 DEF RetryRequest, LiveKept, Holds
  <2> QED
    BY <1>0, <1>1, <1>2, <2>3, <2>7, RetryFrame
<1>6. CASE Conflict(r)
  <2>1. req[r].stale /\ UNCHANGED store /\ req[r].op # "create"
    BY <1>0, <1>1, <1>6 DEF Conflict, RetryRequest
  <2>2. CASE store[o] = NoObject
    <3>1. Reject(r)
      BY <1>2, <1>6, <2>1, <2>2 DEF Conflict
    <3> QED
      BY <1>0, <1>1, <1>2, <2>1, <2>2, <3>1, RetryReject DEF NoObject
  <2>3. CASE store[o] # NoObject
    <3>1. Begin(r, req[r].op, o, req[r].new, req[r].dry)
      BY <1>2, <1>6, <2>1, <2>3 DEF Conflict
    <3>2. req[r].new \in Names \cup {None}
      BY <1>0, <1>1 DEF TypeOK, Request
    <3>3. /\ req'[r] = [step |-> FirstStep(req[r].op, o, req[r].new), op |-> req[r].op,
                        obj |-> o, old |-> store[o].name, new |-> req[r].new,
                        stale |-> FALSE, dry |-> req[r].dry]
          /\ \A q \in Requests \ {r} : req'[q] = req[q]
      BY <1>0, <1>2, <1>3, <3>1, <3>2, BeginType
    <3>4. store[o].phase \in {"live", "deleting"}
      BY <1>0, <1>2, <2>3 DEF TypeOK, Object
    <3>5. LiveKept(o)'
      BY <3>3 DEF LiveKept
    <3>6. RetryRequest(r)'
      <4>1. CASE req[r].op = "delete"
        BY <1>0, <1>1, <1>2, <2>1, <3>3, <4>1
           DEF RetryRequest, FirstStep, Holds
      <4>2. CASE req[r].op = "update" /\ store[o].phase = "live"
        <5>1. FirstStep(req[r].op, o, req[r].new) = "lock"
          BY <1>0, <1>1, <1>2, <4>2 DEF RetryRequest, FirstStep
        <5> QED
          BY <1>0, <1>1, <1>2, <2>1, <3>3, <4>2, <5>1
             DEF RetryRequest, RenameHolds, Holds
      <4>3. CASE req[r].op = "update" /\ store[o].phase = "deleting"
        <5>1. FirstStep(req[r].op, o, req[r].new) = "admitted"
          BY <4>3 DEF FirstStep
        <5> QED
          BY <2>1, <3>3, <4>3, <5>1 DEF RetryRequest
      <4> QED
        BY <1>3, <2>1, <3>4, <4>1, <4>2, <4>3
    <3> QED
      BY <1>0, <1>1, <1>2, <3>3, <3>5, <3>6, RetryFrame
  <2> QED
    BY <2>2, <2>3
<1>7. CASE Abandon(r)
  <2>1. req[r].op = "create" /\ Reject(r) /\ UNCHANGED store
    BY <1>0, <1>7 DEF Abandon
  <2>2. store[o] = NoObject
    BY <1>0, <1>1, <1>2, <2>1 DEF RetryRequest, RequestOK
  <2> QED
    BY <1>0, <1>1, <1>2, <2>1, <2>2, RetryReject DEF NoObject
<1> QED
  BY <1>0, <1>4, <1>5, <1>6, <1>7 DEF Crash

\* Every step keeps the invariant of retries.
LEMMA NextRetry ==
    ASSUME OneObject, Env \subseteq RetryFaults
    PROVE  TypeInv /\ RetryInv /\ [Next]_vars => RetryInv'
<1> SUFFICES ASSUME TypeInv, RetryInv, [Next]_vars
             PROVE  RetryInv'
  OBVIOUS
<1>0. TypeOK /\ (\A r \in Requests : RequestOK(r) /\ RetryRequest(r)) /\ "parallel" \notin Env
  BY DEF TypeInv, RetryInv, RetryFaults
<1>1. ASSUME NEW r \in Requests, NEW o \in Objects, NEW dry \in DryRuns,
             NEW op \in {"create", "update", "delete"}, NEW n \in Names \cup {None},
             store[o] = NoObject <=> op = "create",
             op = "update" => store[o].name # n,
             Submit(r, op, o, n, dry)
      PROVE  RetryInv'
  <2>1. dry \in BOOLEAN
    BY DryRunsAssumption
  <2>2. /\ req'[r] = [step |-> FirstStep(op, o, n), op |-> op, obj |-> o,
                      old |-> store[o].name, new |-> n,
                      stale |-> FALSE, dry |-> dry]
        /\ \A q \in Requests \ {r} : req'[q] = req[q]
        /\ UNCHANGED <<lease, store>>
    BY <1>0, <1>1, <2>1, BeginType DEF Submit
  <2>3. \A q \in Requests : req[q] = Idle
    BY <1>0, <1>1, IdleNotRequest DEF Submit, OneObject
  <2>4. store[o].phase = "live" => Holds(o, store[o].name)
    BY <1>0, <1>1 DEF Submit, RetryInv, LiveKept
  <2>5. store[o].phase \in {"live", "deleting"} \/ store[o] = NoObject
    BY <1>0 DEF TypeOK, Object
  <2>6. RetryRequest(r)'
    <3>1. CASE op = "create"
      BY <1>1, <2>2, <3>1 DEF RetryRequest, FirstStep
    <3>2. CASE op = "delete"
      BY <2>2, <2>4, <3>2 DEF RetryRequest, FirstStep, Holds
    <3>3. CASE op = "update" /\ store[o].phase = "live"
      <4>1. FirstStep(op, o, n) = "lock"
        BY <1>1, <3>3 DEF FirstStep
      <4> QED
        BY <1>1, <2>2, <2>4, <3>3, <4>1 DEF RetryRequest, RenameHolds, Holds
    <3>4. CASE op = "update" /\ store[o].phase = "deleting"
      <4>1. FirstStep(op, o, n) = "admitted"
        BY <3>4 DEF FirstStep
      <4> QED
        BY <2>2, <3>4, <4>1 DEF RetryRequest
    <3> QED
      BY <1>1, <2>5, <3>1, <3>2, <3>3, <3>4
  <2>7. \A q \in Requests : RetryRequest(q)'
    BY <2>2, <2>3, <2>6 DEF RetryRequest
  <2>8. OneAtATime'
    BY <2>2, <2>3 DEF OneAtATime
  <2>9. \A p \in Objects : LiveKept(p)'
    BY <2>2, <2>4 DEF LiveKept, Holds, OneObject
  <2> QED
    BY <2>7, <2>8, <2>9 DEF RetryInv
<1>2. ASSUME NEW r \in Requests, NEW o \in Objects, NEW dry \in DryRuns,
             \/ \E n \in Names : SubmitCreate(r, o, n, dry) \/ SubmitUpdate(r, o, n, dry)
             \/ SubmitDelete(r, o, dry)
      PROVE  RetryInv'
  <2>1. CASE \E n \in Names : SubmitCreate(r, o, n, dry)
    BY <1>1, <1>2, <2>1 DEF SubmitCreate
  <2>2. CASE \E n \in Names : SubmitUpdate(r, o, n, dry)
    BY <1>1, <1>2, <2>2 DEF SubmitUpdate
  <2>3. CASE SubmitDelete(r, o, dry)
    <3>1. store[o] # NoObject
      BY <2>3 DEF SubmitDelete, NoObject
    <3> QED
      BY <1>1, <1>2, <2>3, <3>1 DEF SubmitDelete
  <2> QED
    BY <1>2, <2>1, <2>2, <2>3
<1>3. ASSUME NEW o \in Objects, Touch(o)
      PROVE  RetryInv'
  <2>1. store[o] # NoObject /\ req' = MarkStale(o, req) /\ UNCHANGED <<lease, store>>
    BY <1>3 DEF Touch
  <2>2. ASSUME NEW q \in Requests
        PROVE  /\ req'[q] = Idle <=> req[q] = Idle
               /\ req'[q].obj = req[q].obj
               /\ RetryRequest(q)'
    <3>1. CASE req[q] = Idle
      BY <1>0, <1>3, <2>1, <3>1, MarkStaleType DEF RetryRequest
    <3>2. CASE req[q] # Idle
      <4>1. req[q].obj = o
        BY <1>0, <1>3, <3>2, IdleNotRequest DEF OneObject
      <4>2. req[q].op # "create"
        BY <1>0, <2>1, <3>2, <4>1 DEF RetryRequest, RequestOK
      <4>3. req'[q] = [req[q] EXCEPT !.stale = TRUE]
        BY <2>1, <4>1 DEF MarkStale
      <4>4. req[q] \in [step : Steps, op : {"create", "update", "delete"},
                        obj : Objects, old : Names \cup {None},
                        new : Names \cup {None}, stale : BOOLEAN, dry : BOOLEAN]
        BY <1>0, <3>2 DEF TypeOK, Request
      <4>5. /\ req'[q].step = req[q].step /\ req'[q].op = req[q].op
            /\ req'[q].obj = req[q].obj /\ req'[q].old = req[q].old
            /\ req'[q].new = req[q].new /\ req'[q].dry = req[q].dry
        BY <4>3, <4>4
      <4>6. req'[q] # Idle
        BY <1>3, <4>1, <4>5, NoneAssumption DEF Idle
      <4> QED
        BY <1>0, <2>1, <3>2, <4>2, <4>5, <4>6 DEF RetryRequest, RenameHolds, Holds
    <3> QED
      BY <3>1, <3>2
  <2> QED
    BY <2>1, <2>2 DEF RetryInv, OneAtATime, LiveKept, Holds
<1>4. ASSUME NEW o \in Objects, RemoveFinalizer(o)
      PROVE  RetryInv'
  <2>1. \A q \in Requests : req[q] = Idle
    BY <1>0, <1>4, IdleNotRequest DEF RemoveFinalizer, OneObject
  <2>2. store' = [store EXCEPT ![o] = NoObject] /\ req' = MarkStale(o, req)
    BY <1>4 DEF RemoveFinalizer
  <2>3. \A q \in Requests : req'[q] = Idle
    BY <1>0, <1>4, <2>1, <2>2, MarkStaleType
  <2>4. \A p \in Objects : store'[p] = NoObject
    BY <1>0, <2>2 DEF TypeOK, OneObject
  <2> QED
    BY <2>3, <2>4 DEF RetryInv, OneAtATime, RetryRequest, LiveKept, NoObject
<1>5. CASE UNCHANGED vars
  BY <1>5 DEF vars, RetryInv, OneAtATime, RetryRequest, RenameHolds, LiveKept, Holds
<1> QED
  BY <1>2, <1>3, <1>4, <1>5, WebhookRetry, ServerRetry DEF Next

\* A rename whose write conflicts with another writer is admitted again and
\* recognises the claim it has moved (CheckNameOwnership), for any number of
\* names and retries, as long as no other object asks for names, no call
\* fails and no request breaks off.
THEOREM RetriesKeepClaim ==
    ASSUME OneObject, Env \subseteq RetryFaults
    PROVE  Spec => []RetryKeepsClaim
<1>1. Init => TypeInv /\ RetryInv
  BY InitType DEF Init, RetryInv, OneAtATime, RetryRequest, LiveKept, NoObject
<1>2. TypeInv /\ RetryInv /\ [Next]_vars => TypeInv' /\ RetryInv'
  BY NextType, NextRetry
<1>3. TypeInv /\ RetryInv => RetryKeepsClaim
  BY RetryInvSuffices
<1> QED
  BY <1>1, <1>2, <1>3, PTL DEF Spec
=============================================================================
