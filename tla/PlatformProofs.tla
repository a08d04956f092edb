--------------------------- MODULE PlatformProofs ---------------------------
(***************************************************************************)
(* Proofs about Platform, for every set of spaces, routes and GUIDs, and   *)
(* any number of requests and failures.                                    *)
(***************************************************************************)
EXTENDS Platform, TLAPS

\* The org is told apart from its spaces and from the root namespace.
LEMMA KeyFacts ==
    /\ "org" \in Keys /\ Spaces \subseteq Keys /\ "root" \notin Keys
    /\ \A k \in Keys : k # "org" => k \in Spaces
    /\ \A s \in Spaces : s # "org"
    /\ \A s \in Spaces : s # "root"
BY PlatformBounds DEF Keys

\* The object of a key is an org or a space.
LEMMA ObjectType ==
    ASSUME TenancyTypeOK, NEW k \in Keys
    PROVE  /\ Object(k) \in CFNamespaceObject
           /\ Object(k).phase \in Phases /\ Object(k).ready \in BOOLEAN
           /\ k = "org" => Object(k) = org
           /\ k \in Spaces => Object(k) = space[k]
BY KeyFacts DEF TenancyTypeOK, Object, CFNamespaceObject

\* Writing the object of a key leaves the other objects alone.
LEMMA SetObjectEffect ==
    ASSUME TenancyTypeOK, NEW k \in Keys, NEW o \in CFNamespaceObject, SetObject(k, o)
    PROVE  /\ org' \in CFNamespaceObject /\ space' \in [Spaces -> CFNamespaceObject]
           /\ Object(k)' = o
           /\ \A j \in Keys : j # k => Object(j)' = Object(j)
BY KeyFacts DEF TenancyTypeOK, SetObject, Object

\* Requests and failures are counted within their bounds.
LEMMA CallType ==
    ASSUME TenancyTypeOK,
           \/ Call /\ UNCHANGED faults
           \/ RouteCall /\ UNCHANGED faults
           \/ Call /\ Fault
           \/ UNCHANGED calls /\ (Fault \/ RouteFault \/ UNCHANGED faults)
    PROVE  calls' \in 0 .. MaxEvents /\ faults' \in 0 .. MaxFaults
<1>1. calls \in 0 .. MaxEvents /\ faults \in 0 .. MaxFaults
  BY DEF TenancyTypeOK
<1> QED
  BY <1>1, PlatformBounds DEF Call, Fault, RouteCall, RouteFault

-----------------------------------------------------------------------------
(* Types.                                                                  *)

\* The initial state is well typed.
LEMMA InitType == Init => TypeOK
<1> SUFFICES ASSUME Init PROVE TypeOK
  OBVIOUS
<1>1. PICK pushed \in BOOLEAN :
        LET first == CHOOSE s \in Spaces : TRUE
            mapped == CHOOSE r \in RouteIds : TRUE
            web == [guid |-> CHOOSE g \in Guids : TRUE, port |-> 8080]
            settled == [phase |-> "live", ready |-> TRUE]
            there == IF pushed THEN {web} ELSE {}
        IN
        /\ org = IF pushed THEN settled ELSE Absent
        /\ space = [s \in Spaces |-> IF pushed /\ s = first THEN settled ELSE Absent]
        /\ ns = [k \in Keys |-> IF pushed /\ k \in {"org", first} THEN "active" ELSE "none"]
        /\ bindings = [k \in Keys \cup {"root"} |->
                        IF k = "root" \/ (pushed /\ k \in {"org", first}) THEN {"admin"} ELSE {}]
        /\ accounts = [n \in Spaces \cup {"root"} |->
                        IF n = "root" \/ (pushed /\ n = first) THEN Accounts ELSE {}]
        /\ app = [s \in Spaces |-> IF pushed /\ s = first THEN "live" ELSE "none"]
        /\ domain \in IF pushed THEN {"live"} ELSE {"none", "live"}
        /\ route = [r \in RouteIds |->
                        IF pushed /\ r = mapped
                        THEN [phase |-> "live", space |-> first, spec |-> {[web EXCEPT !.port = 0]},
                              status |-> {web}, queued |-> FALSE]
                        ELSE NoRoute]
        /\ services = [r \in RouteIds |-> IF r = mapped THEN there ELSE {}]
        /\ droplet = [s \in Spaces |-> IF pushed /\ s = first THEN "portless" ELSE "none"]
  BY DEF Init
<1> DEFINE first == CHOOSE s \in Spaces : TRUE
           web == [guid |-> CHOOSE g \in Guids : TRUE, port |-> 8080]
<1>2. first \in Spaces /\ web \in Backend /\ [web EXCEPT !.port = 0] \in Destination
  <2>1. first \in Spaces
    BY PlatformBounds
  <2>2. (CHOOSE g \in Guids : TRUE) \in Guids
    BY PlatformBounds
  <2>3. web \in Backend
    BY <2>2 DEF Backend, Ports
  <2> HIDE DEF web
  <2>4. [web EXCEPT !.port = 0] \in Destination
    BY <2>3 DEF Backend, Destination
  <2> QED
    BY <2>1, <2>3, <2>4
<1>3. Absent \in CFNamespaceObject /\ [phase |-> "live", ready |-> TRUE] \in CFNamespaceObject
  BY DEF Absent, CFNamespaceObject, Phases
<1>4. NoRoute \in CFRoute
  BY PlatformBounds DEF NoRoute, CFRoute
<1>5. NoRequest \in Request
  BY PlatformBounds DEF NoRequest, Request
<1>6. org \in CFNamespaceObject /\ space \in [Spaces -> CFNamespaceObject]
  BY <1>1, <1>3
<1>7. /\ ns \in [Keys -> {"none", "active", "terminating", "gone"}]
      /\ bindings \in [Keys \cup {"root"} -> SUBSET Roles]
      /\ accounts \in [Spaces \cup {"root"} -> SUBSET Accounts]
  BY <1>1 DEF Roles
<1>8. /\ app \in [Spaces -> {"none", "live", "deleting", "unmapped", "gone"}]
      /\ domain \in {"none", "live", "deleting", "emptied", "gone"}
      /\ droplet \in [Spaces -> {"none", "portless", "exposing"}]
  BY <1>1
<1>9. services \in [RouteIds -> SUBSET Backend]
  BY <1>1, <1>2
<1>10. route \in [RouteIds -> CFRoute]
  <2>1. [phase |-> "live", space |-> first, spec |-> {[web EXCEPT !.port = 0]},
         status |-> {web}, queued |-> FALSE] \in CFRoute
    BY <1>2 DEF CFRoute
  <2>2. \A r \in RouteIds :
            \/ route[r] = [phase |-> "live", space |-> first, spec |-> {[web EXCEPT !.port = 0]},
                           status |-> {web}, queued |-> FALSE]
            \/ route[r] = NoRoute
    BY <1>1
  <2>3. route = [r \in RouteIds |-> route[r]]
    BY <1>1
  <2> HIDE DEF first, web
  <2>4. \A r \in RouteIds : route[r] \in CFRoute
    BY <1>4, <2>1, <2>2
  <2> QED
    BY <2>3, <2>4
<1>11. /\ overdue = [s \in Spaces |-> FALSE] /\ httpRoute = services
       /\ queue = {} /\ run = [k \in Keys |-> Idle]
       /\ request = NoRequest /\ late = {} /\ calls = 0 /\ faults = 0
  BY DEF Init
<1>12. run \in [Keys -> Run]
  BY <1>11 DEF Idle, Run
<1>13. TenancyTypeOK
  BY <1>6, <1>7, <1>8, <1>11, <1>12, PlatformBounds DEF TenancyTypeOK
<1>14. RoutesTypeOK
  BY <1>5, <1>8, <1>9, <1>10, <1>11 DEF RoutesTypeOK
<1> QED
  BY <1>13, <1>14 DEF TypeOK

\* The requests of users and operators keep the types of Tenancy.
LEMMA RequestsType ==
    ASSUME TenancyTypeOK,
           \/ CreateOrg \/ ChangeAdmin
           \/ \E s \in Spaces : CreateSpace(s)
           \/ \E k \in Keys : Delete(k)
           \/ \E n \in Keys, role \in Roles : CreateRole(n, role) \/ DeleteRole(n, role)
           \/ \E a \in Accounts : ChangeAccount(a)
    PROVE  TenancyTypeOK'
<1> USE KeyFacts
<1>1. CASE CreateOrg
  <2>1. org' \in CFNamespaceObject
    BY <1>1 DEF CreateOrg, CFNamespaceObject, Phases
  <2>2. calls' \in 0 .. MaxEvents /\ faults' \in 0 .. MaxFaults
    BY <1>1, CallType DEF CreateOrg
  <2> QED
    BY <1>1, <2>1, <2>2 DEF CreateOrg, TenancyTypeOK
<1>2. CASE ChangeAdmin
  <2>1. bindings' \in [Keys \cup {"root"} -> SUBSET Roles]
    BY <1>2 DEF ChangeAdmin, TenancyTypeOK, Roles
  <2>2. queue' \in SUBSET Keys
    BY <1>2 DEF ChangeAdmin, TenancyTypeOK, Watchers
  <2>3. calls' \in 0 .. MaxEvents /\ faults' \in 0 .. MaxFaults
    BY <1>2, CallType DEF ChangeAdmin
  <2> QED
    BY <1>2, <2>1, <2>2, <2>3 DEF ChangeAdmin, TenancyTypeOK
<1>3. CASE \E s \in Spaces : CreateSpace(s)
  <2>1. PICK s \in Spaces : CreateSpace(s)
    BY <1>3
  <2>2. [phase |-> "live", ready |-> FALSE] \in CFNamespaceObject
    BY DEF CFNamespaceObject, Phases
  <2>3. space' \in [Spaces -> CFNamespaceObject] /\ queue' \in SUBSET Keys
    BY <2>1, <2>2 DEF CreateSpace, TenancyTypeOK
  <2>4. calls' \in 0 .. MaxEvents /\ faults' \in 0 .. MaxFaults
    BY <2>1, CallType DEF CreateSpace
  <2> QED
    BY <2>1, <2>3, <2>4 DEF CreateSpace, TenancyTypeOK
<1>4. CASE \E k \in Keys : Delete(k)
  <2>1. PICK k \in Keys : Delete(k)
    BY <1>4
  <2>2. [Object(k) EXCEPT !.phase = "deleting"] \in CFNamespaceObject
    BY ObjectType DEF CFNamespaceObject, Phases
  <2>3. org' \in CFNamespaceObject /\ space' \in [Spaces -> CFNamespaceObject]
    BY <2>1, <2>2, SetObjectEffect DEF Delete
  <2>4. calls' \in 0 .. MaxEvents /\ faults' \in 0 .. MaxFaults
    BY <2>1, CallType DEF Delete
  <2> QED
    BY <2>1, <2>3, <2>4 DEF Delete, TenancyTypeOK
<1>5. CASE \E n \in Keys, role \in Roles : CreateRole(n, role)
  <2>1. PICK n \in Keys, role \in Roles : CreateRole(n, role)
    BY <1>5
  <2>2. PICK complete \in BOOLEAN :
          /\ bindings' = [bindings EXCEPT ![n] = @ \cup {role},
                                          !["root"] = IF complete THEN @ \cup {"cf_user"} ELSE @]
          /\ IF complete THEN UNCHANGED faults ELSE Fault
          /\ queue' = queue \cup Watchers(n)
                        \cup (IF complete /\ "cf_user" \notin bindings["root"] THEN Watchers("root") ELSE {})
    BY <2>1 DEF CreateRole
  <2>3. bindings' \in [Keys \cup {"root"} -> SUBSET Roles]
    BY <2>2 DEF TenancyTypeOK, Roles
  <2>4. queue' \in SUBSET Keys
    BY <2>2 DEF TenancyTypeOK, Watchers
  <2>5. calls' \in 0 .. MaxEvents /\ faults' \in 0 .. MaxFaults
    BY <2>1, <2>2, CallType DEF CreateRole
  <2>6. UNCHANGED <<org, space, overdue, ns, accounts, app, run>>
    BY <2>1 DEF CreateRole
  <2> QED
    BY <2>3, <2>4, <2>5, <2>6 DEF TenancyTypeOK
<1>6. CASE \E n \in Keys, role \in Roles : DeleteRole(n, role)
  <2>1. PICK n \in Keys, role \in Roles : DeleteRole(n, role)
    BY <1>6
  <2>2. bindings' \in [Keys \cup {"root"} -> SUBSET Roles]
    BY <2>1 DEF DeleteRole, TenancyTypeOK
  <2>3. queue' \in SUBSET Keys
    BY <2>1 DEF DeleteRole, TenancyTypeOK, Watchers
  <2>4. calls' \in 0 .. MaxEvents /\ faults' \in 0 .. MaxFaults
    BY <2>1, CallType DEF DeleteRole
  <2>5. UNCHANGED <<org, space, overdue, ns, accounts, app, run>>
    BY <2>1 DEF DeleteRole
  <2> QED
    BY <2>2, <2>3, <2>4, <2>5 DEF TenancyTypeOK
<1>7. CASE \E a \in Accounts : ChangeAccount(a)
  <2>1. PICK a \in Accounts : ChangeAccount(a)
    BY <1>7
  <2>2. accounts' \in [Spaces \cup {"root"} -> SUBSET Accounts]
    BY <2>1 DEF ChangeAccount, TenancyTypeOK
  <2>3. queue' \in SUBSET Keys
    BY <2>1 DEF ChangeAccount, TenancyTypeOK, Watchers
  <2>4. calls' \in 0 .. MaxEvents /\ faults' \in 0 .. MaxFaults
    BY <2>1, CallType DEF ChangeAccount
  <2>5. UNCHANGED <<org, space, overdue, ns, bindings, app, run>>
    BY <2>1 DEF ChangeAccount
  <2> QED
    BY <2>2, <2>3, <2>4, <2>5 DEF TenancyTypeOK
<1> QED
  BY <1>1, <1>2, <1>3, <1>4, <1>5, <1>6, <1>7

\* The reconcilers of orgs and spaces keep the types of Tenancy.
LEMMA ReconcilersType ==
    ASSUME TenancyTypeOK, NEW k \in Keys,
           BeginReconcile(k) \/ CompleteReconcile(k) \/ FailReconcile(k)
           \/ DeleteNamespace(k) \/ ReleaseObject(k)
    PROVE  TenancyTypeOK'
<1> USE KeyFacts
<1>1. run[k].listed \in SUBSET Roles
  BY DEF TenancyTypeOK, Run
<1>2. \A b \in BOOLEAN : [Object(k) EXCEPT !.ready = b] \in CFNamespaceObject
  BY ObjectType DEF CFNamespaceObject
<1>3. Idle \in Run
  BY DEF Idle, Run
<1>4. CASE BeginReconcile(k)
  <2>1. [busy |-> TRUE, listed |-> {role \in bindings[Parent(k)] : Propagates(role)}] \in Run
    BY DEF Run, TenancyTypeOK, Parent
  <2>2. run' \in [Keys -> Run] /\ ns' \in [Keys -> {"none", "active", "terminating", "gone"}]
    BY <1>4, <2>1 DEF BeginReconcile, TenancyTypeOK
  <2>3. queue' \in SUBSET Keys
        /\ UNCHANGED <<org, space, overdue, bindings, accounts, app, calls, faults>>
    BY <1>4 DEF BeginReconcile, TenancyTypeOK
  <2> QED
    BY <2>2, <2>3 DEF TenancyTypeOK
<1>5. CASE CompleteReconcile(k)
  <2>1. bindings' \in [Keys \cup {"root"} -> SUBSET Roles]
    BY <1>1, <1>5 DEF CompleteReconcile, TenancyTypeOK, Propagated
  <2>2. accounts' \in [Spaces \cup {"root"} -> SUBSET Accounts]
    BY <1>5 DEF CompleteReconcile, TenancyTypeOK, PropagatedAccounts
  <2>3. org' \in CFNamespaceObject /\ space' \in [Spaces -> CFNamespaceObject]
    BY <1>2, <1>5, SetObjectEffect DEF CompleteReconcile
  <2>4. run' \in [Keys -> Run]
    BY <1>3, <1>5 DEF CompleteReconcile, TenancyTypeOK
  <2>5. queue' \in SUBSET Keys
    BY <1>5 DEF CompleteReconcile, TenancyTypeOK, Watchers
  <2>6. UNCHANGED <<overdue, ns, app, calls, faults>>
    BY <1>5 DEF CompleteReconcile
  <2> QED
    BY <2>1, <2>2, <2>3, <2>4, <2>5, <2>6 DEF TenancyTypeOK
<1>6. CASE FailReconcile(k)
  <2>1. PICK done \in SUBSET run[k].listed :
          /\ bindings' = [bindings EXCEPT ![k] = @ \cup done]
          /\ queue' = queue \cup {k} \cup (IF done \subseteq bindings[k] THEN {} ELSE Watchers(k))
    BY <1>6 DEF FailReconcile
  <2>2. bindings' \in [Keys \cup {"root"} -> SUBSET Roles]
    BY <1>1, <2>1 DEF TenancyTypeOK
  <2>3. queue' \in SUBSET Keys
    BY <2>1 DEF TenancyTypeOK, Watchers
  <2>4. org' \in CFNamespaceObject /\ space' \in [Spaces -> CFNamespaceObject]
    BY <1>2, <1>6, SetObjectEffect DEF FailReconcile
  <2>5. run' \in [Keys -> Run]
    BY <1>3, <1>6 DEF FailReconcile, TenancyTypeOK
  <2>6. calls' \in 0 .. MaxEvents /\ faults' \in 0 .. MaxFaults
    BY <1>6, CallType DEF FailReconcile
  <2>7. UNCHANGED <<overdue, ns, accounts, app>>
    BY <1>6 DEF FailReconcile
  <2> QED
    BY <2>2, <2>3, <2>4, <2>5, <2>6, <2>7 DEF TenancyTypeOK
<1>7. CASE DeleteNamespace(k)
  <2>1. ns' \in [Keys -> {"none", "active", "terminating", "gone"}]
    BY <1>7 DEF DeleteNamespace, TenancyTypeOK
  <2> QED
    BY <1>7, <2>1 DEF DeleteNamespace, TenancyTypeOK
<1>8. CASE ReleaseObject(k)
  <2>1. [phase |-> "gone", ready |-> FALSE] \in CFNamespaceObject
    BY DEF CFNamespaceObject, Phases
  <2>2. org' \in CFNamespaceObject /\ space' \in [Spaces -> CFNamespaceObject]
    BY <1>8, <2>1, SetObjectEffect DEF ReleaseObject
  <2> QED
    BY <1>8, <2>2 DEF ReleaseObject, TenancyTypeOK
<1> QED
  BY <1>4, <1>5, <1>6, <1>7, <1>8

\* Deletion keeps the types of Tenancy.
LEMMA DeletionType ==
    ASSUME TenancyTypeOK,
           \/ EmptyOrgNamespace
           \/ \E s \in Spaces : TimeOut(s) \/ DeleteApps(s) \/ EmptySpaceNamespace(s)
           \/ \E n \in Keys : RemoveNamespace(n)
    PROVE  TenancyTypeOK'
<1> USE KeyFacts
<1>1. CASE EmptyOrgNamespace
  <2>1. space' \in [Spaces -> CFNamespaceObject]
    <3>1. \A s \in Spaces :
             [space[s] EXCEPT !.phase = IF @ = "live" THEN "deleting" ELSE @] \in CFNamespaceObject
      BY DEF TenancyTypeOK, CFNamespaceObject, Phases
    <3> QED
      BY <1>1, <3>1 DEF EmptyOrgNamespace
  <2>2. bindings' \in [Keys \cup {"root"} -> SUBSET Roles] /\ queue' \in SUBSET Keys
    BY <1>1 DEF EmptyOrgNamespace, TenancyTypeOK, Watchers
  <2> QED
    BY <1>1, <2>1, <2>2 DEF EmptyOrgNamespace, TenancyTypeOK
<1>2. CASE \E s \in Spaces : TimeOut(s)
  BY <1>2 DEF TimeOut, TenancyTypeOK
<1>3. CASE \E s \in Spaces : DeleteApps(s)
  BY <1>3 DEF DeleteApps, TenancyTypeOK
<1>4. CASE \E s \in Spaces : EmptySpaceNamespace(s)
  <2>1. PICK s \in Spaces : EmptySpaceNamespace(s)
    BY <1>4
  <2>2. /\ bindings' \in [Keys \cup {"root"} -> SUBSET Roles]
        /\ accounts' \in [Spaces \cup {"root"} -> SUBSET Accounts]
    BY <2>1 DEF EmptySpaceNamespace, TenancyTypeOK
  <2>3. app' \in [Spaces -> {"none", "live", "deleting", "unmapped", "gone"}]
    BY <2>1 DEF EmptySpaceNamespace, TenancyTypeOK
  <2> QED
    BY <2>1, <2>2, <2>3 DEF EmptySpaceNamespace, TenancyTypeOK
<1>5. CASE \E n \in Keys : RemoveNamespace(n)
  BY <1>5 DEF RemoveNamespace, TenancyTypeOK
<1> QED
  BY <1>1, <1>2, <1>3, <1>4, <1>5

\* The variables of Tenancy that the steps of Routes change stay typed.
LEMMA SharedType ==
    ASSUME TenancyTypeOK, UNCHANGED tenancyVars,
           app' \in [Spaces -> {"none", "live", "deleting", "unmapped", "gone"}],
           calls' \in 0 .. MaxEvents, faults' \in 0 .. MaxFaults
    PROVE  TenancyTypeOK'
BY DEF TenancyTypeOK, tenancyVars

\* The changes routes go through give routes.
LEMMA RouteChanges ==
    ASSUME RoutesTypeOK, NEW r \in RouteIds
    PROVE  /\ route[r] \in CFRoute
           /\ [route[r] EXCEPT !.queued = TRUE] \in CFRoute
           /\ [route[r] EXCEPT !.phase = "deleting", !.queued = TRUE] \in CFRoute
           /\ [route[r] EXCEPT !.phase = "gone", !.queued = FALSE] \in CFRoute
           /\ \A dests \in SUBSET Destination :
                [route[r] EXCEPT !.spec = dests, !.queued = TRUE] \in CFRoute
           /\ \A b \in BOOLEAN : [route[r] EXCEPT !.queued = b] \in CFRoute
BY DEF RoutesTypeOK, CFRoute

\* Where a route leads, by its destinations and the droplet of its app.
LEMMA EffectiveType ==
    ASSUME RoutesTypeOK, NEW r \in RouteIds
    PROVE  EffectiveDestinations(r) \in SUBSET Backend
<1> DEFINE current == droplet[route[r].space]
           port(d) == IF d.port # 0 THEN d.port ELSE IF current = "exposing" THEN 5000 ELSE 8080
<1>1. ASSUME NEW d \in route[r].spec
      PROVE  [d EXCEPT !.port = port(d)] \in Backend
  <2>1. d \in Destination
    BY DEF RoutesTypeOK, CFRoute
  <2>2. port(d) \in Ports
    BY <2>1 DEF Destination, Ports
  <2> HIDE DEF port
  <2> QED
    BY <2>1, <2>2 DEF Destination, Backend
<1>2. EffectiveDestinations(r) =
        {[d EXCEPT !.port = port(d)] : d \in {e \in route[r].spec : e.port # 0 \/ current # "none"}}
  BY DEF EffectiveDestinations
<1> HIDE DEF port
<1> QED
  BY <1>1, <1>2

\* Queueing the routes of an app changes nothing else about routes.
LEMMA QueueRoutes ==
    ASSUME RoutesTypeOK, NEW s \in Spaces
    PROVE  /\ QueueRoutesOf(s, route) \in [RouteIds -> CFRoute]
           /\ \A r \in RouteIds :
                LET q == QueueRoutesOf(s, route)[r] IN
                /\ q.phase = route[r].phase /\ q.space = route[r].space
                /\ q.spec = route[r].spec /\ q.status = route[r].status
                /\ q.queued = (route[r].queued \/ (r \in RoutesIn(s) /\ route[r].spec # {}))
<1> SUFFICES ASSUME NEW r \in RouteIds
             PROVE  LET q == QueueRoutesOf(s, route)[r] IN
                    /\ q \in CFRoute
                    /\ q.phase = route[r].phase /\ q.space = route[r].space
                    /\ q.spec = route[r].spec /\ q.status = route[r].status
                    /\ q.queued = (route[r].queued \/ (r \in RoutesIn(s) /\ route[r].spec # {}))
  BY DEF QueueRoutesOf
<1>1. route[r] \in CFRoute
  BY DEF RoutesTypeOK
<1>2. QueueRoutesOf(s, route)[r] =
        IF r \in RoutesIn(s) /\ route[r].spec # {}
        THEN [route[r] EXCEPT !.queued = TRUE] ELSE route[r]
  BY DEF QueueRoutesOf
<1>3. CASE r \in RoutesIn(s) /\ route[r].spec # {}
  <2>1. QueueRoutesOf(s, route)[r] = [route[r] EXCEPT !.queued = TRUE]
    BY <1>2, <1>3
  <2> QED
    BY <1>1, <1>3, <2>1 DEF CFRoute
<1>4. CASE ~(r \in RoutesIn(s) /\ route[r].spec # {})
  <2>1. QueueRoutesOf(s, route)[r] = route[r]
    BY <1>2, <1>4
  <2>2. route[r].queued \in BOOLEAN
    BY <1>1 DEF CFRoute
  <2> QED
    BY <1>1, <1>4, <2>1, <2>2
<1> QED
  BY <1>3, <1>4

\* The requests of users about routes and apps keep the types.
LEMMA RouteRequestsType ==
    ASSUME TypeOK, UNCHANGED tenancyVars,
           \/ CreateDomain \/ DeleteDomain
           \/ \E r \in RouteIds, s \in Spaces : CreateRoute(r, s)
           \/ \E r \in RouteIds : DeleteRoute(r) \/ InsertDestinations(r)
           \/ \E r \in RouteIds, guid \in Guids : RemoveDestination(r, guid)
           \/ \E s \in Spaces : ListUnmapped(s) \/ CreateApp(s) \/ SetDroplet(s) \/ DeleteApp(s)
    PROVE  TypeOK'
<1> USE DEF TypeOK
<1>1. RouteCall /\ UNCHANGED faults
  <2>1. CASE CreateDomain \/ DeleteDomain
    BY <2>1 DEF CreateDomain, DeleteDomain
  <2>2. CASE \E r \in RouteIds, s \in Spaces : CreateRoute(r, s)
    BY <2>2 DEF CreateRoute
  <2>3. CASE \E r \in RouteIds : DeleteRoute(r) \/ InsertDestinations(r)
    BY <2>3 DEF DeleteRoute, InsertDestinations
  <2>4. CASE \E r \in RouteIds, guid \in Guids : RemoveDestination(r, guid)
    BY <2>4 DEF RemoveDestination
  <2>5. CASE \E s \in Spaces : ListUnmapped(s) \/ CreateApp(s) \/ SetDroplet(s) \/ DeleteApp(s)
    BY <2>5 DEF ListUnmapped, CreateApp, SetDroplet, DeleteApp
  <2> QED
    BY <2>1, <2>2, <2>3, <2>4, <2>5
<1>2. calls' \in 0 .. MaxEvents /\ faults' \in 0 .. MaxFaults
  BY <1>1, CallType
<1>3. app' \in [Spaces -> {"none", "live", "deleting", "unmapped", "gone"}]
  <2>1. app \in [Spaces -> {"none", "live", "deleting", "unmapped", "gone"}]
    BY DEF TenancyTypeOK
  <2>2. \/ app' = app
        \/ \E s \in Spaces, phase \in {"live", "deleting"} : app' = [app EXCEPT ![s] = phase]
    <3>1. CASE CreateDomain \/ DeleteDomain
      BY <3>1 DEF CreateDomain, DeleteDomain
    <3>2. CASE \E r \in RouteIds, s \in Spaces : CreateRoute(r, s)
      BY <3>2 DEF CreateRoute
    <3>3. CASE \E r \in RouteIds : DeleteRoute(r) \/ InsertDestinations(r)
      BY <3>3 DEF DeleteRoute, InsertDestinations
    <3>4. CASE \E r \in RouteIds, guid \in Guids : RemoveDestination(r, guid)
      BY <3>4 DEF RemoveDestination
    <3>5. CASE \E s \in Spaces : ListUnmapped(s) \/ CreateApp(s) \/ SetDroplet(s) \/ DeleteApp(s)
      BY <3>5 DEF ListUnmapped, CreateApp, SetDroplet, DeleteApp
    <3> QED
      BY <3>1, <3>2, <3>3, <3>4, <3>5
  <2> QED
    BY <2>1, <2>2
<1>4. TenancyTypeOK'
  BY <1>2, <1>3, SharedType
<1>5. NoRoute \in CFRoute /\ NoRequest \in Request
  BY PlatformBounds DEF NoRoute, CFRoute, NoRequest, Request
<1>6. CASE CreateDomain \/ DeleteDomain
  BY <1>4, <1>6 DEF CreateDomain, DeleteDomain, RoutesTypeOK
<1>7. CASE \E r \in RouteIds, s \in Spaces : CreateRoute(r, s)
  <2>1. PICK r \in RouteIds, s \in Spaces : CreateRoute(r, s)
    BY <1>7
  <2>2. [NoRoute EXCEPT !.phase = "live", !.space = s, !.queued = TRUE] \in CFRoute
    BY <1>5 DEF CFRoute
  <2>3. route' \in [RouteIds -> CFRoute] /\ late' \in SUBSET RouteIds
    BY <2>1, <2>2 DEF CreateRoute, RoutesTypeOK
  <2> QED
    BY <1>4, <2>1, <2>3 DEF CreateRoute, RoutesTypeOK
<1>8. CASE \E r \in RouteIds : DeleteRoute(r)
  <2>1. PICK r \in RouteIds : DeleteRoute(r)
    BY <1>8
  <2>2. route' = [route EXCEPT ![r] = [route[r] EXCEPT !.phase = "deleting", !.queued = TRUE]]
    BY <2>1 DEF DeleteRoute, RoutesTypeOK
  <2>3. route' \in [RouteIds -> CFRoute]
    BY <2>2, RouteChanges DEF RoutesTypeOK
  <2> QED
    BY <1>4, <2>1, <2>3 DEF DeleteRoute, RoutesTypeOK
<1>9. CASE \E r \in RouteIds : InsertDestinations(r)
  <2>1. PICK r \in RouteIds : InsertDestinations(r)
    BY <1>9
  <2>2. PICK port \in {0, 8080} :
          request' = [kind |-> "insert", target |-> r, read |-> Records(r), port |-> port, routes |-> {}]
    BY <2>1 DEF InsertDestinations
  <2>3. Records(r) \in SUBSET Destination
    <3> DEFINE effective(d) == {e \in route[r].status : d.port = 0 /\ e.guid = d.guid}
               record(d) == IF effective(d) = {} THEN d ELSE CHOOSE e \in effective(d) : TRUE
    <3>1. /\ \A d \in route[r].spec : d \in Destination
          /\ \A e \in route[r].status : e \in Destination
      BY DEF RoutesTypeOK, CFRoute, Backend, Destination, Ports
    <3>2. ASSUME NEW d \in route[r].spec
          PROVE  record(d) \in Destination
      <4>1. effective(d) \subseteq route[r].status
        OBVIOUS
      <4>2. effective(d) # {} => (CHOOSE e \in effective(d) : TRUE) \in effective(d)
        <5> HIDE DEF effective
        <5> QED
          OBVIOUS
      <4> QED
        BY <3>1, <4>1, <4>2
    <3>3. Records(r) = {record(d) : d \in route[r].spec}
      BY DEF Records
    <3> HIDE DEF record
    <3> QED
      BY <3>2, <3>3
  <2>4. request' \in Request
    BY <2>2, <2>3 DEF Request, Ports
  <2>5. UNCHANGED <<domain, route, services, httpRoute, droplet, late>>
    BY <2>1 DEF InsertDestinations
  <2> QED
    BY <1>4, <2>4, <2>5 DEF RoutesTypeOK
<1>10. CASE \E r \in RouteIds, guid \in Guids : RemoveDestination(r, guid)
  <2>1. PICK r \in RouteIds, guid \in Guids : RemoveDestination(r, guid)
    BY <1>10
  <2> DEFINE dests == {d \in route[r].spec : d.guid # guid}
  <2>2. dests \in SUBSET Destination
    BY DEF RoutesTypeOK, CFRoute
  <2>3. route' = [route EXCEPT ![r] = [route[r] EXCEPT !.spec = dests, !.queued = TRUE]]
    BY <2>1 DEF RemoveDestination, RoutesTypeOK
  <2>4. route' \in [RouteIds -> CFRoute]
    <3> HIDE DEF dests
    <3> QED
      BY <2>2, <2>3, RouteChanges DEF RoutesTypeOK
  <2> QED
    BY <1>4, <2>1, <2>4 DEF RemoveDestination, RoutesTypeOK
<1>11. CASE \E s \in Spaces : ListUnmapped(s)
  <2>1. PICK s \in Spaces :
          request' = [NoRequest EXCEPT !.kind = "unmapped",
                                       !.routes = {r \in RoutesIn(s) : route[r].spec = {}}]
    BY <1>11 DEF ListUnmapped
  <2>2. request' \in Request
    BY <1>5, <2>1 DEF Request, RoutesIn
  <2> QED
    BY <1>4, <1>11, <2>2 DEF ListUnmapped, RoutesTypeOK
<1>12. CASE \E s \in Spaces : CreateApp(s)
  BY <1>4, <1>12 DEF CreateApp, RoutesTypeOK
<1>13. CASE \E s \in Spaces : SetDroplet(s)
  <2>1. PICK s \in Spaces : SetDroplet(s)
    BY <1>13
  <2>2. route' \in [RouteIds -> CFRoute]
    BY <2>1, QueueRoutes DEF SetDroplet
  <2>3. droplet' \in [Spaces -> {"none", "portless", "exposing"}]
    BY <2>1 DEF SetDroplet, RoutesTypeOK
  <2> QED
    BY <1>4, <2>1, <2>2, <2>3 DEF SetDroplet, RoutesTypeOK
<1>14. CASE \E s \in Spaces : DeleteApp(s)
  <2>1. PICK s \in Spaces : DeleteApp(s)
    BY <1>14
  <2>2. route' \in [RouteIds -> CFRoute]
    BY <2>1, QueueRoutes DEF DeleteApp
  <2> QED
    BY <1>4, <2>1, <2>2 DEF DeleteApp, RoutesTypeOK
<1> QED
  BY <1>6, <1>7, <1>8, <1>9, <1>10, <1>11, <1>12, <1>13, <1>14

\* What a reconciliation of a route does to it, and a failed one.
LEMMA ReconcileEffect ==
    ASSUME RoutesTypeOK, NEW r \in RouteIds, NEW status \in SUBSET Backend, NEW queued \in BOOLEAN,
           NEW x, x = [route[r] EXCEPT !.status = status, !.queued = queued]
    PROVE  /\ x \in CFRoute
           /\ x.phase = route[r].phase /\ x.space = route[r].space /\ x.spec = route[r].spec
           /\ x.status = status /\ x.queued = queued
BY DEF RoutesTypeOK, CFRoute

\* The Services of a route are backends.
LEMMA ServicesType ==
    ASSUME RoutesTypeOK, NEW r \in RouteIds
    PROVE  /\ PatchedServices(r) \in SUBSET Backend
           /\ \A E : WithoutOrphans(PatchedServices(r), E) \in SUBSET Backend
BY DEF RoutesTypeOK, CFRoute, PatchedServices, WithoutOrphans

\* The controllers of routes, domains and apps, and the second steps of
\* requests, keep the types.
LEMMA RouteStepsType ==
    ASSUME TypeOK, RouteSteps
    PROVE  TypeOK'
<1> USE DEF TypeOK
<1>1. UNCHANGED tenancyVars
  BY DEF RouteSteps
<1>2. NoRequest \in Request
  BY PlatformBounds DEF NoRequest, Request
<1>3. CASE CommitInsert
  <2>1. request \in Request
    BY DEF RoutesTypeOK
  <2> DEFINE r == request.target
  <2>2. r \in RouteIds /\ request.read \in SUBSET Destination /\ request.port \in Ports \cup {0}
    BY <2>1 DEF Request
  <2>3. PICK guid \in Guids :
          LET dests == Merged(request.read, request.port, guid)
              ok == RouteExists(r) /\ ValidDestinations(r, dests)
          IN /\ route' = IF ok THEN [route EXCEPT ![r].spec = dests, ![r].queued = TRUE] ELSE route
             /\ late' = late \cup (IF ok /\ app[route[r].space] = "unmapped" THEN {r} ELSE {})
    BY <1>3 DEF CommitInsert
  <2> DEFINE dests == Merged(request.read, request.port, guid)
  <2>4. dests \in SUBSET Destination
    BY <2>2 DEF Merged, Destination
  <2> HIDE DEF r, dests
  <2>5. \/ route' = route
        \/ route' = [route EXCEPT ![r] = [route[r] EXCEPT !.spec = dests, !.queued = TRUE]]
    BY <2>2, <2>3 DEF RoutesTypeOK, dests
  <2>6. route' \in [RouteIds -> CFRoute]
    <3>1. [route[r] EXCEPT !.spec = dests, !.queued = TRUE] \in CFRoute
      BY <2>2, <2>4, RouteChanges
    <3> QED
      BY <2>2, <2>5, <3>1 DEF RoutesTypeOK
  <2>7. late' \in SUBSET RouteIds
    BY <2>2, <2>3 DEF RoutesTypeOK
  <2>8. /\ request' = NoRequest
        /\ UNCHANGED <<domain, services, httpRoute, droplet, app, calls, faults>>
    BY <1>3 DEF CommitInsert
  <2> QED
    BY <1>1, <1>2, <2>6, <2>7, <2>8 DEF RoutesTypeOK, TenancyTypeOK, tenancyVars
<1>4. CASE DeleteUnmapped \/ DeleteRoutesOfDomain
  <2>1. route' \in [RouteIds -> CFRoute]
    BY <1>4, RouteChanges DEF DeleteUnmapped, DeleteRoutesOfDomain
  <2>2. /\ request' \in {request, NoRequest}
        /\ UNCHANGED <<domain, services, httpRoute, droplet, late, app, calls, faults>>
    BY <1>4 DEF DeleteUnmapped, DeleteRoutesOfDomain
  <2> QED
    BY <1>1, <1>2, <2>1, <2>2 DEF RoutesTypeOK, TenancyTypeOK, tenancyVars
<1>5. CASE FindNoRoutes \/ ReleaseDomain
  BY <1>1, <1>5 DEF FindNoRoutes, ReleaseDomain, RoutesTypeOK, TenancyTypeOK, tenancyVars
<1>6. CASE \E s \in Spaces : UnmapApp(s) \/ ReleaseApp(s)
  <2>1. PICK s \in Spaces : UnmapApp(s) \/ ReleaseApp(s)
    BY <1>6
  <2>2. app' \in [Spaces -> {"none", "live", "deleting", "unmapped", "gone"}]
    BY <2>1 DEF UnmapApp, ReleaseApp, TenancyTypeOK
  <2>3. route' \in [RouteIds -> CFRoute]
    <3>1. CASE UnmapApp(s)
      <4>1. \A r \in RouteIds :
              [QueueRoutesOf(s, route)[r] EXCEPT !.spec = IF r \in RoutesIn(s) THEN {} ELSE @] \in CFRoute
        <5>1. \A r \in RouteIds : QueueRoutesOf(s, route)[r] \in CFRoute
          BY QueueRoutes
        <5> QED
          BY <5>1 DEF CFRoute
      <4> QED
        BY <3>1, <4>1 DEF UnmapApp
    <3>2. CASE ReleaseApp(s)
      BY <3>2, QueueRoutes DEF ReleaseApp
    <3> QED
      BY <2>1, <3>1, <3>2
  <2>4. UNCHANGED <<domain, services, httpRoute, droplet, request, late, calls, faults>>
    BY <2>1 DEF UnmapApp, ReleaseApp
  <2> QED
    BY <1>1, <2>2, <2>3, <2>4 DEF RoutesTypeOK, TenancyTypeOK, tenancyVars
<1>7. CASE \E r \in RouteIds : ReconcileRoute(r)
  <2>1. PICK r \in RouteIds : ReconcileRoute(r)
    BY <1>7
  <2> DEFINE effective == EffectiveDestinations(r)
             queued == effective # route[r].status
  <2>2. effective \in SUBSET Backend /\ queued \in BOOLEAN
    BY EffectiveType
  <2>3. route' = [route EXCEPT ![r] = [route[r] EXCEPT !.status = effective, !.queued = queued]]
    BY <2>1 DEF ReconcileRoute, RoutesTypeOK
  <2>4. route' \in [RouteIds -> CFRoute]
    <3> HIDE DEF effective, queued
    <3> QED
      BY <2>2, <2>3, ReconcileEffect, ZenonT(30) DEF RoutesTypeOK
  <2>5. httpRoute' \in [RouteIds -> SUBSET Backend]
    BY <2>1 DEF ReconcileRoute, RoutesTypeOK, CFRoute
  <2>6. services' \in [RouteIds -> SUBSET Backend]
    BY <2>1, ServicesType DEF ReconcileRoute, RoutesTypeOK
  <2>7. UNCHANGED <<domain, droplet, request, late, app, calls, faults>>
    BY <2>1 DEF ReconcileRoute
  <2> QED
    BY <1>1, <2>4, <2>5, <2>6, <2>7 DEF RoutesTypeOK, TenancyTypeOK, tenancyVars
<1>8. CASE \E r \in RouteIds : FailRoute(r)
  <2>1. PICK r \in RouteIds : FailRoute(r)
    BY <1>8
  <2>2. PICK reached \in {"services", "httpRoute", "status"} :
          /\ services' = [services EXCEPT ![r] = PatchedServices(r)]
          /\ httpRoute' = [httpRoute EXCEPT ![r] = IF reached = "services" THEN @ ELSE route[r].status]
          /\ route' = [route EXCEPT ![r].status = IF reached = "status" THEN EffectiveDestinations(r) ELSE @]
    BY <2>1 DEF FailRoute
  <2>3. route' \in [RouteIds -> CFRoute]
    <3> DEFINE status == IF reached = "status" THEN EffectiveDestinations(r) ELSE route[r].status
    <3>1. route[r] \in CFRoute /\ status \in SUBSET Backend
      BY EffectiveType DEF RoutesTypeOK, CFRoute
    <3>2. route' = [route EXCEPT ![r] = [route[r] EXCEPT !.status = status]]
      BY <2>2 DEF RoutesTypeOK
    <3> HIDE DEF status
    <3>3. [route[r] EXCEPT !.status = status] \in CFRoute
      BY <3>1 DEF CFRoute
    <3> QED
      BY <3>2, <3>3 DEF RoutesTypeOK
  <2>4. httpRoute' \in [RouteIds -> SUBSET Backend]
    BY <2>2 DEF RoutesTypeOK, CFRoute
  <2>5. services' \in [RouteIds -> SUBSET Backend]
    BY <2>2, ServicesType DEF RoutesTypeOK
  <2>6. UNCHANGED <<domain, droplet, request, late, app, calls>>
    BY <2>1 DEF FailRoute
  <2>7. calls' \in 0 .. MaxEvents /\ faults' \in 0 .. MaxFaults
    BY <2>1, CallType DEF FailRoute
  <2> QED
    BY <1>1, <2>3, <2>4, <2>5, <2>6, <2>7 DEF RoutesTypeOK, TenancyTypeOK, tenancyVars
<1>9. CASE \E r \in RouteIds : FinalizeRoute(r)
  <2>1. PICK r \in RouteIds : FinalizeRoute(r)
    BY <1>9
  <2>2. route' = [route EXCEPT ![r] = [route[r] EXCEPT !.phase = "gone", !.queued = FALSE]]
    BY <2>1 DEF FinalizeRoute, RoutesTypeOK
  <2>3. route' \in [RouteIds -> CFRoute]
    BY <2>2, RouteChanges DEF RoutesTypeOK
  <2>4. /\ services' \in [RouteIds -> SUBSET Backend]
        /\ httpRoute' \in [RouteIds -> SUBSET Backend]
    BY <2>1 DEF FinalizeRoute, RoutesTypeOK
  <2>5. UNCHANGED <<domain, droplet, request, late, app, calls, faults>>
    BY <2>1 DEF FinalizeRoute
  <2> QED
    BY <1>1, <2>3, <2>4, <2>5 DEF RoutesTypeOK, TenancyTypeOK, tenancyVars
<1> QED
  BY <1>3, <1>4, <1>5, <1>6, <1>7, <1>8, <1>9 DEF RouteSteps

\* Every step keeps the types.
LEMMA NextType ==
    ASSUME TypeOK, [Next]_vars
    PROVE  TypeOK'
<1> USE DEF TypeOK
<1>1. CASE UNCHANGED vars
  BY <1>1 DEF vars, TenancyTypeOK, RoutesTypeOK
<1>2. CASE UserSteps
  <2>1. UNCHANGED routesVars => RoutesTypeOK'
    BY DEF routesVars, RoutesTypeOK
  <2> QED
    BY <1>2, <2>1, RequestsType, RouteRequestsType DEF UserSteps
<1>3. CASE OrgAndSpaceSteps
  <2>1. UNCHANGED routesVars => RoutesTypeOK'
    BY DEF routesVars, RoutesTypeOK
  <2>2. ASSUME NEW s \in Spaces, DeleteAppsOf(s)
        PROVE  TypeOK'
    <3>1. route' \in [RouteIds -> CFRoute] /\ UNCHANGED <<domain, services, httpRoute, droplet, request, late>>
      BY <2>2, QueueRoutes DEF DeleteAppsOf
    <3>2. TenancyTypeOK'
      BY <2>2, DeletionType DEF DeleteAppsOf
    <3> QED
      BY <3>1, <3>2 DEF RoutesTypeOK
  <2>3. ASSUME NEW s \in Spaces, EmptyNamespace(s)
        PROVE  TypeOK'
    <3>1. route' \in [RouteIds -> CFRoute]
      BY <2>3, RouteChanges DEF EmptyNamespace, DeleteRoutesIn
    <3>2. UNCHANGED <<domain, services, httpRoute, droplet, request, late>>
      BY <2>3 DEF EmptyNamespace
    <3>3. TenancyTypeOK'
      BY <2>3, DeletionType DEF EmptyNamespace
    <3> QED
      BY <3>1, <3>2, <3>3 DEF RoutesTypeOK
  <2>4. ASSUME NEW n \in Keys, RemoveNamespaceOf(n)
        PROVE  TypeOK'
    BY <2>1, <2>4, DeletionType DEF RemoveNamespaceOf
  <2> QED
    BY <1>3, <2>1, <2>2, <2>3, <2>4, ReconcilersType, DeletionType DEF OrgAndSpaceSteps
<1>4. CASE Restart
  <2>1. run' \in [Keys -> Run] /\ queue' \in SUBSET Keys
    BY <1>4 DEF Restart, Idle, Run
  <2>2. route' \in [RouteIds -> CFRoute]
    <3>1. \A r \in RouteIds : RouteExists(r) \in BOOLEAN
      BY DEF RouteExists
    <3> QED
      BY <1>4, <3>1, RouteChanges DEF Restart
  <2>3. calls' \in 0 .. MaxEvents /\ faults' \in 0 .. MaxFaults
    BY <1>4, CallType DEF Restart
  <2>4. UNCHANGED <<org, space, overdue, ns, bindings, accounts, app,
                    domain, services, httpRoute, droplet, request, late>>
    BY <1>4 DEF Restart
  <2> QED
    BY <2>1, <2>2, <2>3, <2>4 DEF TenancyTypeOK, RoutesTypeOK
<1> QED
  BY <1>1, <1>2, <1>3, <1>4, RouteStepsType DEF Next

\* Orgs, spaces, namespaces, access, apps, the domain and the routes are well
\* typed in every reachable state.
THEOREM TypeCorrect == Spec => []TypeOK
BY InitType, NextType, PTL DEF Spec

-----------------------------------------------------------------------------
(* Routes.                                                                 *)

\* A route that is not late has a domain that no finalizer has found empty,
\* and a destination of it an app that no finalizer has unmapped.
IntactRoute(r) ==
    r \notin late =>
        /\ RouteExists(r) => domain \in {"live", "deleting"}
        /\ route[r].phase = "live" /\ route[r].spec # {} =>
              app[route[r].space] \in {"live", "deleting"}

ServedRoute(r) ==
    route[r].phase = "live" =>
        \A b \in httpRoute[r] : b.guid \in GuidsOf(route[r].status) => b.guid \in GuidsOf(services[r])

SettledRoute(r) ==
    route[r].phase = "live" /\ ~route[r].queued =>
        /\ route[r].status = EffectiveDestinations(r)
        /\ httpRoute[r] = route[r].status
        /\ services[r] = route[r].status

RouteInv == \A r \in RouteIds : IntactRoute(r) /\ ServedRoute(r) /\ SettledRoute(r)

\* It gives the three properties of routes.
LEMMA RouteInvSuffices ==
    ASSUME TypeOK, RouteInv
    PROVE  RoutesIntact /\ BackendsServed /\ DriftIsQueued
BY DEF RouteInv, IntactRoute, ServedRoute, SettledRoute, RoutesIntact, RouteHasDomain,
       DestinationHasApp, BackendsServed, DriftIsQueued, DomainExists, AppFound

\* A step that at most deletes the route, queues it or takes destinations out
\* of it, and queues it when it does.
Quiet(r) ==
    /\ RouteExists(r)' => RouteExists(r)
    /\ route'[r].phase = "live" =>
          /\ route[r].phase = "live"
          /\ route'[r].space = route[r].space
          /\ route'[r].status = route[r].status
          /\ route'[r].spec # {} => route[r].spec # {}
          /\ ~route'[r].queued => ~route[r].queued /\ route'[r].spec = route[r].spec
    /\ httpRoute'[r] = httpRoute[r] /\ services'[r] = services[r]

AppsKept == \A s \in Spaces : app[s] \in {"live", "deleting"} => app'[s] \in {"live", "deleting"}
DomainKept == domain \in {"live", "deleting"} => domain' \in {"live", "deleting"}

\* Where a route leads depends on its destinations and on the droplet of the
\* app of its space, nothing else.
LEMMA EffectiveFrame ==
    ASSUME NEW r \in RouteIds, route'[r].spec = route[r].spec,
           \/ route[r].spec = {}
           \/ droplet'[route'[r].space] = droplet[route[r].space]
    PROVE  EffectiveDestinations(r)' = EffectiveDestinations(r)
<1>1. CASE route[r].spec = {}
  <2>1. EffectiveDestinations(r) = {} /\ EffectiveDestinations(r)' = {}
    BY <1>1 DEF EffectiveDestinations
  <2> QED
    BY <2>1
<1>2. CASE droplet'[route'[r].space] = droplet[route[r].space]
  BY <1>2 DEF EffectiveDestinations
<1> QED
  BY <1>1, <1>2

\* Such a step keeps what is known of the route.
LEMMA QuietRoute ==
    ASSUME TypeOK, NEW r \in RouteIds, Quiet(r), late \subseteq late', AppsKept, DomainKept,
           \/ route[r].spec = {}
           \/ droplet'[route[r].space] = droplet[route[r].space]
           \/ route'[r].queued,
           IntactRoute(r), ServedRoute(r), SettledRoute(r)
    PROVE  IntactRoute(r)' /\ ServedRoute(r)' /\ SettledRoute(r)'
<1>1. route[r].space \in Spaces
  BY DEF TypeOK, RoutesTypeOK, CFRoute
<1>2. IntactRoute(r)'
  BY <1>1 DEF IntactRoute, Quiet, AppsKept, DomainKept, RouteExists
<1>3. ServedRoute(r)'
  BY DEF ServedRoute, Quiet
<1>4. SettledRoute(r)'
  <2>1. SUFFICES ASSUME route'[r].phase = "live", ~route'[r].queued
                 PROVE  /\ route'[r].status = EffectiveDestinations(r)'
                        /\ httpRoute'[r] = route'[r].status
                        /\ services'[r] = route'[r].status
    BY DEF SettledRoute
  <2>2. /\ route[r].phase = "live" /\ ~route[r].queued
        /\ route'[r].spec = route[r].spec /\ route'[r].space = route[r].space
        /\ route'[r].status = route[r].status
        /\ httpRoute'[r] = httpRoute[r] /\ services'[r] = services[r]
    BY <2>1 DEF Quiet
  <2>3. EffectiveDestinations(r)' = EffectiveDestinations(r)
    BY <2>1, <2>2, EffectiveFrame
  <2> QED
    BY <2>2, <2>3 DEF SettledRoute
<1> QED
  BY <1>2, <1>3, <1>4

\* The same for all routes at once.
LEMMA QuietKeeps ==
    ASSUME TypeOK, RouteInv, \A r \in RouteIds : Quiet(r), late \subseteq late', AppsKept,
           DomainKept, UNCHANGED droplet
    PROVE  RouteInv'
<1> SUFFICES ASSUME NEW r \in RouteIds
             PROVE  IntactRoute(r)' /\ ServedRoute(r)' /\ SettledRoute(r)'
  BY DEF RouteInv
<1> QED
  BY QuietRoute DEF RouteInv

\* A route that does not change is one of these.
LEMMA QuietStutter ==
    ASSUME UNCHANGED <<route, httpRoute, services>>
    PROVE  \A r \in RouteIds : Quiet(r)
BY DEF Quiet, RouteExists

\* So is one that is only queued or deleted.
LEMMA QuietMarked ==
    ASSUME TypeOK, UNCHANGED <<httpRoute, services>>,
           \A r \in RouteIds :
              \/ route'[r] = route[r]
              \/ route'[r] = [route[r] EXCEPT !.queued = TRUE]
              \/ route'[r] = [route[r] EXCEPT !.phase = "deleting", !.queued = TRUE] /\ RouteExists(r)
              \/ route'[r] = [route[r] EXCEPT !.phase = "gone", !.queued = FALSE]
    PROVE  \A r \in RouteIds : Quiet(r)
<1> SUFFICES ASSUME NEW r \in RouteIds
             PROVE  Quiet(r)
  OBVIOUS
<1>1. route[r] \in CFRoute
  BY DEF TypeOK, RoutesTypeOK
<1>2. CASE route'[r] = route[r]
  BY <1>2 DEF Quiet, RouteExists
<1>3. CASE route'[r] = [route[r] EXCEPT !.queued = TRUE]
  BY <1>1, <1>3 DEF Quiet, RouteExists, CFRoute
<1>4. CASE route'[r] = [route[r] EXCEPT !.phase = "deleting", !.queued = TRUE] /\ RouteExists(r)
  BY <1>1, <1>4 DEF Quiet, RouteExists, CFRoute
<1>5. CASE route'[r] = [route[r] EXCEPT !.phase = "gone", !.queued = FALSE]
  BY <1>1, <1>5 DEF Quiet, RouteExists, CFRoute
<1> QED
  BY <1>2, <1>3, <1>4, <1>5

\* The requests about domain, routes and apps.
LEMMA RouteRequestsInv ==
    ASSUME TypeOK, RouteInv,
           \/ CreateDomain \/ DeleteDomain
           \/ \E r \in RouteIds, s \in Spaces : CreateRoute(r, s)
           \/ \E r \in RouteIds : DeleteRoute(r) \/ InsertDestinations(r)
           \/ \E r \in RouteIds, guid \in Guids : RemoveDestination(r, guid)
           \/ \E s \in Spaces : ListUnmapped(s) \/ CreateApp(s) \/ SetDroplet(s) \/ DeleteApp(s)
    PROVE  RouteInv'
<1> USE DEF TypeOK
<1>1. CASE CreateDomain \/ DeleteDomain
  <2>1. UNCHANGED <<route, services, httpRoute, droplet, late, app>> /\ DomainKept
    BY <1>1 DEF CreateDomain, DeleteDomain, DomainKept
  <2> QED
    BY <2>1, QuietStutter, QuietKeeps DEF AppsKept
<1>2. CASE \E r \in RouteIds, s \in Spaces : CreateRoute(r, s)
  <2>1. PICK r \in RouteIds, s \in Spaces : CreateRoute(r, s)
    BY <1>2
  <2> DEFINE new == [NoRoute EXCEPT !.phase = "live", !.space = s, !.queued = TRUE]
  <2>2. new.phase = "live" /\ new.spec = {} /\ new.status = {} /\ new.queued
    BY DEF NoRoute
  <2>3. route' = [route EXCEPT ![r] = new]
    BY <2>1 DEF CreateRoute
  <2>4. UNCHANGED <<domain, services, httpRoute, droplet, app>>
    BY <2>1 DEF CreateRoute
  <2>5. late' = late \cup (IF domain = "emptied" THEN {r} ELSE {})
    BY <2>1 DEF CreateRoute
  <2> SUFFICES ASSUME NEW q \in RouteIds
               PROVE  IntactRoute(q)' /\ ServedRoute(q)' /\ SettledRoute(q)'
    BY DEF RouteInv
  <2> HIDE DEF new
  <2>6. CASE q = r
    <3>1. route'[q] = new
      BY <2>3, <2>6 DEF RoutesTypeOK
    <3>2. domain \in {"live", "deleting", "emptied"}
      BY <2>1 DEF CreateRoute, DomainExists
    <3>3. IntactRoute(q)'
      BY <2>2, <2>4, <2>5, <2>6, <3>1, <3>2 DEF IntactRoute
    <3>4. ServedRoute(q)' /\ SettledRoute(q)'
      BY <2>2, <3>1 DEF ServedRoute, SettledRoute, GuidsOf
    <3> QED
      BY <3>3, <3>4
  <2>7. CASE q # r
    <3>1. route'[q] = route[q]
      BY <2>3, <2>7 DEF RoutesTypeOK
    <3>2. Quiet(q)
      BY <2>4, <3>1 DEF Quiet, RouteExists
    <3> QED
      BY <2>4, <2>5, <3>1, <3>2, QuietRoute DEF RouteInv, AppsKept, DomainKept
  <2> QED
    BY <2>6, <2>7
<1>3. CASE \E r \in RouteIds : DeleteRoute(r)
  <2>1. PICK r \in RouteIds : DeleteRoute(r)
    BY <1>3
  <2>2. /\ route' = [route EXCEPT ![r] = [route[r] EXCEPT !.phase = "deleting", !.queued = TRUE]]
        /\ RouteExists(r)
    BY <2>1 DEF DeleteRoute, RoutesTypeOK, Readable
  <2>3. UNCHANGED <<domain, services, httpRoute, droplet, late, app>>
    BY <2>1 DEF DeleteRoute
  <2>4. \A q \in RouteIds : Quiet(q)
    BY <2>2, <2>3, QuietMarked DEF RoutesTypeOK
  <2> QED
    BY <2>3, <2>4, QuietKeeps DEF AppsKept, DomainKept
<1>4. CASE \E r \in RouteIds : InsertDestinations(r)
  <2>1. UNCHANGED <<domain, route, services, httpRoute, droplet, late, app>>
    BY <1>4 DEF InsertDestinations
  <2> QED
    BY <2>1, QuietStutter, QuietKeeps DEF AppsKept, DomainKept
<1>5. CASE \E r \in RouteIds, guid \in Guids : RemoveDestination(r, guid)
  <2>1. PICK r \in RouteIds, guid \in Guids : RemoveDestination(r, guid)
    BY <1>5
  <2> DEFINE dests == {d \in route[r].spec : d.guid # guid}
  <2>2. route' = [route EXCEPT ![r] = [route[r] EXCEPT !.spec = dests, !.queued = TRUE]]
    BY <2>1 DEF RemoveDestination, RoutesTypeOK
  <2>3. UNCHANGED <<domain, services, httpRoute, droplet, late, app>>
    BY <2>1 DEF RemoveDestination
  <2>4. \A q \in RouteIds : Quiet(q)
    <3> SUFFICES ASSUME NEW q \in RouteIds
                 PROVE  Quiet(q)
      OBVIOUS
    <3>1. CASE q = r
      <4>1. route[r] \in CFRoute
        BY DEF RoutesTypeOK
      <4>2. route'[q] = [route[r] EXCEPT !.spec = dests, !.queued = TRUE]
        BY <2>2, <3>1 DEF RoutesTypeOK
      <4>3. dests # {} => route[r].spec # {}
        OBVIOUS
      <4> HIDE DEF dests
      <4> QED
        BY <2>3, <3>1, <4>1, <4>2, <4>3 DEF Quiet, RouteExists, CFRoute
    <3>2. CASE q # r
      BY <2>2, <2>3, <3>2 DEF Quiet, RouteExists, RoutesTypeOK
    <3> QED
      BY <3>1, <3>2
  <2> QED
    BY <2>3, <2>4, QuietKeeps DEF AppsKept, DomainKept
<1>6. CASE \E s \in Spaces : ListUnmapped(s)
  <2>1. UNCHANGED <<domain, route, services, httpRoute, droplet, late, app>>
    BY <1>6 DEF ListUnmapped
  <2> QED
    BY <2>1, QuietStutter, QuietKeeps DEF AppsKept, DomainKept
<1>7. CASE \E s \in Spaces : CreateApp(s)
  <2>1. UNCHANGED <<domain, route, services, httpRoute, droplet, late>> /\ AppsKept
    BY <1>7 DEF CreateApp, AppsKept, TenancyTypeOK
  <2> QED
    BY <2>1, QuietStutter, QuietKeeps DEF DomainKept
<1>8. CASE \E s \in Spaces : SetDroplet(s)
  <2>1. PICK s \in Spaces : SetDroplet(s)
    BY <1>8
  <2>2. route' = QueueRoutesOf(s, route) /\ UNCHANGED <<domain, services, httpRoute, late, app>>
    BY <2>1 DEF SetDroplet
  <2>3. \A t \in Spaces : t # s => droplet'[t] = droplet[t]
    BY <2>1 DEF SetDroplet, RoutesTypeOK
  <2> SUFFICES ASSUME NEW q \in RouteIds
               PROVE  IntactRoute(q)' /\ ServedRoute(q)' /\ SettledRoute(q)'
    BY DEF RouteInv
  <2>4. Quiet(q)
    BY <2>2, QuietMarked DEF QueueRoutesOf
  <2>5. route[q] \in CFRoute
    BY DEF RoutesTypeOK
  <2>6. CASE route[q].phase = "live"
    <3>1. route[q].space = s /\ route[q].spec # {} => route'[q].queued
      BY <2>2, <2>6, QueueRoutes DEF RoutesIn, RouteExists
    <3>2. \/ route[q].spec = {}
          \/ droplet'[route[q].space] = droplet[route[q].space]
          \/ route'[q].queued
      BY <2>3, <2>5, <3>1 DEF CFRoute
    <3> QED
      BY <2>2, <2>4, <3>2, QuietRoute DEF RouteInv, AppsKept, DomainKept
  <2>7. CASE route[q].phase # "live"
    <3>1. route'[q].phase # "live" /\ (RouteExists(q)' => RouteExists(q))
      BY <2>4, <2>7 DEF Quiet
    <3> QED
      BY <2>2, <3>1 DEF RouteInv, IntactRoute, ServedRoute, SettledRoute
  <2> QED
    BY <2>6, <2>7
<1>9. CASE \E s \in Spaces : DeleteApp(s)
  <2>1. PICK s \in Spaces : DeleteApp(s)
    BY <1>9
  <2>2. route' = QueueRoutesOf(s, route) /\ UNCHANGED <<domain, services, httpRoute, droplet, late>>
    BY <2>1 DEF DeleteApp
  <2>3. AppsKept
    BY <2>1 DEF DeleteApp, AppsKept, TenancyTypeOK
  <2>4. \A q \in RouteIds : Quiet(q)
    BY <2>2, QuietMarked DEF QueueRoutesOf
  <2> QED
    BY <2>2, <2>3, <2>4, QuietKeeps DEF DomainKept
<1> QED
  BY <1>1, <1>2, <1>3, <1>4, <1>5, <1>6, <1>7, <1>8, <1>9

\* A reconciliation of a route leaves Services behind for what the HTTPRoute
\* leads to; one that does not change the status leaves nothing out of date.
LEMMA ReconcileRouteInv ==
    ASSUME TypeOK, RouteInv, NEW r \in RouteIds, ReconcileRoute(r)
    PROVE  RouteInv'
<1> USE DEF TypeOK
<1> DEFINE effective == EffectiveDestinations(r)
           queued == effective # route[r].status
           new == [route[r] EXCEPT !.status = effective, !.queued = queued]
<1>1. effective \in SUBSET Backend /\ queued \in BOOLEAN
  BY EffectiveType
<1>2. route' = [route EXCEPT ![r] = new]
  BY DEF ReconcileRoute, RoutesTypeOK
<1>3. /\ new.phase = route[r].phase /\ new.space = route[r].space /\ new.spec = route[r].spec
      /\ new.status = effective /\ new.queued = queued
  <2> HIDE DEF effective, queued
  <2> QED
    BY <1>1 DEF RoutesTypeOK, CFRoute
<1>4. /\ httpRoute' = [httpRoute EXCEPT ![r] = route[r].status]
      /\ services' = [services EXCEPT ![r] = WithoutOrphans(PatchedServices(r), effective)]
      /\ UNCHANGED <<domain, droplet, late, app>>
  BY DEF ReconcileRoute
<1> SUFFICES ASSUME NEW q \in RouteIds
             PROVE  IntactRoute(q)' /\ ServedRoute(q)' /\ SettledRoute(q)'
  BY DEF RouteInv
<1>5. CASE q # r
  <2>1. route'[q] = route[q] /\ httpRoute'[q] = httpRoute[q] /\ services'[q] = services[q]
    BY <1>2, <1>4, <1>5 DEF RoutesTypeOK
  <2>2. Quiet(q)
    BY <2>1 DEF Quiet, RouteExists
  <2> QED
    BY <1>4, <2>2, QuietRoute DEF RouteInv, AppsKept, DomainKept
<1>6. CASE q = r
  <2>1. /\ route'[r] = new /\ httpRoute'[r] = route[r].status
        /\ services'[r] = WithoutOrphans(PatchedServices(r), effective)
    BY <1>2, <1>4 DEF RoutesTypeOK
  <2> HIDE DEF effective, queued, new
  <2>2. IntactRoute(r)'
    BY <1>3, <1>4, <2>1 DEF RouteInv, IntactRoute, RouteExists
  <2>3. \A b \in route[r].status : b.guid \in GuidsOf(effective) => b \in services'[r]
    BY <2>1 DEF WithoutOrphans, PatchedServices
  <2>4. ServedRoute(r)'
    BY <1>3, <2>1, <2>3 DEF ServedRoute, GuidsOf
  <2>5. SettledRoute(r)'
    <3>1. SUFFICES ASSUME ~queued
                   PROVE  /\ effective = EffectiveDestinations(r)'
                          /\ route[r].status = effective
                          /\ services'[r] = effective
      BY <1>3, <2>1 DEF SettledRoute
    <3>2. effective = route[r].status
      BY <3>1 DEF queued
    <3>3. EffectiveDestinations(r)' = effective
      BY <1>3, <1>4, <2>1, EffectiveFrame DEF effective
    <3>4. services'[r] = effective
      BY <2>1, <3>2 DEF WithoutOrphans, PatchedServices, GuidsOf
    <3> QED
      BY <3>2, <3>3, <3>4
  <2> QED
    BY <1>6, <2>2, <2>4, <2>5
<1> QED
  BY <1>5, <1>6

\* A failed reconciliation has not removed a Service, and the route stays in
\* the queue.
LEMMA FailRouteInv ==
    ASSUME TypeOK, RouteInv, NEW r \in RouteIds, FailRoute(r)
    PROVE  RouteInv'
<1> USE DEF TypeOK
<1>1. PICK reached \in {"services", "httpRoute", "status"} :
        /\ services' = [services EXCEPT ![r] = PatchedServices(r)]
        /\ httpRoute' = [httpRoute EXCEPT ![r] = IF reached = "services" THEN @ ELSE route[r].status]
        /\ route' = [route EXCEPT ![r].status = IF reached = "status" THEN EffectiveDestinations(r) ELSE @]
  BY DEF FailRoute
<1>2. UNCHANGED <<domain, droplet, late, app>> /\ route[r].queued
  BY DEF FailRoute, Reconcilable
<1> SUFFICES ASSUME NEW q \in RouteIds
             PROVE  IntactRoute(q)' /\ ServedRoute(q)' /\ SettledRoute(q)'
  BY DEF RouteInv
<1>3. CASE q # r
  <2>1. route'[q] = route[q] /\ httpRoute'[q] = httpRoute[q] /\ services'[q] = services[q]
    BY <1>1, <1>3 DEF RoutesTypeOK
  <2>2. Quiet(q)
    BY <2>1 DEF Quiet, RouteExists
  <2> QED
    BY <1>2, <2>2, QuietRoute DEF RouteInv, AppsKept, DomainKept
<1>4. CASE q = r
  <2>1. route[r] \in CFRoute
    BY DEF RoutesTypeOK
  <2>2. /\ route'[r].phase = route[r].phase /\ route'[r].space = route[r].space
        /\ route'[r].spec = route[r].spec /\ route'[r].queued = route[r].queued
        /\ route'[r].status = IF reached = "status" THEN EffectiveDestinations(r) ELSE route[r].status
    BY <1>1, <2>1 DEF RoutesTypeOK, CFRoute
  <2>3. /\ httpRoute'[r] = IF reached = "services" THEN httpRoute[r] ELSE route[r].status
        /\ services'[r] = PatchedServices(r)
    BY <1>1 DEF RoutesTypeOK
  <2>4. IntactRoute(r)'
    BY <1>2, <2>2 DEF RouteInv, IntactRoute, RouteExists
  <2>5. GuidsOf(route[r].status) \subseteq GuidsOf(services'[r])
    BY <2>3 DEF GuidsOf, PatchedServices
  <2>6. ServedRoute(r)'
    <3>1. CASE reached = "services"
      BY <2>2, <2>3, <2>5, <3>1 DEF ServedRoute
    <3>2. CASE reached # "services"
      BY <2>3, <2>5, <3>2 DEF ServedRoute, GuidsOf
    <3> QED
      BY <3>1, <3>2
  <2>7. SettledRoute(r)'
    BY <1>2, <2>2 DEF SettledRoute
  <2> QED
    BY <1>4, <2>4, <2>6, <2>7
<1> QED
  BY <1>3, <1>4

\* A destination that a request adds makes the route late if the app has been
\* unmapped meanwhile, and is refused if it is gone.
LEMMA CommitInsertInv ==
    ASSUME TypeOK, RouteInv, CommitInsert
    PROVE  RouteInv'
<1> USE DEF TypeOK
<1>1. PICK r \in RouteIds : r = request.target
  BY DEF RoutesTypeOK, Request
<1>2. PICK guid \in Guids :
        LET dests == Merged(request.read, request.port, guid)
            ok == RouteExists(r) /\ ValidDestinations(r, dests)
        IN /\ route' = IF ok THEN [route EXCEPT ![r].spec = dests, ![r].queued = TRUE] ELSE route
           /\ late' = late \cup (IF ok /\ app[route[r].space] = "unmapped" THEN {r} ELSE {})
  BY <1>1 DEF CommitInsert
<1> DEFINE dests == Merged(request.read, request.port, guid)
           ok == RouteExists(r) /\ ValidDestinations(r, dests)
<1>3. UNCHANGED <<domain, services, httpRoute, droplet, app>> /\ late \subseteq late'
  BY <1>2 DEF CommitInsert
<1>4. CASE ~ok
  <2>1. UNCHANGED route
    BY <1>2, <1>4
  <2> QED
    BY <1>3, <2>1, QuietStutter, QuietKeeps DEF AppsKept, DomainKept
<1>5. CASE ok
  <2>1. route' = [route EXCEPT ![r].spec = dests, ![r].queued = TRUE]
    BY <1>2, <1>5
  <2>2. app[route[r].space] = "unmapped" => r \in late'
    BY <1>2, <1>5
  <2> SUFFICES ASSUME NEW q \in RouteIds
               PROVE  IntactRoute(q)' /\ ServedRoute(q)' /\ SettledRoute(q)'
    BY DEF RouteInv
  <2>3. CASE q # r
    <3>1. route'[q] = route[q]
      BY <1>1, <2>1, <2>3 DEF RoutesTypeOK
    <3>2. Quiet(q)
      BY <1>3, <3>1 DEF Quiet, RouteExists
    <3> QED
      BY <1>3, <3>2, QuietRoute DEF RouteInv, AppsKept, DomainKept
  <2>4. CASE q = r
    <3>1. route[r] \in CFRoute
      BY <1>1 DEF RoutesTypeOK
    <3>2. RouteExists(r) /\ ValidDestinations(r, dests)
      BY <1>5
    <3> HIDE DEF dests
    <3>3. /\ route'[r].phase = route[r].phase /\ route'[r].space = route[r].space
          /\ route'[r].spec = dests /\ route'[r].queued /\ route'[r].status = route[r].status
      BY <1>1, <2>1, <3>1 DEF RoutesTypeOK, CFRoute
    <3>4. route[r].phase = "live" /\ dests # {} => app[route[r].space] \in {"live", "deleting", "unmapped"}
      BY <3>2 DEF ValidDestinations, AppFound
    <3>5. IntactRoute(r)'
      BY <1>1, <1>3, <2>2, <3>3, <3>4 DEF RouteInv, IntactRoute, RouteExists
    <3>6. ServedRoute(r)'
      BY <1>1, <1>3, <3>3 DEF RouteInv, ServedRoute
    <3>7. SettledRoute(r)'
      BY <3>3 DEF SettledRoute
    <3> QED
      BY <2>4, <3>5, <3>6, <3>7
  <2> QED
    BY <2>3, <2>4
<1> QED
  BY <1>4, <1>5

\* The finalizer of an app takes it out of all routes of its space.
LEMMA UnmapAppInv ==
    ASSUME TypeOK, RouteInv, NEW s \in Spaces, UnmapApp(s)
    PROVE  RouteInv'
<1> USE DEF TypeOK
<1>1. UNCHANGED <<domain, services, httpRoute, droplet, late>>
  BY DEF UnmapApp
<1>2. \A t \in Spaces : t # s => app'[t] = app[t]
  BY DEF UnmapApp, TenancyTypeOK
<1> SUFFICES ASSUME NEW q \in RouteIds
             PROVE  IntactRoute(q)' /\ ServedRoute(q)' /\ SettledRoute(q)'
  BY DEF RouteInv
<1> DEFINE x == QueueRoutesOf(s, route)[q]
<1>3. /\ x \in CFRoute
      /\ x.phase = route[q].phase /\ x.space = route[q].space
      /\ x.spec = route[q].spec /\ x.status = route[q].status
      /\ x.queued = (route[q].queued \/ (q \in RoutesIn(s) /\ route[q].spec # {}))
  BY QueueRoutes
<1>4. route'[q] = [x EXCEPT !.spec = IF q \in RoutesIn(s) THEN {} ELSE @]
  BY DEF UnmapApp
<1> HIDE DEF x
<1>5. /\ route'[q].phase = route[q].phase /\ route'[q].space = route[q].space
      /\ route'[q].status = route[q].status /\ route'[q].queued = x.queued
      /\ route'[q].spec = IF q \in RoutesIn(s) THEN {} ELSE route[q].spec
  BY <1>3, <1>4 DEF CFRoute
<1>6. route[q].space \in Spaces
  BY DEF RoutesTypeOK, CFRoute
<1>7. IntactRoute(q)'
  BY <1>1, <1>2, <1>5, <1>6 DEF RouteInv, IntactRoute, RouteExists, RoutesIn
<1>8. ServedRoute(q)'
  BY <1>1, <1>5 DEF RouteInv, ServedRoute
<1>9. SettledRoute(q)'
  <2>1. SUFFICES ASSUME route'[q].phase = "live", ~route'[q].queued
                 PROVE  /\ route'[q].status = EffectiveDestinations(q)'
                        /\ httpRoute'[q] = route'[q].status
                        /\ services'[q] = route'[q].status
    BY DEF SettledRoute
  <2>2. ~route[q].queued /\ route'[q].spec = route[q].spec
    BY <1>3, <1>5, <2>1
  <2>3. EffectiveDestinations(q)' = EffectiveDestinations(q)
    BY <1>1, <1>5, <2>2, EffectiveFrame
  <2> QED
    BY <1>1, <1>5, <2>1, <2>2, <2>3 DEF RouteInv, SettledRoute
<1> QED
  BY <1>7, <1>8, <1>9

\* The steps of the controllers of routes, domains and apps.
LEMMA RouteStepsInv ==
    ASSUME TypeOK, RouteInv, RouteSteps
    PROVE  RouteInv'
<1> USE DEF TypeOK
<1>1. CASE DeleteUnmapped \/ DeleteRoutesOfDomain
  <2>1. UNCHANGED <<domain, services, httpRoute, droplet, late, app>>
    BY <1>1 DEF DeleteUnmapped, DeleteRoutesOfDomain
  <2>2. \A r \in RouteIds : Quiet(r)
    BY <1>1, <2>1, QuietMarked DEF DeleteUnmapped, DeleteRoutesOfDomain, RouteExists
  <2> QED
    BY <2>1, <2>2, QuietKeeps DEF AppsKept, DomainKept
<1>2. CASE FindNoRoutes
  <2>1. /\ UNCHANGED <<route, services, httpRoute, droplet, late, app>>
        /\ \A r \in RouteIds : ~RouteExists(r)
    BY <1>2 DEF FindNoRoutes
  <2>2. \A r \in RouteIds : IntactRoute(r)'
    BY <2>1 DEF RouteInv, IntactRoute, RouteExists
  <2>3. \A r \in RouteIds : ServedRoute(r)' /\ SettledRoute(r)'
    BY <2>1 DEF ServedRoute, SettledRoute, RouteExists
  <2> QED
    BY <2>2, <2>3 DEF RouteInv
<1>3. CASE ReleaseDomain
  <2>1. UNCHANGED <<route, services, httpRoute, droplet, late, app>> /\ DomainKept
    BY <1>3 DEF ReleaseDomain, DomainKept
  <2> QED
    BY <2>1, QuietStutter, QuietKeeps DEF AppsKept
<1>4. CASE \E s \in Spaces : ReleaseApp(s)
  <2>1. PICK s \in Spaces : ReleaseApp(s)
    BY <1>4
  <2>2. route' = QueueRoutesOf(s, route) /\ UNCHANGED <<domain, services, httpRoute, droplet, late>>
    BY <2>1 DEF ReleaseApp
  <2>3. AppsKept
    BY <2>1 DEF ReleaseApp, AppsKept, TenancyTypeOK
  <2>4. \A q \in RouteIds : Quiet(q)
    BY <2>2, QuietMarked DEF QueueRoutesOf
  <2> QED
    BY <2>2, <2>3, <2>4, QuietKeeps DEF DomainKept
<1>5. CASE \E r \in RouteIds : FinalizeRoute(r)
  <2>1. PICK r \in RouteIds : FinalizeRoute(r)
    BY <1>5
  <2>2. route' = [route EXCEPT ![r] = [route[r] EXCEPT !.phase = "gone", !.queued = FALSE]]
    BY <2>1 DEF FinalizeRoute, RoutesTypeOK
  <2>3. UNCHANGED <<domain, droplet, late, app>>
    BY <2>1 DEF FinalizeRoute
  <2>4. \A q \in RouteIds : q # r => /\ route'[q] = route[q] /\ httpRoute'[q] = httpRoute[q]
                                     /\ services'[q] = services[q]
    BY <2>1, <2>2 DEF FinalizeRoute, RoutesTypeOK
  <2> SUFFICES ASSUME NEW q \in RouteIds
               PROVE  IntactRoute(q)' /\ ServedRoute(q)' /\ SettledRoute(q)'
    BY DEF RouteInv
  <2>5. CASE q # r
    <3>1. Quiet(q)
      BY <2>4, <2>5 DEF Quiet, RouteExists
    <3> QED
      BY <2>3, <3>1, QuietRoute DEF RouteInv, AppsKept, DomainKept
  <2>6. CASE q = r
    <3>1. route'[q].phase = "gone"
      BY <2>2, <2>6 DEF RoutesTypeOK, CFRoute
    <3> QED
      BY <3>1 DEF IntactRoute, ServedRoute, SettledRoute, RouteExists
  <2> QED
    BY <2>5, <2>6
<1> QED
  BY <1>1, <1>2, <1>3, <1>4, <1>5, CommitInsertInv, UnmapAppInv, ReconcileRouteInv, FailRouteInv
     DEF RouteSteps

\* Every step keeps what is known of routes.
LEMMA NextRoutes ==
    ASSUME TypeOK, RouteInv, [Next]_vars
    PROVE  RouteInv'
<1> USE DEF TypeOK
<1>1. CASE UNCHANGED routesVars /\ UNCHANGED app
  <2>1. UNCHANGED <<domain, route, services, httpRoute, droplet, late, app>>
    BY <1>1 DEF routesVars
  <2> QED
    BY <2>1, QuietStutter, QuietKeeps DEF AppsKept, DomainKept
<1>2. CASE UNCHANGED vars
  BY <1>1, <1>2 DEF vars, routesVars
<1>3. CASE UserSteps
  <2>1. CASE /\ \/ CreateOrg \/ ChangeAdmin
                \/ \E s \in Spaces : CreateSpace(s)
                \/ \E k \in Keys : Delete(k)
                \/ \E n \in Keys, role \in Roles : CreateRole(n, role) \/ DeleteRole(n, role)
                \/ \E a \in Accounts : ChangeAccount(a)
             /\ UNCHANGED routesVars
    <3>1. UNCHANGED app
      BY <2>1 DEF CreateOrg, ChangeAdmin, CreateSpace, Delete, CreateRole, DeleteRole, ChangeAccount
    <3> QED
      BY <1>1, <2>1, <3>1
  <2> QED
    BY <1>3, <2>1, RouteRequestsInv DEF UserSteps
<1>4. CASE OrgAndSpaceSteps
  <2>1. CASE /\ \/ EmptyOrgNamespace
                \/ \E k \in Keys :
                      BeginReconcile(k) \/ CompleteReconcile(k) \/ FailReconcile(k)
                      \/ DeleteNamespace(k) \/ ReleaseObject(k)
                \/ \E s \in Spaces : TimeOut(s)
             /\ UNCHANGED routesVars
    <3>1. UNCHANGED app
      BY <2>1 DEF EmptyOrgNamespace, BeginReconcile, CompleteReconcile, FailReconcile,
                  DeleteNamespace, ReleaseObject, TimeOut
    <3> QED
      BY <1>1, <2>1, <3>1
  <2>2. ASSUME NEW s \in Spaces, DeleteAppsOf(s)
        PROVE  RouteInv'
    <3>1. route' = QueueRoutesOf(s, route) /\ UNCHANGED <<domain, services, httpRoute, droplet, late>>
      BY <2>2 DEF DeleteAppsOf
    <3>2. AppsKept
      BY <2>2 DEF DeleteAppsOf, DeleteApps, AppsKept, TenancyTypeOK
    <3>3. \A q \in RouteIds : Quiet(q)
      BY <3>1, QuietMarked DEF QueueRoutesOf
    <3> QED
      BY <3>1, <3>2, <3>3, QuietKeeps DEF DomainKept
  <2>3. ASSUME NEW s \in Spaces, EmptyNamespace(s)
        PROVE  RouteInv'
    <3>1. UNCHANGED <<domain, services, httpRoute, droplet, late>>
      BY <2>3 DEF EmptyNamespace
    <3>2. AppsKept
      BY <2>3 DEF EmptyNamespace, EmptySpaceNamespace, AppsKept, TenancyTypeOK
    <3>3. \A q \in RouteIds : Quiet(q)
      BY <2>3, <3>1, QuietMarked DEF EmptyNamespace, DeleteRoutesIn, RouteExists
    <3> QED
      BY <3>1, <3>2, <3>3, QuietKeeps DEF DomainKept
  <2>4. ASSUME NEW n \in Keys, RemoveNamespaceOf(n)
        PROVE  RouteInv'
    <3>1. UNCHANGED routesVars /\ UNCHANGED app
      BY <2>4 DEF RemoveNamespaceOf, RemoveNamespace
    <3> QED
      BY <1>1, <3>1
  <2> QED
    BY <1>4, <2>1, <2>2, <2>3, <2>4 DEF OrgAndSpaceSteps
<1>5. CASE Restart
  <2>1. UNCHANGED <<domain, services, httpRoute, droplet, late, app>>
    BY <1>5 DEF Restart
  <2>2. \A q \in RouteIds : Quiet(q)
    <3> SUFFICES ASSUME NEW q \in RouteIds
                 PROVE  Quiet(q)
      OBVIOUS
    <3>1. route'[q] = [route[q] EXCEPT !.queued = RouteExists(q)]
      BY <1>5 DEF Restart
    <3>2. route[q] \in CFRoute
      BY DEF RoutesTypeOK
    <3>3. /\ route'[q].phase = route[q].phase /\ route'[q].space = route[q].space
          /\ route'[q].spec = route[q].spec /\ route'[q].status = route[q].status
          /\ route[q].phase = "live" => route'[q].queued
      BY <3>1, <3>2 DEF CFRoute, RouteExists
    <3> QED
      BY <2>1, <3>3 DEF Quiet, RouteExists
  <2> QED
    BY <2>1, <2>2, QuietKeeps DEF AppsKept, DomainKept
<1> QED
  BY <1>2, <1>3, <1>4, <1>5, RouteStepsInv DEF Next

\* An installation starts with its routes settled.
LEMMA InitRoutes ==
    ASSUME Init
    PROVE  RouteInv
<1> SUFFICES ASSUME NEW r \in RouteIds
             PROVE  IntactRoute(r) /\ ServedRoute(r) /\ SettledRoute(r)
  BY DEF RouteInv
<1> DEFINE first == CHOOSE s \in Spaces : TRUE
           web == [guid |-> CHOOSE g \in Guids : TRUE, port |-> 8080]
           bare == [guid |-> CHOOSE g \in Guids : TRUE, port |-> 0]
<1>1. CASE route[r] = NoRoute
  BY <1>1 DEF NoRoute, IntactRoute, ServedRoute, SettledRoute, RouteExists
<1>2. CASE /\ route[r] = [phase |-> "live", space |-> first, spec |-> {[web EXCEPT !.port = 0]},
                          status |-> {web}, queued |-> FALSE]
           /\ services[r] = {web} /\ httpRoute[r] = {web}
           /\ domain = "live" /\ app[first] = "live" /\ droplet[first] = "portless"
  <2>1. [web EXCEPT !.port = 0] = bare /\ bare.port = 0 /\ [bare EXCEPT !.port = 8080] = web
    OBVIOUS
  <2>2. /\ route[r].space = first /\ route[r].spec = {bare} /\ route[r].status = {web}
    BY <1>2, <2>1
  <2> HIDE DEF web, bare, first
  <2>3. EffectiveDestinations(r) = {web}
    BY <1>2, <2>1, <2>2 DEF EffectiveDestinations
  <2> QED
    BY <1>2, <2>2, <2>3 DEF IntactRoute, ServedRoute, SettledRoute, RouteExists
<1>3. first \in Spaces
  BY PlatformBounds
<1> QED
  BY <1>1, <1>2, <1>3 DEF Init

-----------------------------------------------------------------------------
(* Namespaces.                                                             *)

\* Only what is being deleted has a namespace that terminates.
OwnerInv ==
    /\ NamespaceHasOwner
    /\ \A k \in Keys : ns[k] = "terminating" => Object(k).phase = "deleting"

\* Objects whose phase stays keep their namespaces owned.
LEMMA OwnerFrame ==
    ASSUME TypeOK, OwnerInv, UNCHANGED ns, \A k \in Keys : Object(k)'.phase = Object(k).phase
    PROVE  OwnerInv'
<1>1. \A s \in Spaces : Exists(space[s])' => Exists(space[s])
  BY KeyFacts DEF Object, Exists
<1>2. \A k \in Keys : Exists(Object(k)) => Exists(Object(k))'
  BY DEF Exists
<1> QED
  BY <1>1, <1>2 DEF OwnerInv, NamespaceHasOwner

\* Every step keeps namespaces owned.
LEMMA NextOwner ==
    ASSUME TypeOK, OwnerInv, [Next]_vars
    PROVE  OwnerInv'
<1> USE KeyFacts DEF TypeOK
<1>1. CASE UNCHANGED <<org, space, ns>>
  BY <1>1 DEF OwnerInv, NamespaceHasOwner, Object, Exists
<1>2. CASE CreateOrg
  BY <1>2 DEF CreateOrg, OwnerInv, NamespaceHasOwner, Object, Exists
<1>3. CASE \E s \in Spaces : CreateSpace(s)
  <2>1. PICK s \in Spaces : CreateSpace(s)
    BY <1>3
  <2>2. /\ space[s].phase = "none" /\ ns["org"] = "active" /\ UNCHANGED <<org, ns>>
        /\ space' = [space EXCEPT ![s] = [phase |-> "live", ready |-> FALSE]]
    BY <2>1 DEF CreateSpace
  <2>3. /\ \A k \in Keys : k # s => Object(k)' = Object(k)
        /\ Object(s).phase = "none" /\ Object(s)'.phase = "live"
    BY <2>2 DEF Object, TenancyTypeOK
  <2> QED
    BY <2>2, <2>3 DEF OwnerInv, NamespaceHasOwner, Exists, Object
<1>4. CASE \E k \in Keys : Delete(k)
  <2>1. PICK k \in Keys : Delete(k)
    BY <1>4
  <2>2. [Object(k) EXCEPT !.phase = "deleting"] \in CFNamespaceObject
    BY ObjectType DEF CFNamespaceObject, Phases
  <2>3. /\ Object(k)' = [Object(k) EXCEPT !.phase = "deleting"]
        /\ \A j \in Keys : j # k => Object(j)' = Object(j)
    BY <2>1, <2>2, SetObjectEffect DEF Delete
  <2>4. Object(k).phase = "live" /\ Object(k)'.phase = "deleting" /\ UNCHANGED ns
    BY <2>1, <2>3, ObjectType DEF Delete, CFNamespaceObject
  <2>5. \A j \in Keys : Exists(Object(j))' <=> Exists(Object(j))
    BY <2>3, <2>4 DEF Exists
  <2>6. \A s \in Spaces : Exists(space[s])' <=> Exists(space[s])
    BY <2>5 DEF Object
  <2> QED
    BY <2>3, <2>4, <2>5, <2>6 DEF OwnerInv, NamespaceHasOwner
<1>5. CASE \E k \in Keys : BeginReconcile(k)
  <2>1. PICK k \in Keys : BeginReconcile(k)
    BY <1>5
  <2>2. /\ Object(k).phase = "live" /\ UNCHANGED <<org, space>>
        /\ ns' = [ns EXCEPT ![k] = "active"]
    BY <2>1 DEF BeginReconcile
  <2>3. \A j \in Keys : Object(j)' = Object(j) /\ (j # k => ns'[j] = ns[j])
    BY <2>2 DEF Object, TenancyTypeOK
  <2>4. ns'[k] = "active"
    BY <2>2 DEF TenancyTypeOK
  <2> QED
    BY <2>2, <2>3, <2>4 DEF OwnerInv, NamespaceHasOwner, Exists
<1>6. CASE \E k \in Keys : CompleteReconcile(k) \/ FailReconcile(k)
  <2>1. PICK k \in Keys : CompleteReconcile(k) \/ FailReconcile(k)
    BY <1>6
  <2>2. UNCHANGED ns
    BY <2>1 DEF CompleteReconcile, FailReconcile
  <2>3. PICK ready \in BOOLEAN : SetObject(k, [Object(k) EXCEPT !.ready = ready])
    BY <2>1 DEF CompleteReconcile, FailReconcile
  <2>4. /\ [Object(k) EXCEPT !.ready = ready] \in CFNamespaceObject
        /\ [Object(k) EXCEPT !.ready = ready].phase = Object(k).phase
    BY ObjectType DEF CFNamespaceObject
  <2>5. \A j \in Keys : Object(j)'.phase = Object(j).phase
    BY <2>3, <2>4, SetObjectEffect
  <2> QED
    BY <2>2, <2>5, OwnerFrame
<1>7. CASE \E k \in Keys : DeleteNamespace(k)
  <2>1. PICK k \in Keys : DeleteNamespace(k)
    BY <1>7
  <2>2. /\ Object(k).phase = "deleting" /\ ns[k] = "active" /\ UNCHANGED <<org, space>>
        /\ ns' = [ns EXCEPT ![k] = "terminating"]
    BY <2>1 DEF DeleteNamespace, CanFinalize
  <2>3. \A j \in Keys : Object(j)' = Object(j) /\ (j # k => ns'[j] = ns[j])
    BY <2>2 DEF Object, TenancyTypeOK
  <2>4. ns'[k] = "terminating"
    BY <2>2 DEF TenancyTypeOK
  <2> QED
    BY <2>2, <2>3, <2>4 DEF OwnerInv, NamespaceHasOwner, Exists
<1>8. CASE \E k \in Keys : ReleaseObject(k)
  <2>1. PICK k \in Keys : ReleaseObject(k)
    BY <1>8
  <2>2. [phase |-> "gone", ready |-> FALSE] \in CFNamespaceObject
    BY DEF CFNamespaceObject, Phases
  <2>3. /\ Object(k)' = [phase |-> "gone", ready |-> FALSE]
        /\ \A j \in Keys : j # k => Object(j)' = Object(j)
    BY <2>1, <2>2, SetObjectEffect DEF ReleaseObject
  <2>4. ns[k] \in {"none", "gone"} /\ UNCHANGED ns
    BY <2>1 DEF ReleaseObject
  <2>5. /\ Object(k)'.phase = "gone"
        /\ \A j \in Keys : Exists(Object(j))' => Exists(Object(j))
        /\ \A j \in Keys : j # k => (Exists(Object(j)) => Exists(Object(j))')
    BY <2>3 DEF Exists
  <2>6. \A s \in Spaces : Exists(space[s])' => Exists(space[s])
    BY <2>5 DEF Object
  <2> QED
    BY <2>3, <2>4, <2>5, <2>6 DEF OwnerInv, NamespaceHasOwner
<1>9. CASE EmptyOrgNamespace
  <2>1. /\ UNCHANGED <<org, ns>>
        /\ \A s \in Spaces : space'[s] = [space[s] EXCEPT !.phase = IF @ = "live" THEN "deleting" ELSE @]
    BY <1>9 DEF EmptyOrgNamespace
  <2>2. \A s \in Spaces : space'[s].phase = IF space[s].phase = "live" THEN "deleting" ELSE space[s].phase
    <3> SUFFICES ASSUME NEW s \in Spaces
                 PROVE  space'[s].phase = IF space[s].phase = "live" THEN "deleting" ELSE space[s].phase
      OBVIOUS
    <3>1. space[s] \in CFNamespaceObject
      BY DEF TenancyTypeOK
    <3> QED
      BY <2>1, <3>1 DEF CFNamespaceObject
  <2> QED
    BY <2>1, <2>2 DEF OwnerInv, NamespaceHasOwner, Exists, Object
<1>10. CASE \E n \in Keys : RemoveNamespace(n)
  <2>1. PICK n \in Keys : RemoveNamespace(n)
    BY <1>10
  <2>2. /\ n = "org" => \A s \in Spaces : ~Exists(space[s])
        /\ ns' = [ns EXCEPT ![n] = "gone"] /\ UNCHANGED <<org, space>>
    BY <2>1 DEF RemoveNamespace
  <2>3. \A j \in Keys : Object(j)' = Object(j) /\ (j # n => ns'[j] = ns[j])
    BY <2>2 DEF Object, TenancyTypeOK
  <2>4. ns'[n] = "gone"
    BY <2>2 DEF TenancyTypeOK
  <2> QED
    BY <2>2, <2>3, <2>4 DEF OwnerInv, NamespaceHasOwner, Exists
<1>11. CASE \/ ChangeAdmin
            \/ \E n \in Keys, role \in Roles : CreateRole(n, role) \/ DeleteRole(n, role)
            \/ \E a \in Accounts : ChangeAccount(a)
            \/ \E s \in Spaces : TimeOut(s) \/ DeleteApps(s) \/ EmptySpaceNamespace(s)
            \/ UNCHANGED tenancyVars \/ Restart \/ UNCHANGED vars
  <2>1. UNCHANGED <<org, space, ns>>
    BY <1>11 DEF ChangeAdmin, CreateRole, DeleteRole, ChangeAccount, TimeOut, DeleteApps,
                 EmptySpaceNamespace, tenancyVars, Restart, vars
  <2> QED
    BY <1>1, <2>1
<1> QED
  BY <1>2, <1>3, <1>4, <1>5, <1>6, <1>7, <1>8, <1>9, <1>10, <1>11
     DEF Next, UserSteps, OrgAndSpaceSteps, RouteSteps, DeleteAppsOf, EmptyNamespace,
         RemoveNamespaceOf

-----------------------------------------------------------------------------
(* Access.                                                                 *)

Granted(k) == {role \in bindings[Parent(k)] : Propagates(role)}
Copies(k) == {role \in bindings[k] : Propagates(role)} \ RolesOf(k)
UpToDate(k) == Granted(k) \subseteq Copies(k) /\ Copies(k) \ Granted(k) \subseteq Kept

\* A reconciliation under way that has listed what is no longer granted is
\* queued once more.
AccessOf(k) ==
    Object(k).phase = "live" =>
        /\ UpToDate(k) \/ run[k].busy \/ k \in queue
        /\ run[k].busy => run[k].listed = Granted(k) \/ k \in queue

AccessInv ==
    /\ bindings["root"] \subseteq {"admin", "cf_user"}
    /\ \A k \in Keys : AccessOf(k)

\* It gives the property of access.
LEMMA AccessSuffices ==
    ASSUME AccessInv
    PROVE  StaleAccessIsQueued
<1> SUFFICES ASSUME NEW k \in Keys, Object(k).phase = "live"
             PROVE  \/ Granted(k) \subseteq Copies(k) /\ Copies(k) \ Granted(k) \subseteq Kept
                    \/ run[k].busy /\ run[k].listed = Granted(k)
                    \/ k \in queue
  BY DEF StaleAccessIsQueued, Granted, Copies
<1> QED
  BY DEF AccessInv, AccessOf, UpToDate

\* A step keeps the access of a key known if it queues the key, deletes its
\* object, or changes nothing about its access.
LEMMA AccessFrame ==
    ASSUME NEW k \in Keys, AccessOf(k),
           \/ k \in queue'
           \/ Object(k)'.phase # "live"
           \/ /\ Object(k)'.phase = "live" => Object(k).phase = "live"
              /\ run'[k] = run[k]
              /\ k \in queue => k \in queue'
              /\ Granted(k)' = Granted(k) /\ Copies(k)' = Copies(k)
    PROVE  AccessOf(k)'
BY DEF AccessOf, UpToDate

\* What is granted and copied depends on the role bindings alone.
LEMMA BindingsFrame ==
    ASSUME NEW k \in Keys, bindings'[k] = bindings[k], bindings'[Parent(k)] = bindings[Parent(k)]
    PROVE  Granted(k)' = Granted(k) /\ Copies(k)' = Copies(k)
BY DEF Granted, Copies, Parent, RolesOf

\* Changes of roles, and of the objects themselves, by users and operators.
LEMMA RequestsAccess ==
    ASSUME TypeOK, AccessInv,
           \/ CreateOrg \/ ChangeAdmin
           \/ \E s \in Spaces : CreateSpace(s)
           \/ \E k \in Keys : Delete(k)
           \/ \E n \in Keys, role \in Roles : CreateRole(n, role) \/ DeleteRole(n, role)
           \/ \E a \in Accounts : ChangeAccount(a)
    PROVE  AccessInv'
<1> USE KeyFacts DEF TypeOK
<1>1. CASE CreateOrg
  <2>1. /\ UNCHANGED <<bindings, run, space>> /\ "org" \in queue' /\ queue \subseteq queue'
    BY <1>1 DEF CreateOrg
  <2>2. \A k \in Keys : k # "org" => Object(k)' = Object(k)
    BY <2>1 DEF Object
  <2>3. \A k \in Keys : AccessOf(k)'
    BY <2>1, <2>2, AccessFrame, BindingsFrame DEF AccessInv
  <2> QED
    BY <2>1, <2>3 DEF AccessInv
<1>2. CASE ChangeAdmin
  <2>1. /\ UNCHANGED <<org, space, run>> /\ queue' = queue \cup Watchers("root")
        /\ bindings' = [bindings EXCEPT !["root"] =
                           IF "admin" \in @ THEN @ \ {"admin"} ELSE @ \cup {"admin"}]
    BY <1>2 DEF ChangeAdmin
  <2>2. /\ \A n \in Keys : bindings'[n] = bindings[n]
        /\ bindings'["root"] \subseteq {"admin", "cf_user"}
    BY <2>1 DEF TenancyTypeOK, AccessInv
  <2>3. ASSUME NEW k \in Keys
        PROVE  AccessOf(k)'
    <3>1. Object(k)' = Object(k)
      BY <2>1 DEF Object
    <3>2. CASE k = "org"
      <4>1. Object(k).phase = "live" => k \in queue'
        BY <2>1, <3>2 DEF Watchers, Parent, Exists
      <4> QED
        BY <3>1, <4>1, AccessFrame DEF AccessInv
    <3>3. CASE k # "org"
      <4>1. Granted(k)' = Granted(k) /\ Copies(k)' = Copies(k)
        BY <2>2, <3>3, BindingsFrame DEF Parent
      <4> QED
        BY <2>1, <3>1, <4>1, AccessFrame DEF AccessInv
    <3> QED
      BY <3>2, <3>3
  <2> QED
    BY <2>2, <2>3 DEF AccessInv
<1>3. CASE \E s \in Spaces : CreateSpace(s)
  <2>1. PICK s \in Spaces : CreateSpace(s)
    BY <1>3
  <2>2. /\ UNCHANGED <<bindings, run, org>> /\ s \in queue' /\ queue \subseteq queue'
        /\ space' = [space EXCEPT ![s] = [phase |-> "live", ready |-> FALSE]]
    BY <2>1 DEF CreateSpace
  <2>3. \A k \in Keys : k # s => Object(k)' = Object(k)
    BY <2>2 DEF Object, TenancyTypeOK
  <2>4. \A k \in Keys : AccessOf(k)'
    BY <2>2, <2>3, AccessFrame, BindingsFrame DEF AccessInv
  <2> QED
    BY <2>2, <2>4 DEF AccessInv
<1>4. CASE \E k \in Keys : Delete(k)
  <2>1. PICK k \in Keys : Delete(k)
    BY <1>4
  <2>2. [Object(k) EXCEPT !.phase = "deleting"] \in CFNamespaceObject
    BY ObjectType DEF CFNamespaceObject, Phases
  <2>3. /\ Object(k)' = [Object(k) EXCEPT !.phase = "deleting"]
        /\ \A j \in Keys : j # k => Object(j)' = Object(j)
    BY <2>1, <2>2, SetObjectEffect DEF Delete
  <2>4. Object(k)'.phase # "live"
    BY <2>3, ObjectType DEF CFNamespaceObject
  <2>5. UNCHANGED <<bindings, run>> /\ queue \subseteq queue'
    BY <2>1 DEF Delete
  <2>6. \A j \in Keys : AccessOf(j)'
    BY <2>3, <2>4, <2>5, AccessFrame, BindingsFrame DEF AccessInv
  <2> QED
    BY <2>5, <2>6 DEF AccessInv
<1>5. CASE \E n \in Keys, role \in Roles : CreateRole(n, role) \/ DeleteRole(n, role)
  <2>1. PICK n \in Keys, role \in Roles : CreateRole(n, role) \/ DeleteRole(n, role)
    BY <1>5
  <2>2. /\ UNCHANGED <<org, space, run>> /\ role \in RolesOf(n)
        /\ queue \subseteq queue' /\ Watchers(n) \subseteq queue'
    BY <2>1 DEF CreateRole, DeleteRole
  <2>3. /\ bindings'[n] \ {role} = bindings[n] \ {role}
        /\ \A m \in Keys : m # n => bindings'[m] = bindings[m]
        /\ bindings'["root"] \ {"cf_user"} = bindings["root"] \ {"cf_user"}
    <3>1. CASE CreateRole(n, role)
      <4>1. PICK complete \in BOOLEAN :
              bindings' = [bindings EXCEPT ![n] = @ \cup {role},
                                           !["root"] = IF complete THEN @ \cup {"cf_user"} ELSE @]
        BY <3>1 DEF CreateRole
      <4>2. n # "root"
        OBVIOUS
      <4> QED
        BY <4>1, <4>2 DEF TenancyTypeOK
    <3>2. CASE DeleteRole(n, role)
      BY <3>2 DEF DeleteRole, TenancyTypeOK
    <3> QED
      BY <2>1, <3>1, <3>2
  <2>4. ASSUME NEW k \in Keys
        PROVE  AccessOf(k)'
    <3>1. Object(k)' = Object(k)
      BY <2>2 DEF Object
    <3>2. Copies(k)' = Copies(k)
      BY <2>2, <2>3 DEF Copies
    <3>3. CASE Parent(k) = n
      <4>1. Object(k).phase = "live" => k \in queue'
        BY <2>2, <3>3 DEF Watchers, Exists
      <4> QED
        BY <3>1, <4>1, AccessFrame DEF AccessInv
    <3>4. CASE Parent(k) # n
      <4>1. Granted(k)' = Granted(k)
        BY <2>3, <3>4 DEF Granted, Parent, Propagates
      <4> QED
        BY <2>2, <3>1, <3>2, <4>1, AccessFrame DEF AccessInv
    <3> QED
      BY <3>3, <3>4
  <2> QED
    BY <2>3, <2>4 DEF AccessInv
<1>6. CASE \E a \in Accounts : ChangeAccount(a)
  <2>1. UNCHANGED <<org, space, bindings, run>> /\ queue \subseteq queue'
    BY <1>6 DEF ChangeAccount
  <2>2. \A k \in Keys : AccessOf(k)'
    BY <2>1, AccessFrame, BindingsFrame DEF AccessInv, Object
  <2> QED
    BY <2>1, <2>2 DEF AccessInv
<1> QED
  BY <1>1, <1>2, <1>3, <1>4, <1>5, <1>6

\* What a namespace is granted by its parent are not roles of its own level.
LEMMA GrantedIsCopied ==
    ASSUME NEW k \in Keys, AccessInv
    PROVE  Granted(k) \cap RolesOf(k) = {}
<1>1. CASE k = "org"
  BY <1>1 DEF Granted, RolesOf, Parent, AccessInv, OrgRoles, Propagates
<1>2. CASE k # "org"
  <2>1. k # "root"
    BY KeyFacts
  <2> QED
    BY <1>2, <2>1 DEF Granted, RolesOf, SpaceRoles, Propagates
<1> QED
  BY <1>1, <1>2

\* The end of a reconciliation, whether it succeeds or fails: the role bindings
\* of one key change, and those who live in its namespace are queued for it.
LEMMA ReconciledAccess ==
    ASSUME NEW k \in Keys, TypeOK, AccessInv, AccessOf(k)',
           NEW roles, bindings' = [bindings EXCEPT ![k] = roles],
           roles # bindings[k] => Watchers(k) \subseteq queue',
           queue \subseteq queue', run' = [run EXCEPT ![k] = Idle],
           \A j \in Keys : j # k => Object(j)' = Object(j)
    PROVE  AccessInv'
<1> USE KeyFacts DEF TypeOK
<1>1. /\ bindings'["root"] = bindings["root"]
      /\ \A j \in Keys : j # k => bindings'[j] = bindings[j]
      /\ bindings'[k] = roles
      /\ \A j \in Keys : j # k => run'[j] = run[j]
  BY DEF TenancyTypeOK
<1>2. ASSUME NEW j \in Keys, j # k
      PROVE  AccessOf(j)'
  <2>1. CASE Parent(j) = k /\ roles # bindings[k]
    <3>1. Object(j).phase = "live" => j \in queue'
      BY <2>1 DEF Watchers, Exists
    <3> QED
      BY <1>2, <3>1, AccessFrame DEF AccessInv
  <2>2. CASE ~(Parent(j) = k /\ roles # bindings[k])
    <3>1. Parent(j) \in Keys \cup {"root"}
      BY DEF Parent, Keys
    <3>2. bindings'[Parent(j)] = bindings[Parent(j)]
      BY <1>1, <2>2, <3>1
    <3>3. Granted(j)' = Granted(j) /\ Copies(j)' = Copies(j)
      BY <1>1, <1>2, <3>2, BindingsFrame
    <3> QED
      BY <1>1, <1>2, <3>3, AccessFrame DEF AccessInv
  <2> QED
    BY <2>1, <2>2
<1> QED
  BY <1>1, <1>2 DEF AccessInv

\* A reconciliation that listed what is granted leaves the copies up to date.
LEMMA CompleteAccess ==
    ASSUME NEW k \in Keys, TypeOK, AccessInv, CompleteReconcile(k)
    PROVE  AccessInv'
<1> USE KeyFacts DEF TypeOK
<1>1. /\ run[k].busy /\ bindings' = [bindings EXCEPT ![k] = Propagated(k)]
      /\ run' = [run EXCEPT ![k] = Idle]
      /\ SetObject(k, [Object(k) EXCEPT !.ready = TRUE])
      /\ queue \subseteq queue'
      /\ Propagated(k) # bindings[k] => Watchers(k) \subseteq queue'
  BY DEF CompleteReconcile
<1>2. /\ [Object(k) EXCEPT !.ready = TRUE] \in CFNamespaceObject
      /\ [Object(k) EXCEPT !.ready = TRUE].phase = Object(k).phase
  BY ObjectType DEF CFNamespaceObject
<1>3. /\ Object(k)'.phase = Object(k).phase
      /\ \A j \in Keys : j # k => Object(j)' = Object(j)
  BY <1>1, <1>2, SetObjectEffect
<1>4. ~run'[k].busy
  BY <1>1 DEF TenancyTypeOK, Idle
<1>5. ASSUME run[k].listed = Granted(k)
      PROVE  UpToDate(k)'
  <2>1. bindings'[k] = Propagated(k) /\ bindings'[Parent(k)] = bindings[Parent(k)]
    BY <1>1 DEF TenancyTypeOK, Parent
  <2>2. Granted(k)' = Granted(k)
    BY <2>1 DEF Granted, Parent
  <2>3. Propagated(k) = (bindings[k] \ ((Copies(k) \ Granted(k)) \ Kept)) \cup Granted(k)
    BY <1>5 DEF Propagated, Copies
  <2>4. Copies(k)' = {role \in Propagated(k) : Propagates(role)} \ RolesOf(k)
    BY <2>1 DEF Copies
  <2>5. Granted(k) \cap RolesOf(k) = {} /\ \A role \in Granted(k) : Propagates(role)
    BY GrantedIsCopied DEF Granted
  <2>6. Granted(k) \subseteq Copies(k)'
    BY <2>3, <2>4, <2>5
  <2>7. Copies(k)' \ Granted(k) \subseteq Kept
    BY <2>3, <2>4 DEF Copies
  <2> QED
    BY <2>2, <2>6, <2>7 DEF UpToDate
<1>6. AccessOf(k)'
  BY <1>1, <1>3, <1>4, <1>5 DEF AccessInv, AccessOf
<1> QED
  BY <1>1, <1>3, <1>6, ReconciledAccess

\* The reconcilers.
LEMMA ReconcilersAccess ==
    ASSUME TypeOK, AccessInv,
           \E k \in Keys : \/ BeginReconcile(k) \/ CompleteReconcile(k) \/ FailReconcile(k)
                           \/ DeleteNamespace(k) \/ ReleaseObject(k)
    PROVE  AccessInv'
<1> USE KeyFacts DEF TypeOK
<1>1. PICK k \in Keys : \/ BeginReconcile(k) \/ CompleteReconcile(k) \/ FailReconcile(k)
                        \/ DeleteNamespace(k) \/ ReleaseObject(k)
  OBVIOUS
<1>2. CASE BeginReconcile(k)
  <2>1. /\ UNCHANGED <<org, space, bindings>> /\ queue' = queue \ {k}
        /\ run' = [run EXCEPT ![k] = [busy |-> TRUE, listed |-> Granted(k)]]
    BY <1>2 DEF BeginReconcile, Granted
  <2>2. /\ \A j \in Keys : j # k => run'[j] = run[j]
        /\ run'[k].busy /\ run'[k].listed = Granted(k)
    BY <2>1 DEF TenancyTypeOK
  <2>3. \A j \in Keys : /\ Object(j)' = Object(j)
                        /\ Granted(j)' = Granted(j) /\ Copies(j)' = Copies(j)
    BY <2>1, BindingsFrame DEF Object
  <2>4. AccessOf(k)'
    BY <2>2, <2>3 DEF AccessOf
  <2>5. \A j \in Keys : j # k => AccessOf(j)'
    BY <2>1, <2>2, <2>3, AccessFrame DEF AccessInv
  <2> QED
    BY <2>1, <2>4, <2>5 DEF AccessInv
<1>3. CASE FailReconcile(k)
  <2>1. PICK done \in SUBSET run[k].listed :
          /\ bindings' = [bindings EXCEPT ![k] = @ \cup done]
          /\ queue' = queue \cup {k} \cup (IF done \subseteq bindings[k] THEN {} ELSE Watchers(k))
    BY <1>3 DEF FailReconcile
  <2>2. /\ run' = [run EXCEPT ![k] = Idle]
        /\ SetObject(k, [Object(k) EXCEPT !.ready = FALSE])
    BY <1>3 DEF FailReconcile
  <2>3. [Object(k) EXCEPT !.ready = FALSE] \in CFNamespaceObject
    BY ObjectType DEF CFNamespaceObject
  <2>4. \A j \in Keys : j # k => Object(j)' = Object(j)
    BY <2>2, <2>3, SetObjectEffect
  <2>5. AccessOf(k)'
    BY <2>1, AccessFrame DEF AccessInv
  <2>6. /\ bindings' = [bindings EXCEPT ![k] = bindings[k] \cup done]
        /\ bindings[k] \cup done # bindings[k] => Watchers(k) \subseteq queue'
        /\ queue \subseteq queue'
    BY <2>1
  <2> QED
    BY <2>2, <2>4, <2>5, <2>6, ReconciledAccess
<1>4. CASE DeleteNamespace(k)
  <2>1. UNCHANGED <<org, space, bindings, run, queue>>
    BY <1>4 DEF DeleteNamespace
  <2>2. \A j \in Keys : AccessOf(j)'
    BY <2>1, AccessFrame, BindingsFrame DEF AccessInv, Object
  <2> QED
    BY <2>1, <2>2 DEF AccessInv
<1>5. CASE ReleaseObject(k)
  <2>1. /\ UNCHANGED <<bindings, run>> /\ queue' = queue \ {k}
        /\ SetObject(k, [phase |-> "gone", ready |-> FALSE])
    BY <1>5 DEF ReleaseObject
  <2>2. [phase |-> "gone", ready |-> FALSE] \in CFNamespaceObject
    BY DEF CFNamespaceObject, Phases
  <2>3. Object(k)'.phase # "live" /\ \A j \in Keys : j # k => Object(j)' = Object(j)
    BY <2>1, <2>2, SetObjectEffect
  <2>4. \A j \in Keys : AccessOf(j)'
    BY <2>1, <2>3, AccessFrame, BindingsFrame DEF AccessInv
  <2> QED
    BY <2>1, <2>4 DEF AccessInv
<1> QED
  BY <1>1, <1>2, <1>3, <1>4, <1>5, CompleteAccess

\* What Kubernetes takes out of a namespace belongs to an object that is being
\* deleted, or to spaces that are from now on.
LEMMA EmptyingAccess ==
    ASSUME TypeOK, OwnerInv, AccessInv, EmptyOrgNamespace \/ \E s \in Spaces : EmptySpaceNamespace(s)
    PROVE  AccessInv'
<1> USE KeyFacts DEF TypeOK
<1>1. CASE EmptyOrgNamespace
  <2>1. /\ ns["org"] = "terminating" /\ UNCHANGED <<org, run>>
        /\ \A s \in Spaces : space'[s] = [space[s] EXCEPT !.phase = IF @ = "live" THEN "deleting" ELSE @]
        /\ bindings' = [bindings EXCEPT !["org"] = {}]
    BY <1>1 DEF EmptyOrgNamespace
  <2>2. Object("org").phase = "deleting"
    BY <2>1 DEF OwnerInv
  <2>3. ASSUME NEW s \in Spaces
        PROVE  space'[s].phase # "live"
    <3>1. space[s] \in CFNamespaceObject
      BY DEF TenancyTypeOK
    <3> QED
      BY <2>1, <3>1 DEF CFNamespaceObject
  <2>4. \A k \in Keys : Object(k)'.phase # "live"
    BY <2>1, <2>2, <2>3 DEF Object
  <2>5. \A k \in Keys : AccessOf(k)'
    BY <2>4, AccessFrame DEF AccessInv
  <2>6. bindings'["root"] = bindings["root"]
    BY <2>1 DEF TenancyTypeOK
  <2> QED
    BY <2>5, <2>6 DEF AccessInv
<1>2. CASE \E s \in Spaces : EmptySpaceNamespace(s)
  <2>1. PICK s \in Spaces : EmptySpaceNamespace(s)
    BY <1>2
  <2>2. /\ ns[s] = "terminating" /\ UNCHANGED <<org, space, queue, run>>
        /\ bindings' = [bindings EXCEPT ![s] = {}]
    BY <2>1 DEF EmptySpaceNamespace
  <2>3. Object(s).phase = "deleting" /\ \A k \in Keys : Object(k)' = Object(k)
    BY <2>2 DEF OwnerInv, Object
  <2>4. \A n \in Keys \cup {"root"} : n # s => bindings'[n] = bindings[n]
    BY <2>2 DEF TenancyTypeOK
  <2>5. AccessOf(s)'
    BY <2>3, AccessFrame DEF AccessInv
  <2>6. \A k \in Keys : k # s => AccessOf(k)'
    BY <2>2, <2>3, <2>4, AccessFrame, BindingsFrame DEF AccessInv, Parent
  <2> QED
    BY <2>4, <2>5, <2>6 DEF AccessInv
<1> QED
  BY <1>1, <1>2

\* Every step keeps what is known of access.
LEMMA NextAccess ==
    ASSUME TypeOK, OwnerInv, AccessInv, [Next]_vars
    PROVE  AccessInv'
<1>1. CASE Restart
  <2>1. /\ UNCHANGED <<org, space, bindings>>
        /\ queue' = {k \in Keys : Exists(Object(k))}
    BY <1>1 DEF Restart
  <2>2. \A k \in Keys : Object(k)' = Object(k) /\ (Object(k).phase = "live" => k \in queue')
    BY <2>1 DEF Object, Exists
  <2>3. \A k \in Keys : AccessOf(k)'
    BY <2>2, AccessFrame DEF AccessInv
  <2> QED
    BY <2>1, <2>3 DEF AccessInv
<1>2. CASE \/ \E s \in Spaces : TimeOut(s) \/ DeleteApps(s)
           \/ \E n \in Keys : RemoveNamespace(n)
           \/ UNCHANGED tenancyVars \/ UNCHANGED vars
  <2>1. UNCHANGED <<org, space, bindings, run, queue>>
    BY <1>2 DEF TimeOut, DeleteApps, RemoveNamespace, tenancyVars, vars
  <2>2. \A j \in Keys : AccessOf(j)'
    BY <2>1, AccessFrame, BindingsFrame DEF AccessInv, Object
  <2> QED
    BY <2>1, <2>2 DEF AccessInv
<1>3. CASE UserSteps
  BY <1>2, <1>3, RequestsAccess DEF UserSteps
<1>4. CASE OrgAndSpaceSteps
  BY <1>2, <1>4, ReconcilersAccess, EmptyingAccess
     DEF OrgAndSpaceSteps, DeleteAppsOf, EmptyNamespace, RemoveNamespaceOf
<1>5. CASE RouteSteps
  BY <1>2, <1>5 DEF RouteSteps
<1> QED
  BY <1>1, <1>2, <1>3, <1>4, <1>5 DEF Next

\* An installation starts with every namespace owned and its access copied.
LEMMA InitTenancy ==
    ASSUME Init
    PROVE  OwnerInv /\ AccessInv
<1> USE KeyFacts
<1> DEFINE first == CHOOSE s \in Spaces : TRUE
<1>1. first \in Spaces
  BY PlatformBounds
<1>2. PICK pushed \in BOOLEAN :
        /\ org = IF pushed THEN [phase |-> "live", ready |-> TRUE] ELSE Absent
        /\ space = [s \in Spaces |-> IF pushed /\ s = first THEN [phase |-> "live", ready |-> TRUE]
                                     ELSE Absent]
        /\ ns = [k \in Keys |-> IF pushed /\ k \in {"org", first} THEN "active" ELSE "none"]
        /\ bindings = [k \in Keys \cup {"root"} |->
                        IF k = "root" \/ (pushed /\ k \in {"org", first}) THEN {"admin"} ELSE {}]
  BY DEF Init
<1> HIDE DEF first
<1>3. \A k \in Keys : Object(k).phase = IF pushed /\ k \in {"org", first} THEN "live" ELSE "none"
  BY <1>1, <1>2 DEF Object, Absent
<1>4. \A s \in Spaces : space[s].phase = Object(s).phase
  BY DEF Object
<1>5. OwnerInv
  BY <1>2, <1>3, <1>4 DEF OwnerInv, NamespaceHasOwner, Exists
<1>6. ASSUME NEW k \in Keys, Object(k).phase = "live"
      PROVE  UpToDate(k) /\ ~run[k].busy
  <2>1. bindings[k] = {"admin"} /\ bindings[Parent(k)] = {"admin"}
    BY <1>2, <1>3, <1>6 DEF Parent
  <2>2. "admin" \notin RolesOf(k)
    BY DEF RolesOf, OrgRoles, SpaceRoles
  <2>3. Granted(k) = {"admin"} /\ Copies(k) = {"admin"}
    BY <2>1, <2>2 DEF Granted, Copies, Propagates
  <2>4. ~run[k].busy
    BY DEF Init, Idle
  <2> QED
    BY <2>3, <2>4 DEF UpToDate
<1>7. AccessInv
  BY <1>2, <1>6 DEF AccessInv, AccessOf
<1> QED
  BY <1>5, <1>7

-----------------------------------------------------------------------------
(* The theorems.                                                           *)

\* Whatever is created, deleted, reconciled and restarted in whatever order, a
\* namespace has its CFOrg or CFSpace and a CFSpace the namespace of its org:
\* the finalizer waits for the namespace, and Kubernetes for what is in it.
THEOREM NamespacesOwned == Spec => []NamespaceHasOwner
<1>1. Init => TypeOK /\ OwnerInv
  BY InitType, InitTenancy
<1>2. TypeOK /\ OwnerInv /\ [Next]_vars => (TypeOK /\ OwnerInv)'
  BY NextType, NextOwner
<1>3. OwnerInv => NamespaceHasOwner
  BY DEF OwnerInv
<1> QED
  BY <1>1, <1>2, <1>3, PTL DEF Spec

\* A route that no request raced with keeps its domain, and its destinations
\* their apps, although the finalizers of domains and apps list the routes
\* before they let the object go.
THEOREM RoutesStayIntact == Spec => []RoutesIntact
<1>1. Init => TypeOK /\ RouteInv
  BY InitType, InitRoutes
<1>2. TypeOK /\ RouteInv /\ [Next]_vars => (TypeOK /\ RouteInv)'
  BY NextType, NextRoutes
<1>3. TypeOK /\ RouteInv => RoutesIntact
  BY RouteInvSuffices
<1> QED
  BY <1>1, <1>2, <1>3, PTL DEF Spec

\* Traffic is never sent to a service that was deleted while the destination
\* is still one of the route: services are created before the HTTPRoute names
\* them and deleted after it no longer does, at every call that can fail.
THEOREM BackendsStayServed == Spec => []BackendsServed
<1>1. Init => TypeOK /\ RouteInv
  BY InitType, InitRoutes
<1>2. TypeOK /\ RouteInv /\ [Next]_vars => (TypeOK /\ RouteInv)'
  BY NextType, NextRoutes
<1>3. TypeOK /\ RouteInv => BackendsServed
  BY RouteInvSuffices
<1> QED
  BY <1>1, <1>2, <1>3, PTL DEF Spec

\* No change of roles, apps, droplets or routes is forgotten: as long as what
\* a namespace or a route has is not what it should have, its reconciliation
\* is queued or under way, and one that has read too early is queued again.
THEOREM StaleStaysQueued == Spec => []StaleIsQueued
<1>1. Init => TypeOK /\ RouteInv /\ OwnerInv /\ AccessInv
  BY InitType, InitRoutes, InitTenancy
<1>2. TypeOK /\ RouteInv /\ OwnerInv /\ AccessInv /\ [Next]_vars
        => (TypeOK /\ RouteInv /\ OwnerInv /\ AccessInv)'
  BY NextType, NextRoutes, NextOwner, NextAccess
<1>3. TypeOK /\ RouteInv /\ OwnerInv /\ AccessInv => StaleIsQueued
  BY RouteInvSuffices, AccessSuffices DEF StaleIsQueued
<1> QED
  BY <1>1, <1>2, <1>3, PTL DEF Spec
=============================================================================
