-------------------------------- MODULE Routes --------------------------------
(***************************************************************************)
(* A domain, the routes on it and where they lead.                         *)
(*                                                                         *)
(* Each route leads to destinations: ports of the app of its space.  A     *)
(* destination without a port gets the one of the app's current droplet.   *)
(* One reconciliation works out the effective destinations and writes them *)
(* to the status; the next one makes a Service for each of them and an     *)
(* HTTPRoute that leads to the Services.                                   *)
(*                                                                         *)
(* The state of spaces, namespaces and apps is that of Tenancy.            *)
(***************************************************************************)
EXTENDS Naturals, FiniteSets

CONSTANTS
    Spaces,
    RouteIds,       \* the CFRoutes
    Guids,          \* the GUIDs of destinations
    MaxEvents, MaxFaults

VARIABLES
    space, ns, app, calls, faults,
    domain,         \* the CFDomain
    route,          \* the CFRoutes
    services,       \* the Services of each route
    httpRoute,      \* the backends of the HTTPRoute of each route
    droplet,        \* the current droplet of the app of each space
    request,        \* a request that has read and not yet written
    late            \* history: the routes that were created or mapped after a
                    \* finalizer had listed routes and before it was done

-----------------------------------------------------------------------------
(* State.  Port 0 stands for none given.                                   *)

Ports == {8080, 5000}
Destination == [guid : Guids, port : Ports \cup {0}]
Backend == [guid : Guids, port : Ports]
CFRoute ==
    [phase : {"none", "live", "deleting", "gone"}, space : Spaces, spec : SUBSET Destination,
     status : SUBSET Backend, queued : BOOLEAN]
NoRoute ==
    [phase |-> "none", space |-> CHOOSE s \in Spaces : TRUE, spec |-> {}, status |-> {}, queued |-> FALSE]
Request ==
    [kind : {"none", "insert", "unmapped"}, target : RouteIds, read : SUBSET Destination,
     port : Ports \cup {0}, routes : SUBSET RouteIds]
NoRequest ==
    [kind |-> "none", target |-> CHOOSE r \in RouteIds : TRUE, read |-> {}, port |-> 0, routes |-> {}]

RoutesTypeOK ==
    /\ domain \in {"none", "live", "deleting", "emptied", "gone"}
    /\ route \in [RouteIds -> CFRoute]
    /\ services \in [RouteIds -> SUBSET Backend]
    /\ httpRoute \in [RouteIds -> SUBSET Backend]
    /\ droplet \in [Spaces -> {"none", "portless", "exposing"}]
    /\ request \in Request
    /\ late \in SUBSET RouteIds

DomainExists == domain \in {"live", "deleting", "emptied"}
RouteExists(r) == route[r].phase \in {"live", "deleting"}
RoutesIn(s) == {r \in RouteIds : RouteExists(r) /\ route[r].space = s}
AppFound(s) == app[s] \in {"live", "deleting", "unmapped"}
GuidsOf(dests) == {d.guid : d \in dests}

RouteCall == calls + faults < MaxEvents /\ calls' = calls + 1
RouteFault == calls + faults < MaxEvents /\ faults < MaxFaults /\ faults' = faults + 1

-----------------------------------------------------------------------------
(* Users.                                                                  *)

CreateDomain ==
    /\ RouteCall
    /\ domain = "none"
    /\ domain' = "live"
    /\ UNCHANGED <<route, services, httpRoute, droplet, request, late, app, faults>>

DeleteDomain ==
    /\ RouteCall
    /\ domain = "live"
    /\ domain' = "deleting"
    /\ UNCHANGED <<route, services, httpRoute, droplet, request, late, app, faults>>

\* The validator looks the domain up, and takes one that is being deleted,
\* one that was found to have no routes included.
CreateRoute(r, s) ==
    /\ RouteCall
    /\ space[s].phase \in {"live", "deleting"} /\ ns[s] = "active"
    /\ DomainExists
    /\ route[r].phase = "none"
    /\ route' = [route EXCEPT ![r] = [NoRoute EXCEPT !.phase = "live", !.space = s, !.queued = TRUE]]
    /\ late' = late \cup (IF domain = "emptied" THEN {r} ELSE {})
    /\ UNCHANGED <<domain, services, httpRoute, droplet, request, app, faults>>

\* GetRoute: a route is shown with its domain, or not at all.
Readable(r) == RouteExists(r) /\ DomainExists

DeleteRoute(r) ==
    /\ RouteCall
    /\ Readable(r) /\ route[r].phase = "live"
    /\ route' = [route EXCEPT ![r].phase = "deleting", ![r].queued = TRUE]
    /\ UNCHANGED <<domain, services, httpRoute, droplet, request, late, app, faults>>

\* cfRouteDestinationsToDestinationRecords: a record has the effective port
\* of a destination that was given none.
Records(r) ==
    LET effective(d) == {e \in route[r].status : d.port = 0 /\ e.guid = d.guid}
    IN {IF effective(d) = {} THEN d ELSE CHOOSE e \in effective(d) : TRUE : d \in route[r].spec}

\* insertDestinations reads the route ...
InsertDestinations(r) ==
    /\ RouteCall
    /\ request = NoRequest
    /\ Readable(r)
    /\ \E port \in {0, 8080} :
        request' = [kind |-> "insert", target |-> r, read |-> Records(r), port |-> port, routes |-> {}]
    /\ UNCHANGED <<domain, route, services, httpRoute, droplet, late, app, faults>>

\* validateDestinations, of a route that is not being deleted: the app is
\* there, if only to be released.
ValidDestinations(r, dests) ==
    route[r].phase = "live" /\ dests # {} => AppFound(route[r].space)

\* mergeDestinations.
Merged(read, port, guid) ==
    IF \E d \in read : d.port = port THEN read ELSE read \cup {[guid |-> guid, port |-> port]}

\* ... and writes all the destinations it has read with the new one, whatever
\* has become of them since.  A request that is refused changes nothing.
CommitInsert ==
    /\ request.kind = "insert"
    /\ LET r == request.target
           used == GuidsOf(route[r].spec \cup route[r].status \cup services[r] \cup httpRoute[r] \cup request.read)
       IN \E guid \in Guids \ used :
            LET dests == Merged(request.read, request.port, guid)
                ok == RouteExists(r) /\ ValidDestinations(r, dests)
            IN /\ route' = IF ok THEN [route EXCEPT ![r].spec = dests, ![r].queued = TRUE] ELSE route
               /\ late' = late \cup (IF ok /\ app[route[r].space] = "unmapped" THEN {r} ELSE {})
    /\ request' = NoRequest
    /\ UNCHANGED <<domain, services, httpRoute, droplet, app, calls, faults>>

RemoveDestination(r, guid) ==
    /\ RouteCall
    /\ Readable(r)
    /\ guid \in GuidsOf(route[r].spec)
    /\ LET dests == {d \in route[r].spec : d.guid # guid}
       IN /\ ValidDestinations(r, dests)
          /\ route' = [route EXCEPT ![r].spec = dests, ![r].queued = TRUE]
    /\ UNCHANGED <<domain, services, httpRoute, droplet, request, late, app, faults>>

\* DeleteUnmappedRoutes lists the routes by their label ...
ListUnmapped(s) ==
    /\ RouteCall
    /\ request = NoRequest
    /\ space[s].phase \in {"live", "deleting"}
    /\ RoutesIn(s) # {} => DomainExists
    /\ request' = [NoRequest EXCEPT !.kind = "unmapped", !.routes = {r \in RoutesIn(s) : route[r].spec = {}}]
    /\ UNCHANGED <<domain, route, services, httpRoute, droplet, late, app, faults>>

\* ... and deletes each of them, unless one is missing.
DeleteUnmapped ==
    /\ request.kind = "unmapped"
    /\ request' = NoRequest
    /\ route' = [r \in RouteIds |->
                    IF r \in request.routes /\ route[r].phase = "live"
                    THEN [route[r] EXCEPT !.phase = "deleting", !.queued = TRUE]
                    ELSE route[r]]
    /\ UNCHANGED <<domain, services, httpRoute, droplet, late, app, calls, faults>>

-----------------------------------------------------------------------------
(* Apps.  A change of an app queues the routes that lead to it.            *)

\* enqueueCFAppRequests, on the routes as they are.
QueueRoutesOf(s, routes) ==
    [r \in RouteIds |-> IF r \in RoutesIn(s) /\ routes[r].spec # {}
                        THEN [routes[r] EXCEPT !.queued = TRUE] ELSE routes[r]]

CreateApp(s) ==
    /\ RouteCall
    /\ app[s] = "none"
    /\ space[s].phase \in {"live", "deleting"} /\ ns[s] = "active"
    /\ app' = [app EXCEPT ![s] = "live"]
    /\ UNCHANGED <<domain, route, services, httpRoute, droplet, request, late, faults>>

SetDroplet(s) ==
    /\ RouteCall
    /\ app[s] \in {"live", "deleting"}
    /\ \E d \in {"portless", "exposing"} \ {droplet[s]} : droplet' = [droplet EXCEPT ![s] = d]
    /\ route' = QueueRoutesOf(s, route)
    /\ UNCHANGED <<domain, services, httpRoute, request, late, app, faults>>

DeleteApp(s) ==
    /\ RouteCall
    /\ app[s] = "live"
    /\ app' = [app EXCEPT ![s] = "deleting"]
    /\ route' = QueueRoutesOf(s, route)
    /\ UNCHANGED <<domain, services, httpRoute, droplet, request, late, faults>>

\* finalizeCFAppRoutes takes the app out of its routes, on every pass ...
UnmapApp(s) ==
    /\ app[s] = "deleting"
    /\ app' = [app EXCEPT ![s] = "unmapped"]
    /\ route' = [r \in RouteIds |-> [QueueRoutesOf(s, route)[r] EXCEPT !.spec = IF r \in RoutesIn(s) THEN {} ELSE @]]
    /\ UNCHANGED <<domain, services, httpRoute, droplet, request, late, calls, faults>>

\* ... and the last pass removes the finalizer.
ReleaseApp(s) ==
    /\ app[s] = "unmapped"
    /\ app' = [app EXCEPT ![s] = "gone"]
    /\ route' = QueueRoutesOf(s, route)
    /\ UNCHANGED <<domain, services, httpRoute, droplet, request, late, calls, faults>>

-----------------------------------------------------------------------------
(* The route controller.                                                   *)

\* getAppCurrentDroplet fails when the app is missing.
Resolvable(r) == (\E d \in route[r].spec : d.port = 0) => AppFound(route[r].space)

\* Mutant: the default port is left out.
EffectiveDestinationsNoDefault(r) ==
    LET current == droplet[route[r].space]
        port(d) == IF d.port = 0 /\ current = "exposing" THEN 5000 ELSE d.port
    IN {[d EXCEPT !.port = port(d)] : d \in {e \in route[r].spec : e.port # 0 \/ current # "none"}}

\* buildEffectiveDestinations: those without a port are left out while the
\* app has no droplet.
EffectiveDestinations(r) ==
    LET current == droplet[route[r].space]
        port(d) == IF d.port # 0 THEN d.port ELSE IF current = "exposing" THEN 5000 ELSE 8080
    IN {[d EXCEPT !.port = port(d)] : d \in {e \in route[r].spec : e.port # 0 \/ current # "none"}}

\* createOrPatchServices, for the destinations of the status.
PatchedServices(r) ==
    {d \in services[r] : d.guid \notin GuidsOf(route[r].status)} \cup route[r].status

\* deleteOrphanedServices, after the status has been set.
WithoutOrphans(dests, effective) == {d \in dests : d.guid \in GuidsOf(effective)}

Reconcilable(r) ==
    route[r].queued /\ route[r].phase = "live" /\ DomainExists /\ ns[route[r].space] = "active"

\* Mutant: the HTTPRoute gets the new effective destinations.
ReconcileRouteAhead(r) ==
    /\ Reconcilable(r) /\ Resolvable(r)
    /\ httpRoute' = [httpRoute EXCEPT ![r] = EffectiveDestinations(r)]
    /\ services' = [services EXCEPT ![r] = WithoutOrphans(PatchedServices(r), EffectiveDestinations(r))]
    /\ route' = [route EXCEPT ![r].status = EffectiveDestinations(r),
                              ![r].queued = EffectiveDestinations(r) # route[r].status]
    /\ UNCHANGED <<domain, droplet, request, late, app, calls, faults>>

\* ReconcileResource.  The status patch queues the route when it changes.
ReconcileRoute(r) ==
    /\ Reconcilable(r) /\ Resolvable(r)
    /\ httpRoute' = [httpRoute EXCEPT ![r] = route[r].status]
    /\ services' = [services EXCEPT ![r] = WithoutOrphans(PatchedServices(r), EffectiveDestinations(r))]
    /\ route' = [route EXCEPT ![r].status = EffectiveDestinations(r),
                              ![r].queued = EffectiveDestinations(r) # route[r].status]
    /\ UNCHANGED <<domain, droplet, request, late, app, calls, faults>>

\* A call fails, at the HTTPRoute, the droplet or a Service to delete; the
\* route is queued again.
FailRoute(r) ==
    /\ Reconcilable(r)
    /\ RouteFault
    /\ \E reached \in {"services", "httpRoute", "status"} :
        /\ reached = "status" => Resolvable(r)
        /\ services' = [services EXCEPT ![r] = PatchedServices(r)]
        /\ httpRoute' = [httpRoute EXCEPT ![r] = IF reached = "services" THEN @ ELSE route[r].status]
        /\ route' = [route EXCEPT ![r].status = IF reached = "status" THEN EffectiveDestinations(r) ELSE @]
    /\ UNCHANGED <<domain, droplet, request, late, app, calls>>

\* finalizeCFRoute removes the finalizer.  The garbage collector of
\* Kubernetes removes what the route owns.
FinalizeRoute(r) ==
    /\ route[r].queued /\ route[r].phase = "deleting"
    /\ route' = [route EXCEPT ![r].phase = "gone", ![r].queued = FALSE]
    /\ services' = [services EXCEPT ![r] = {}]
    /\ httpRoute' = [httpRoute EXCEPT ![r] = {}]
    /\ UNCHANGED <<domain, droplet, request, late, app, calls, faults>>

-----------------------------------------------------------------------------
(* The domain controller, while the domain is being deleted.               *)

\* finalizeCFDomain deletes the routes it lists and is requeued ...
DeleteRoutesOfDomain ==
    /\ domain = "deleting"
    /\ \E r \in RouteIds : route[r].phase = "live"
    /\ route' = [r \in RouteIds |-> IF route[r].phase = "live"
                                    THEN [route[r] EXCEPT !.phase = "deleting", !.queued = TRUE]
                                    ELSE route[r]]
    /\ UNCHANGED <<domain, services, httpRoute, droplet, request, late, app, calls, faults>>

\* Mutant: routes that are being deleted do not count.
FindNoLiveRoutes ==
    /\ domain = "deleting"
    /\ \A r \in RouteIds : route[r].phase # "live"
    /\ domain' = "emptied"
    /\ UNCHANGED <<route, services, httpRoute, droplet, request, late, app, calls, faults>>

\* ... until it lists none, deleted ones included: then the finalizer goes.
FindNoRoutes ==
    /\ domain = "deleting"
    /\ \A r \in RouteIds : ~RouteExists(r)
    /\ domain' = "emptied"
    /\ UNCHANGED <<route, services, httpRoute, droplet, request, late, app, calls, faults>>

ReleaseDomain ==
    /\ domain = "emptied"
    /\ domain' = "gone"
    /\ UNCHANGED <<route, services, httpRoute, droplet, request, late, app, calls, faults>>

\* What the deletion of a namespace does to the routes in it.
DeleteRoutesIn(s) ==
    route' = [r \in RouteIds |-> IF r \in RoutesIn(s) /\ route[r].phase = "live"
                                 THEN [route[r] EXCEPT !.phase = "deleting", !.queued = TRUE]
                                 ELSE route[r]]

-----------------------------------------------------------------------------
(* Properties.                                                             *)

\* A route outlives its domain only if it was created after the finalizer of
\* the domain had listed the routes for the last time: otherwise the API can
\* read the route, and with it the list of all routes.
RouteHasDomain == \A r \in RouteIds \ late : RouteExists(r) => DomainExists

\* A destination refers to an app that is gone only if it was added after the
\* finalizer of the app had taken the app out of its routes: otherwise the
\* validator takes later changes of the route.
DestinationHasApp ==
    \A r \in RouteIds \ late : route[r].phase = "live" /\ route[r].spec # {} => AppFound(route[r].space)

\* Nothing a route depends on goes before it: neither its domain nor its app,
\* however their finalizers and the requests for the route interleave
\* (finalizeCFDomain, finalizeCFAppRoutes, validateDestinations).
RoutesIntact == RouteHasDomain /\ DestinationHasApp

\* Traffic is never sent to a Service that is missing for a destination that
\* stays mapped: not between two reconciliations, nor when one fails.
BackendsServed ==
    \A r \in RouteIds : route[r].phase = "live" =>
        \A b \in httpRoute[r] : b.guid \in GuidsOf(route[r].status) => b.guid \in GuidsOf(services[r])

\* A route whose HTTPRoute or Services do not correspond to its destinations
\* and the droplet of its app is queued: no change is missed.
DriftIsQueued ==
    \A r \in RouteIds : route[r].phase = "live" /\ ~route[r].queued =>
        /\ route[r].status = EffectiveDestinations(r)
        /\ httpRoute[r] = route[r].status
        /\ services[r] = route[r].status
=============================================================================
