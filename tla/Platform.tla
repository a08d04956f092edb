------------------------------- MODULE Platform -------------------------------
(***************************************************************************)
(* Tenancy and Routes together: the apps and routes of a space are part of *)
(* its namespace, and go with it.                                          *)
(***************************************************************************)
EXTENDS Naturals, FiniteSets

CONSTANTS Spaces, Kept, RouteIds, Guids, MaxEvents, MaxFaults

ASSUME PlatformBounds ==
    /\ "org" \notin Spaces /\ "root" \notin Spaces
    /\ Spaces # {} /\ RouteIds # {} /\ Guids # {}
    /\ MaxEvents \in Nat /\ MaxFaults \in Nat

VARIABLES org, space, overdue, ns, bindings, accounts, app, queue, run, calls, faults,
          domain, route, services, httpRoute, droplet, request, late

INSTANCE Tenancy
INSTANCE Routes

tenancyVars == <<org, space, overdue, ns, bindings, accounts, queue, run>>
routesVars == <<domain, route, services, httpRoute, droplet, request, late>>
vars == <<org, space, overdue, ns, bindings, accounts, app, queue, run, calls, faults,
          domain, route, services, httpRoute, droplet, request, late>>

TypeOK == TenancyTypeOK /\ RoutesTypeOK

-----------------------------------------------------------------------------
\* An installation: nothing in it yet but perhaps the default domain, or one
\* space with an app that was pushed with a route.
Init ==
    \E pushed \in BOOLEAN :
        LET first == CHOOSE s \in Spaces : TRUE
            mapped == CHOOSE r \in RouteIds : TRUE
            web == [guid |-> CHOOSE g \in Guids : TRUE, port |-> 8080]
            settled == [phase |-> "live", ready |-> TRUE]
            there == IF pushed THEN {web} ELSE {}
        IN
        /\ org = IF pushed THEN settled ELSE Absent
        /\ space = [s \in Spaces |-> IF pushed /\ s = first THEN settled ELSE Absent]
        /\ overdue = [s \in Spaces |-> FALSE]
        /\ ns = [k \in Keys |-> IF pushed /\ k \in {"org", first} THEN "active" ELSE "none"]
        /\ bindings = [k \in Keys \cup {"root"} |->
                        IF k = "root" \/ (pushed /\ k \in {"org", first}) THEN {"admin"} ELSE {}]
        /\ accounts = [n \in Spaces \cup {"root"} |->
                        IF n = "root" \/ (pushed /\ n = first) THEN Accounts ELSE {}]
        /\ app = [s \in Spaces |-> IF pushed /\ s = first THEN "live" ELSE "none"]
        /\ queue = {} /\ run = [k \in Keys |-> Idle]
        /\ domain \in IF pushed THEN {"live"} ELSE {"none", "live"}
        /\ route = [r \in RouteIds |->
                        IF pushed /\ r = mapped
                        THEN [phase |-> "live", space |-> first, spec |-> {[web EXCEPT !.port = 0]},
                              status |-> {web}, queued |-> FALSE]
                        ELSE NoRoute]
        /\ services = [r \in RouteIds |-> IF r = mapped THEN there ELSE {}]
        /\ httpRoute = services
        /\ droplet = [s \in Spaces |-> IF pushed /\ s = first THEN "portless" ELSE "none"]
        /\ request = NoRequest /\ late = {}
        /\ calls = 0 /\ faults = 0

\* The controllers restart: they queue every object they find.
Restart ==
    /\ Fault
    /\ queue' = {k \in Keys : Exists(Object(k))}
    /\ run' = [k \in Keys |-> Idle]
    /\ route' = [r \in RouteIds |-> [route[r] EXCEPT !.queued = RouteExists(r)]]
    /\ UNCHANGED <<org, space, overdue, ns, bindings, accounts, app, calls,
                   domain, services, httpRoute, droplet, request, late>>

\* Deleting the apps of a space is a change of these apps.
DeleteAppsOf(s) ==
    /\ DeleteApps(s)
    /\ route' = QueueRoutesOf(s, route)
    /\ UNCHANGED <<domain, services, httpRoute, droplet, request, late>>

EmptyNamespace(s) ==
    /\ EmptySpaceNamespace(s)
    /\ DeleteRoutesIn(s)
    /\ UNCHANGED <<domain, services, httpRoute, droplet, request, late>>

\* A namespace with routes is not removed.
RemoveNamespaceOf(n) ==
    /\ RemoveNamespace(n)
    /\ n \in Spaces => RoutesIn(n) = {}
    /\ UNCHANGED routesVars

UserSteps ==
    \/ /\ \/ CreateOrg \/ ChangeAdmin
          \/ \E s \in Spaces : CreateSpace(s)
          \/ \E k \in Keys : Delete(k)
          \/ \E n \in Keys, role \in Roles : CreateRole(n, role) \/ DeleteRole(n, role)
          \/ \E a \in Accounts : ChangeAccount(a)
       /\ UNCHANGED routesVars
    \/ /\ \/ CreateDomain \/ DeleteDomain
          \/ \E r \in RouteIds, s \in Spaces : CreateRoute(r, s)
          \/ \E r \in RouteIds : DeleteRoute(r) \/ InsertDestinations(r)
          \/ \E r \in RouteIds, guid \in Guids : RemoveDestination(r, guid)
          \/ \E s \in Spaces : ListUnmapped(s) \/ CreateApp(s) \/ SetDroplet(s) \/ DeleteApp(s)
       /\ UNCHANGED tenancyVars

OrgAndSpaceSteps ==
    \/ /\ \/ EmptyOrgNamespace
          \/ \E k \in Keys :
                BeginReconcile(k) \/ CompleteReconcile(k) \/ FailReconcile(k)
                \/ DeleteNamespace(k) \/ ReleaseObject(k)
          \/ \E s \in Spaces : TimeOut(s)
       /\ UNCHANGED routesVars
    \/ \E s \in Spaces : DeleteAppsOf(s) \/ EmptyNamespace(s)
    \/ \E n \in Keys : RemoveNamespaceOf(n)

RouteSteps ==
    /\ \/ CommitInsert \/ DeleteUnmapped
       \/ DeleteRoutesOfDomain \/ FindNoRoutes \/ ReleaseDomain
       \/ \E s \in Spaces : UnmapApp(s) \/ ReleaseApp(s)
       \/ \E r \in RouteIds : ReconcileRoute(r) \/ FailRoute(r) \/ FinalizeRoute(r)
    /\ UNCHANGED tenancyVars

Next == UserSteps \/ OrgAndSpaceSteps \/ RouteSteps \/ Restart

\* The controllers work off what is queued, Kubernetes deletes namespaces,
\* and a request that has read goes on to write.
Fairness ==
    /\ WF_vars(EmptyOrgNamespace /\ UNCHANGED routesVars)
    /\ \A k \in Keys :
        WF_vars(/\ BeginReconcile(k) \/ CompleteReconcile(k) \/ DeleteNamespace(k) \/ ReleaseObject(k)
                /\ UNCHANGED routesVars)
    /\ \A n \in Keys : WF_vars(RemoveNamespaceOf(n))
    /\ \A s \in Spaces : WF_vars(DeleteAppsOf(s)) /\ WF_vars(EmptyNamespace(s))
    /\ \A s \in Spaces : WF_vars((UnmapApp(s) \/ ReleaseApp(s)) /\ UNCHANGED tenancyVars)
    /\ WF_vars((CommitInsert \/ DeleteUnmapped) /\ UNCHANGED tenancyVars)
    /\ WF_vars((DeleteRoutesOfDomain \/ FindNoRoutes \/ ReleaseDomain) /\ UNCHANGED tenancyVars)
    /\ \A r \in RouteIds : WF_vars((ReconcileRoute(r) \/ FinalizeRoute(r)) /\ UNCHANGED tenancyVars)

Spec == Init /\ [][Next]_vars /\ Fairness

-----------------------------------------------------------------------------
\* Nothing that is out of date is forgotten, of access or of traffic: a
\* reconciliation is queued for it or under way, although all of them are
\* woken by watches alone and read before they write.
StaleIsQueued == StaleAccessIsQueued /\ DriftIsQueued

\* Deletion ends: what is deleted is gone in the end, although an org waits
\* for its spaces, a space for its apps and routes, and a domain for the
\* routes on it; and nothing of an org is left when it is gone.
TeardownEnds ==
    <>[](/\ \A k \in Keys : Object(k).phase # "deleting" /\ ns[k] # "terminating"
         /\ \A s \in Spaces : app[s] \notin {"deleting", "unmapped"}
         /\ \A r \in RouteIds : route[r].phase # "deleting"
         /\ domain \notin {"deleting", "emptied"}
         /\ org.phase = "gone" => /\ \A k \in Keys : ns[k] \in {"none", "gone"}
                                  /\ \A r \in RouteIds : ~RouteExists(r))

\* What users ask for takes effect, unless it was for a route whose domain or
\* app was going: once requests stop, an org or space has
\* the access its parent propagates and no other, a space has the service
\* accounts, and traffic goes to exactly the destinations of each route, at
\* the port of the current droplet.
Settles ==
    <>[](/\ \A k \in Keys : Object(k).phase = "live" =>
                LET granted == {role \in bindings[Parent(k)] : Propagates(role)}
                    copies == {role \in bindings[k] : Propagates(role)} \ RolesOf(k)
                IN granted \subseteq copies /\ copies \ granted \subseteq Kept
         /\ \A s \in Spaces : space[s].phase = "live" =>
                accounts["root"] \subseteq accounts[s] /\ accounts[s] \ accounts["root"] \subseteq Kept
         /\ \A r \in RouteIds \ late : route[r].phase = "live" =>
                httpRoute[r] = EffectiveDestinations(r) /\ services[r] = httpRoute[r])

\* The platform comes to rest in the state that was asked for: what is deleted
\* is gone, and what is not has what it should (the controllers of orgs,
\* spaces, domains, routes and apps together).
PlatformSettles == TeardownEnds /\ Settles
=============================================================================
