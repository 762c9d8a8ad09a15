------------------------------- MODULE Routes -------------------------------
(***************************************************************************)
(* The write routes of server/router.go and how a request finds its        *)
(* handler. A path is the sequence of its segments after "/api", a route's *)
(* pattern the same with the parameters of the route in it. Read routes    *)
(* are left out: they use GET and never compete with these.                *)
(***************************************************************************)
EXTENDS Integers, Sequences, FiniteSetsExt

Parameters == {":id", ":action", ":name", ":state", ":zone", ":service"}

\* One app.Post or app.Delete: the handler looks up the module and calls op.
Route(method, pattern, module, op) ==
    [method |-> method, pattern |-> pattern, module |-> module, op |-> op]

PodmanRoutes ==
    << Route("POST", <<"podman", "containers", ":id", ":action">>,
             "podman", "ContainerAction"),
       Route("POST", <<"podman", "images", "pull">>, "podman", "PullImage"),
       Route("POST", <<"podman", "images", "build">>, "podman", "BuildImage"),
       Route("POST", <<"podman", "containers", ":id", "exec">>, "podman", "Exec"),
       Route("POST", <<"podman", "registry", "login">>, "podman", "RegistryLogin"),
       Route("POST", <<"podman", "registry", "logout">>, "podman", "RegistryLogout") >>

SystemdRoutes ==
    << Route("POST", <<"systemd", "units", ":name", ":action">>,
             "diagnostics", "UnitAction") >>

NetworkRoutes ==
    << Route("POST", <<"network", "enabled", ":state">>, "network", "SetEnabled") >>

FirewallRoutes ==
    << Route("POST", <<"firewall", "zones", ":zone", "services", ":service", ":state">>,
             "firewall", "SetService") >>

StorageRoutes ==
    << Route("POST", <<"storage", "devices", "format">>, "storage", "FormatBlock"),
       Route("POST", <<"storage", "devices", "unlock">>, "storage", "UnlockBlock") >>

ZFSRoutes ==
    << Route("POST", <<"zfs", "pools">>, "zfs", "CreatePool"),
       Route("POST", <<"zfs", "pools", ":name", "scrub">>, "zfs", "StartScrub"),
       Route("POST", <<"zfs", "pools", ":name", "scrub", "stop">>, "zfs", "StopScrub"),
       Route("POST", <<"zfs", "pools", ":name", "snapshot">>, "zfs", "CreateSnapshot"),
       Route("DELETE", <<"zfs", "pools", ":name">>, "zfs", "DestroyPool") >>

CloudflareRoutes ==
    << Route("POST", <<"cloudflare", "provision">>, "cloudflare", "ProvisionWithToken"),
       Route("POST", <<"cloudflare", "tunnels", ":name", "restart">>,
             "cloudflare", "RestartTunnelContainer") >>

SensorsRoutes ==
    << Route("POST", <<"sensors", "thresholds">>, "sensors", "SetThreshold"),
       Route("DELETE", <<"sensors", "thresholds">>, "sensors", "ClearThreshold"),
       Route("POST", <<"sensors", "thresholds", "clear">>, "sensors", "ClearThreshold") >>

\* In the order in which registerAPIRoutes registers them.
WriteRoutes ==
    PodmanRoutes \o SystemdRoutes \o NetworkRoutes \o FirewallRoutes \o
    StorageRoutes \o ZFSRoutes \o CloudflareRoutes \o SensorsRoutes

Modules == {"podman", "diagnostics", "network", "firewall", "storage", "zfs",
            "cloudflare", "sensors"}

\* A parameter stands for any one segment.
Matches(route, call) ==
    /\ route.method = call.method
    /\ Len(route.pattern) = Len(call.path)
    /\ \A i \in 1..Len(call.path) :
          route.pattern[i] \in Parameters \cup {call.path[i]}

Matching(call) == {i \in 1..Len(WriteRoutes) : Matches(WriteRoutes[i], call)}

\* Fiber runs the first route that matches, and it answers without c.Next().
RouteOf(call) == WriteRoutes[Min(Matching(call))]

\* The last segment: the action or state word of the routes that end in one.
Word(call) == call.path[Len(call.path)]
=============================================================================
