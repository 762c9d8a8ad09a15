---------------------------- MODULE FirewallPage -----------------------------
(***************************************************************************)
(* The firewall page (router.go, firewallPageData; dbus/firewalld): the    *)
(* default zone, the list of zones, and for each zone its services and its *)
(* interfaces, one call each, while firewalld goes on changing.            *)
(***************************************************************************)
EXTENDS Naturals

CONSTANTS Zones, Services, Ports,
          NoZone,             \* the zone of a port that is bound to none
          MaxFirewallChanges  \* bound: changes of firewalld during one request

ASSUME FirewallAssumption == NoZone \notin Zones /\ MaxFirewallChanges \in Nat

VARIABLES
  zones,      \* firewalld: the zones there are
  enabled,    \* the pairs of a zone and a service enabled in it
  zoneOf,     \* the zone each port (network interface) is bound to
  fwChanges,  \* how often firewalld has changed during the request
  fwAt,       \* where the request is
  fwTodo,     \* the zones it has yet to ask for
  fwZone,     \* the zone it is asking for
  fwShown,    \* the pairs of a zone and a service on the page
  fwBound,    \* the pairs of a port and a zone on the page
  fwError,    \* the page shows an error and no zones
  fwFailed,   \* some call of the request has failed
  wasEnabled, \* history: the pairs enabled at some moment of the request
  keptEnabled,\* history: the pairs enabled all through it
  moved       \* history: the ports whose zone changed during it

firewalld == <<zones, enabled, zoneOf, fwChanges>>
fwPage == <<fwShown, fwBound, fwError, fwFailed>>
fwHistory == <<wasEnabled, keptEnabled, moved>>
firewallVars == <<firewalld, fwAt, fwTodo, fwZone, fwPage, fwHistory>>

FirewallTypeOK ==
  /\ zones \subseteq Zones
  /\ enabled \subseteq zones \X Services
  /\ zoneOf \in [Ports -> Zones \cup {NoZone}]
  /\ fwChanges \in 0 .. MaxFirewallChanges
  /\ fwAt \in {"idle", "default", "zones", "services", "interfaces", "answered"}
  /\ fwTodo \subseteq Zones
  /\ fwZone \in Zones \cup {NoZone}
  /\ fwShown \subseteq Zones \X Services
  /\ fwBound \subseteq Ports \X Zones
  /\ fwError \in BOOLEAN
  /\ fwFailed \in BOOLEAN
  /\ wasEnabled \subseteq Zones \X Services
  /\ keptEnabled \subseteq enabled
  /\ moved \subseteq Ports

FirewallInit ==
  /\ zones = Zones
  /\ enabled \in SUBSET (Zones \X Services)
  /\ zoneOf \in [Ports -> Zones \cup {NoZone}]
  /\ fwChanges = 0
  /\ fwAt = "idle"
  /\ fwTodo = {}
  /\ fwZone = NoZone
  /\ fwShown = {}
  /\ fwBound = {}
  /\ fwError = FALSE
  /\ fwFailed = FALSE
  /\ wasEnabled = {}
  /\ keptEnabled = {}
  /\ moved = {}

-----------------------------------------------------------------------------
(* What firewalld, its other clients and this program's SetService do. *)

Reconfigure ==
  /\ fwChanges < MaxFirewallChanges
  /\ fwChanges' = fwChanges + 1
  /\ wasEnabled' = wasEnabled \cup enabled'
  /\ keptEnabled' = keptEnabled \cap enabled'
  /\ UNCHANGED <<fwAt, fwTodo, fwZone, fwPage>>

ToggleService(z, s) ==
  /\ z \in zones
  /\ enabled' = IF <<z, s>> \in enabled THEN enabled \ {<<z, s>>} ELSE enabled \cup {<<z, s>>}
  /\ Reconfigure
  /\ UNCHANGED <<zones, zoneOf, moved>>

MovePort(p, z) ==
  /\ z # zoneOf[p]
  /\ z \in zones \cup {NoZone}
  /\ zoneOf' = [zoneOf EXCEPT ![p] = z]
  /\ moved' = moved \cup {p}
  /\ UNCHANGED enabled
  /\ Reconfigure
  /\ UNCHANGED zones

\* A zone is removed, with what was enabled in it and bound to it, or added.
ToggleZone(z) ==
  /\ zones' = IF z \in zones THEN zones \ {z} ELSE zones \cup {z}
  /\ enabled' = {e \in enabled : e[1] \in zones'}
  /\ zoneOf' = [p \in Ports |-> IF zoneOf[p] \in zones' THEN zoneOf[p] ELSE NoZone]
  /\ moved' = moved \cup {p \in Ports : zoneOf'[p] # zoneOf[p]}
  /\ Reconfigure

-----------------------------------------------------------------------------
(* The request. *)

OpenFirewallPage ==
  /\ fwAt \in {"idle", "answered"}
  /\ fwAt' = "default"
  /\ fwTodo' = {}
  /\ fwZone' = NoZone
  /\ fwShown' = {}
  /\ fwBound' = {}
  /\ fwError' = FALSE
  /\ fwFailed' = FALSE
  /\ fwChanges' = 0
  /\ wasEnabled' = enabled
  /\ keptEnabled' = enabled
  /\ moved' = {}
  /\ UNCHANGED <<zones, enabled, zoneOf>>

\* No client, or the first two calls fail: the page is its error.
SummaryFails ==
  /\ fwAt \in {"default", "zones"}
  /\ fwAt' = "answered"
  /\ fwError' = TRUE
  /\ fwFailed' = TRUE
  /\ UNCHANGED <<firewalld, fwTodo, fwZone, fwShown, fwBound, fwHistory>>

\* getDefaultZone: only the mark of one row.
GetDefaultZone ==
  /\ fwAt = "default"
  /\ fwAt' = "zones"
  /\ UNCHANGED <<firewalld, fwTodo, fwZone, fwPage, fwHistory>>

\* On to the next zone of the list, or the answer.
NextZone(todo) ==
  \/ /\ todo = {}
     /\ fwAt' = "answered"
     /\ fwTodo' = {}
     /\ fwZone' = NoZone
  \/ /\ fwAt' = "services"
     /\ fwZone' \in todo
     /\ fwTodo' = todo \ {fwZone'}

GetZones ==
  /\ fwAt = "zones"
  /\ NextZone(zones)
  /\ UNCHANGED <<firewalld, fwPage, fwHistory>>

\* Mutant: the call is not told the zone.
RowServicesOfAny(z) == {z} \X {e[2] : e \in enabled}

\* The services of one row.
RowServices(z) == {e \in enabled : e[1] = z}

\* getServices; a failure, also because the zone is gone, leaves the row bare.
GetServices ==
  /\ fwAt = "services"
  /\ fwAt' = "interfaces"
  /\ \/ /\ fwZone \in zones
        /\ fwShown' = fwShown \cup RowServices(fwZone)
        /\ UNCHANGED fwFailed
     \/ /\ fwFailed' = TRUE
        /\ UNCHANGED fwShown
  /\ UNCHANGED <<firewalld, fwTodo, fwZone, fwBound, fwError, fwHistory>>

PortsOf(z) == {p \in Ports : zoneOf[p] = z}

\* Mutant: the slice the call stores into is that of the zones before.
RowPortsKept(z) == PortsOf(z) \cup {e[1] : e \in fwBound}

\* The interfaces of one row.
RowPorts(z) == PortsOf(z)

\* getInterfaces, likewise.
GetInterfaces ==
  /\ fwAt = "interfaces"
  /\ NextZone(fwTodo)
  /\ \/ /\ fwZone \in zones
        /\ fwBound' = fwBound \cup (RowPorts(fwZone) \X {fwZone})
        /\ UNCHANGED fwFailed
     \/ /\ fwFailed' = TRUE
        /\ UNCHANGED fwBound
  /\ UNCHANGED <<firewalld, fwShown, fwError, fwHistory>>

FirewallNext ==
  \/ OpenFirewallPage
  \/ SummaryFails
  \/ GetDefaultZone
  \/ GetZones
  \/ GetServices
  \/ GetInterfaces
  \/ \E z \in Zones : ToggleZone(z) \/ \E s \in Services : ToggleService(z, s)
  \/ \E p \in Ports, z \in Zones \cup {NoZone} : MovePort(p, z)

FirewallSpec == FirewallInit /\ [][FirewallNext]_firewallVars

-----------------------------------------------------------------------------
\* What the page shows was so during the request: a service shown in a zone was
\* enabled in it at some moment, and while no call failed, whatever was enabled
\* all through the request is shown.
ServicesShownWereEnabled ==
  fwAt = "answered" =>
    /\ fwShown \subseteq wasEnabled
    /\ ~fwFailed => keptEnabled \subseteq fwShown

\* firewalld binds a port to one zone at a time; the page, which asks for one
\* zone after the other, shows it in two only if it moved during the request.
PortsShownOnce ==
  \A a, b \in fwBound : a[1] = b[1] /\ a[2] # b[2] => a[1] \in moved
=============================================================================
