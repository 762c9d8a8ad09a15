----------------------------- MODULE PagesProofs -----------------------------
(***************************************************************************)
(* What the pages show, proved for any pools, units and containers and any *)
(* interfaces, zones, containers and numbers of changes.                   *)
(***************************************************************************)
EXTENDS NetworkPage, FirewallPage, PodmanPage, ZFSPage, Diagnostics, TLAPS

-----------------------------------------------------------------------------
(* The network page. *)

\* The histories: what was so all through the request still is.
LinkHistory ==
  /\ \A i \in stayedDown : link[i] = "down"
  /\ \A i \in stayedUp : link[i] = "up"

\* No row before the list; afterwards an interface that stayed down is one the
\* request has yet to read, or has a row that switches networking off.
RowsOfDown ==
  /\ netAt \in {"idle", "list"} => netRow = NoRows /\ netTodo = {}
  /\ netAt \in {"read", "answered"} /\ ~netError =>
       \A i \in stayedDown : i \in netTodo \/ netRow[i] \in {"down", "unread"}
  /\ netAt = "answered" => netTodo = {}

\* While no call has failed, every row that is down was read from an interface.
RowsReadDown ==
  ~netFailed =>
    /\ ~netError
    /\ \A i \in Interfaces : netRow[i] # "unread" /\ (netRow[i] = "down" => i \notin stayedUp)

NetworkInv == NetworkTypeOK /\ LinkHistory /\ RowsOfDown /\ RowsReadDown

LEMMA NetworkInvInit == NetworkInit => NetworkInv
  <1> SUFFICES ASSUME NetworkInit PROVE NetworkInv
    OBVIOUS
  <1>0. linkChanges \in 0 .. MaxLinkChanges /\ netRow \in [Interfaces -> RowStates]
    BY NetworkAssumption DEF NetworkInit, NoRows, RowStates
  <1>1. NetworkTypeOK
    BY <1>0, Zenon DEF NetworkInit, NetworkTypeOK
  <1>2. LinkHistory /\ RowsOfDown /\ RowsReadDown
    BY DEF NetworkInit, LinkHistory, RowsOfDown, RowsReadDown, NoRows
  <1>3. QED
    BY <1>1, <1>2 DEF NetworkInv

\* Every step of the page and of NetworkManager keeps what the rows mean.
LEMMA NetworkInvStep == NetworkInv /\ [NetworkNext]_networkVars => NetworkInv'
  <1> SUFFICES ASSUME NetworkInv, [NetworkNext]_networkVars PROVE NetworkInv'
    OBVIOUS
  <1> USE NetworkAssumption DEF NetworkInv, NetworkTypeOK, LinkHistory, RowsOfDown, RowsReadDown,
          RowStates, NoRows, LinkStates, nmVars, netHistory
  <1>1. CASE OpenNetworkPage
    <2>0. linkChanges' \in 0 .. MaxLinkChanges /\ netRow' \in [Interfaces -> RowStates]
      BY <1>1 DEF OpenNetworkPage
    <2>1. NetworkTypeOK'
      BY <1>1, <2>0, Zenon DEF OpenNetworkPage, LinksIn
    <2>2. LinkHistory' /\ RowsOfDown' /\ RowsReadDown'
      BY <1>1 DEF OpenNetworkPage, LinksIn
    <2>3. QED
      BY <2>1, <2>2
  <1>2. CASE ListDevices
    BY <1>2 DEF ListDevices
  <1>3. CASE ListDevicesFails
    BY <1>3 DEF ListDevicesFails
  <1>4. CASE AnswerNetworkPage
    BY <1>4 DEF AnswerNetworkPage
  <1>5. CASE \E i \in Interfaces : LinkChanges(i)
    BY <1>5 DEF LinkChanges
  <1>6. CASE \E i \in Interfaces : ReadDevice(i)
    <2> PICK i \in Interfaces : ReadDevice(i)
      BY <1>6
    <2>1. NetworkTypeOK'
      BY DEF ReadDevice, RowOnFailure
    <2>2. LinkHistory' /\ RowsOfDown'
      BY DEF ReadDevice, RowOnFailure
    <2>3. RowsReadDown'
      BY DEF ReadDevice, RowOnFailure
    <2>4. QED
      BY <2>1, <2>2, <2>3
  <1>7. CASE UNCHANGED networkVars
    BY <1>7 DEF networkVars
  <1>8. QED
    BY <1>1, <1>2, <1>3, <1>4, <1>5, <1>6, <1>7 DEF NetworkNext

\* The switch of the network page tells the truth for any set of interfaces: it
\* is never on over an interface that was down all through the request.
THEOREM SwitchIsEarned == NetworkSpec => []NetworkSwitchIsEarned
  <1>1. NetworkInv => NetworkSwitchIsEarned
    BY DEF NetworkInv, NetworkTypeOK, LinkHistory, RowsOfDown, RowsReadDown, RowStates,
           NetworkSwitchIsEarned, Enabled
  <1>2. QED
    BY <1>1, NetworkInvInit, NetworkInvStep, PTL DEF NetworkSpec

\* The types hold.
LEMMA NetworkTypes == NetworkSpec => []NetworkTypeOK
  <1>1. NetworkInv => NetworkTypeOK
    BY DEF NetworkInv
  <1>2. QED
    BY <1>1, NetworkInvInit, NetworkInvStep, PTL DEF NetworkSpec

-----------------------------------------------------------------------------
(* The firewall page. *)

\* The steps that change firewalld, and those of the request.
Reconfigured ==
  \/ \E z \in Zones : ToggleZone(z)
  \/ \E z \in Zones, s \in Services : ToggleService(z, s)
  \/ \E p \in Ports, z \in Zones \cup {NoZone} : MovePort(p, z)

\* The types hold.
LEMMA FirewallTypes == FirewallSpec => []FirewallTypeOK
  <1>1. FirewallInit => FirewallTypeOK
    <2> SUFFICES ASSUME FirewallInit PROVE FirewallTypeOK
      OBVIOUS
    <2>1. fwChanges \in 0 .. MaxFirewallChanges
      BY FirewallAssumption DEF FirewallInit
    <2>2. QED
      BY <2>1, Zenon DEF FirewallInit, FirewallTypeOK
  <1>2. FirewallTypeOK /\ [FirewallNext]_firewallVars => FirewallTypeOK'
    <2> SUFFICES ASSUME FirewallTypeOK, [FirewallNext]_firewallVars PROVE FirewallTypeOK'
      OBVIOUS
    <2> USE FirewallAssumption DEF FirewallTypeOK, firewalld, fwPage, fwHistory
    <2>1. CASE OpenFirewallPage
      <3>1. fwChanges' \in 0 .. MaxFirewallChanges
        BY <2>1 DEF OpenFirewallPage
      <3>2. QED
        BY <2>1, <3>1, Zenon DEF OpenFirewallPage
    <2>2. CASE SummaryFails \/ GetDefaultZone
      BY <2>2 DEF SummaryFails, GetDefaultZone
    <2>3. CASE GetZones
      BY <2>3 DEF GetZones, NextZone
    <2>4. CASE GetServices
      BY <2>4 DEF GetServices, RowServices
    <2>5. CASE GetInterfaces
      BY <2>5 DEF GetInterfaces, RowPorts, PortsOf, NextZone
    <2>6. CASE Reconfigured
      <3>0. Reconfigure
        BY <2>6 DEF Reconfigured, ToggleZone, ToggleService, MovePort
      <3>1. fwChanges' \in 0 .. MaxFirewallChanges
        BY <3>0 DEF Reconfigure
      <3>2. /\ zones' \subseteq Zones
            /\ zoneOf' \in [Ports -> Zones \cup {NoZone}]
            /\ enabled' \subseteq zones' \X Services
        <4>1. CASE \E z \in Zones : ToggleZone(z)
          <5>1. zones' \subseteq Zones
            BY <4>1 DEF ToggleZone
          <5>2. zoneOf' \in [Ports -> Zones \cup {NoZone}]
            BY <4>1 DEF ToggleZone
          <5>3. \A e \in enabled' : e \in enabled /\ e[1] \in zones'
            BY <4>1 DEF ToggleZone
          <5>4. enabled' \subseteq zones' \X Services
            BY <5>3
          <5>5. QED
            BY <5>1, <5>2, <5>4
        <4>2. CASE \E z \in Zones, s \in Services : ToggleService(z, s)
          BY <4>2 DEF ToggleService
        <4>3. CASE \E p \in Ports, z \in Zones \cup {NoZone} : MovePort(p, z)
          BY <4>3 DEF MovePort
        <4>4. QED
          BY <2>6, <4>1, <4>2, <4>3 DEF Reconfigured
      <3>3. moved' \subseteq Ports
        BY <2>6 DEF Reconfigured, ToggleZone, ToggleService, MovePort
      <3>4. wasEnabled' \subseteq Zones \X Services /\ keptEnabled' \subseteq enabled'
        BY <3>0, <3>2 DEF Reconfigure
      <3>5. UNCHANGED <<fwAt, fwTodo, fwZone, fwPage>>
        BY <3>0 DEF Reconfigure
      <3>6. QED
        BY <3>1, <3>2, <3>3, <3>4, <3>5
    <2>7. CASE UNCHANGED firewallVars
      BY <2>7 DEF firewallVars
    <2>8. QED
      BY <2>1, <2>2, <2>3, <2>4, <2>5, <2>6, <2>7 DEF FirewallNext, Reconfigured
  <1>3. QED
    BY <1>1, <1>2, PTL DEF FirewallSpec

\* What the page shows of a port holds now, unless the port has moved.
PortsWhereTheyAre == \A b \in fwBound : b[1] \in moved \/ zoneOf[b[1]] = b[2]

\* For any firewall, the page shows a port in two zones only if it moved
\* between them while the page asked.
THEOREM PortsAreShownOnce == FirewallSpec => []PortsShownOnce
  <1>1. FirewallInit => PortsWhereTheyAre
    BY DEF FirewallInit, PortsWhereTheyAre
  <1>2. FirewallTypeOK /\ PortsWhereTheyAre /\ [FirewallNext]_firewallVars => PortsWhereTheyAre'
    <2> SUFFICES ASSUME FirewallTypeOK, PortsWhereTheyAre, [FirewallNext]_firewallVars
                 PROVE  PortsWhereTheyAre'
      OBVIOUS
    <2> USE DEF FirewallTypeOK, PortsWhereTheyAre, firewalld, fwPage, fwHistory
    <2>1. CASE OpenFirewallPage
      BY <2>1 DEF OpenFirewallPage
    <2>2. CASE SummaryFails \/ GetDefaultZone \/ GetZones \/ GetServices
      BY <2>2 DEF SummaryFails, GetDefaultZone, GetZones, GetServices
    <2>3. CASE GetInterfaces
      BY <2>3 DEF GetInterfaces, RowPorts, PortsOf
    <2>4. CASE \E z \in Zones : ToggleZone(z)
      BY <2>4 DEF ToggleZone, Reconfigure
    <2>5. CASE \E z \in Zones, s \in Services : ToggleService(z, s)
      BY <2>5 DEF ToggleService, Reconfigure
    <2>6. CASE \E p \in Ports, z \in Zones \cup {NoZone} : MovePort(p, z)
      BY <2>6 DEF MovePort, Reconfigure
    <2>7. CASE UNCHANGED firewallVars
      BY <2>7 DEF firewallVars
    <2>8. QED
      BY <2>1, <2>2, <2>3, <2>4, <2>5, <2>6, <2>7 DEF FirewallNext
  <1>3. PortsWhereTheyAre => PortsShownOnce
    BY DEF PortsWhereTheyAre, PortsShownOnce
  <1>4. QED
    BY <1>1, <1>2, <1>3, FirewallTypes, PTL DEF FirewallSpec

\* Where the request has come to in its list: an enabled service is of a zone
\* to come, of the zone the request is asking for, or on the page.
ServicesSoFar ==
  /\ fwAt # "idle" => enabled \subseteq wasEnabled
  /\ fwShown \subseteq wasEnabled
  /\ fwAt = "answered" /\ ~fwFailed => fwTodo = {}
  /\ fwAt \in {"services", "interfaces", "answered"} /\ ~fwFailed =>
       \A e \in keptEnabled :
         e[1] \in fwTodo \/ (fwAt = "services" /\ e[1] = fwZone) \/ e \in fwShown

\* For any firewall, the page shows services that were enabled while it asked,
\* and while no call failed all that were enabled throughout.
THEOREM ServicesShownAreTrue == FirewallSpec => []ServicesShownWereEnabled
  <1>1. FirewallInit => ServicesSoFar
    BY DEF FirewallInit, ServicesSoFar
  <1>2. FirewallTypeOK /\ ServicesSoFar /\ [FirewallNext]_firewallVars => ServicesSoFar'
    <2> SUFFICES ASSUME FirewallTypeOK, ServicesSoFar, [FirewallNext]_firewallVars
                 PROVE  ServicesSoFar'
      OBVIOUS
    <2> USE DEF FirewallTypeOK, ServicesSoFar, firewalld, fwPage, fwHistory
    <2>1. CASE OpenFirewallPage
      BY <2>1 DEF OpenFirewallPage
    <2>2. CASE SummaryFails
      BY <2>2 DEF SummaryFails
    <2>3. CASE GetDefaultZone
      BY <2>3 DEF GetDefaultZone
    <2>4. CASE GetZones
      BY <2>4 DEF GetZones, NextZone
    <2>5. CASE GetServices
      BY <2>5 DEF GetServices, RowServices
    <2>6. CASE GetInterfaces
      BY <2>6 DEF GetInterfaces, NextZone
    <2>7. CASE Reconfigured
      BY <2>7 DEF Reconfigured, ToggleZone, ToggleService, MovePort, Reconfigure
    <2>8. CASE UNCHANGED firewallVars
      BY <2>8 DEF firewallVars
    <2>9. QED
      BY <2>1, <2>2, <2>3, <2>4, <2>5, <2>6, <2>7, <2>8 DEF FirewallNext, Reconfigured
  <1>3. FirewallTypeOK /\ ServicesSoFar => ServicesShownWereEnabled
    BY DEF FirewallTypeOK, ServicesSoFar, ServicesShownWereEnabled
  <1>4. QED
    BY <1>1, <1>2, <1>3, FirewallTypes, PTL DEF FirewallSpec
-----------------------------------------------------------------------------
(* The containers page. *)

\* The types hold: in particular a container's image is on the host, since an
\* image leaves only with the containers that use it.
LEMMA PodmanTypes == PodmanSpec => []PodmanTypeOK
  <1> USE PodmanAssumption DEF Answered, Listings
  <1>1. PodmanInit => PodmanTypeOK
    <2> SUFFICES ASSUME PodmanInit PROVE PodmanTypeOK
      OBVIOUS
    <2>1. podChanges \in 0 .. MaxPodmanChanges /\ podAt \in 0 .. Answered
      BY DEF PodmanInit
    <2>2. imageOf \in [Containers -> Images \cup {NoImage}]
      BY DEF PodmanInit
    <2>3. QED
      BY <2>1, <2>2, Zenon DEF PodmanInit, PodmanTypeOK
  <1>2. PodmanTypeOK /\ [PodmanNext]_podmanVars => PodmanTypeOK'
    <2> SUFFICES ASSUME PodmanTypeOK, [PodmanNext]_podmanVars PROVE PodmanTypeOK'
      OBVIOUS
    <2> USE DEF PodmanTypeOK, podmanHost, podPage
    <2>1. CASE OpenContainersPage
      <3>1. podChanges' \in 0 .. MaxPodmanChanges /\ podAt' \in 0 .. Answered
        BY <2>1 DEF OpenContainersPage
      <3>2. QED
        BY <2>1, <3>1, Zenon DEF OpenContainersPage
    <2>2. CASE ShowNote
      <3>1. podAt' \in 0 .. Answered
        BY <2>2 DEF ShowNote
      <3>2. QED
        BY <2>2, <3>1, Zenon DEF ShowNote
    <2>3. CASE ListContainers
      <3>1. podAt' \in 0 .. Answered /\ podShown' \subseteq Containers \X Images
        BY <2>3 DEF ListContainers, IsAt
      <3>2. QED
        BY <2>3, <3>1, Zenon DEF ListContainers
    <2>4. CASE ListImages
      <3>1. podAt' \in 0 .. Answered
        BY <2>4 DEF ListImages, IsAt
      <3>2. QED
        BY <2>4, <3>1, Zenon DEF ListImages
    <2>5. CASE ListingFails
      <3>1. podAt' \in 0 .. Answered
        BY <2>5 DEF ListingFails
      <3>2. QED
        BY <2>5, <3>1, Zenon DEF ListingFails
    <2>6. CASE \/ \E i \in Images : PullImage(i) \/ RemoveImage(i)
               \/ \E c \in Containers : RemoveContainer(c) \/ \E i \in Images : RunContainer(c, i)
      <3>0. PodmanChanges
        BY <2>6 DEF PullImage, RemoveImage, RemoveContainer, RunContainer
      <3>1. podChanges' \in 0 .. MaxPodmanChanges
        BY <3>0 DEF PodmanChanges
      <3>2. /\ images' \subseteq Images
            /\ imageOf' \in [Containers -> Images \cup {NoImage}]
            /\ \A c \in Containers : imageOf'[c] \in images' \cup {NoImage}
            /\ removed' \subseteq Containers
        BY <2>6 DEF PullImage, RemoveImage, RemoveContainer, RunContainer
      <3>3. QED
        BY <3>0, <3>1, <3>2, Zenon DEF PodmanChanges
    <2>7. CASE UNCHANGED podmanVars
      BY <2>7, Zenon DEF podmanVars
    <2>8. QED
      BY <2>1, <2>2, <2>3, <2>4, <2>5, <2>6, <2>7 DEF PodmanNext
  <1>3. QED
    BY <1>1, <1>2, PTL DEF PodmanSpec

\* A container on the page still has the image it is shown with, or was removed;
\* once the images are listed too, they have it.
ImagesSoFar ==
  /\ podAt \in {0, 1} => podShown = {}
  /\ podAt = 2 => \A e \in podShown : e[1] \in removed \/ imageOf[e[1]] = e[2]
  /\ podAt = 3 => \A e \in podShown : e[1] \in removed \/ e[2] \in podImages

PodmanInv ==
  /\ imageOf \in [Containers -> Images \cup {NoImage}]
  /\ \A c \in Containers : imageOf[c] \in images \cup {NoImage}
  /\ podAt \in 0 .. 3
  /\ podShown \subseteq Containers \X Images
  /\ ImagesSoFar

\* For any containers and images, a container is never shown without its image
\* unless it was removed while the page was made.
THEOREM ImagesAreShown == PodmanSpec => []ContainersShowTheirImage
  <1> USE PodmanAssumption DEF Answered, Listings
  <1>1. PodmanInit => PodmanInv
    BY DEF PodmanInit, PodmanInv, ImagesSoFar
  <1>2. PodmanInv /\ [PodmanNext]_podmanVars => PodmanInv'
    <2> SUFFICES ASSUME PodmanInv, [PodmanNext]_podmanVars PROVE PodmanInv'
      OBVIOUS
    <2> USE DEF PodmanInv, ImagesSoFar, podmanHost, podPage
    <2>1. CASE OpenContainersPage
      BY <2>1 DEF OpenContainersPage
    <2>2. CASE ShowNote
      BY <2>2 DEF ShowNote
    <2>3. CASE ListContainers
      BY <2>3 DEF ListContainers, IsAt
    <2>4. CASE ListImages
      BY <2>4 DEF ListImages, IsAt
    <2>5. CASE ListingFails
      BY <2>5 DEF ListingFails
    <2>6. ASSUME NEW i \in Images, PullImage(i) PROVE PodmanInv'
      BY <2>6 DEF PullImage, PodmanChanges
    <2>7. ASSUME NEW i \in Images, RemoveImage(i) PROVE PodmanInv'
      BY <2>7 DEF RemoveImage, PodmanChanges
    <2>8. ASSUME NEW c \in Containers, RemoveContainer(c) PROVE PodmanInv'
      BY <2>8 DEF RemoveContainer, PodmanChanges
    <2>9. ASSUME NEW c \in Containers, NEW i \in Images, RunContainer(c, i) PROVE PodmanInv'
      BY <2>9 DEF RunContainer, PodmanChanges
    <2>10. CASE UNCHANGED podmanVars
      BY <2>10 DEF podmanVars
    <2>11. QED
      BY <2>1, <2>2, <2>3, <2>4, <2>5, <2>6, <2>7, <2>8, <2>9, <2>10 DEF PodmanNext
  <1>3. PodmanInv => ContainersShowTheirImage
    BY DEF PodmanInv, ImagesSoFar, ContainersShowTheirImage
  <1>4. QED
    BY <1>1, <1>2, <1>3, PTL DEF PodmanSpec

-----------------------------------------------------------------------------
(* The ZFS page. *)

\* Going on to the next pool keeps the request's place: it asks for a pool
\* exactly while it is at one of a pool's commands.
LEMMA NextPoolType ==
  ASSUME NEW todo, todo \subseteq Pools, NextPool(todo)
  PROVE  /\ zfsAt' \in {"answered", "datasets"}
         /\ zfsTodo' \subseteq Pools /\ zfsPool' \subseteq Pools
         /\ zfsAt' \in {"datasets", "scrub", "fallback"} <=> zfsPool' # {}
  BY DEF NextPool

\* The types hold.
LEMMA ZFSPageTypes == ZFSPageSpec => []ZFSPageTypeOK
  <1> USE ZFSPageAssumption
  <1>1. ZFSPageInit => ZFSPageTypeOK
    <2> SUFFICES ASSUME ZFSPageInit PROVE ZFSPageTypeOK
      OBVIOUS
    <2>1. zpoolChanges \in 0 .. MaxZPoolChanges
      BY DEF ZFSPageInit
    <2>2. scan \in [Pools -> Scans] /\ scrubCell \in [Pools -> Cells]
      BY DEF ZFSPageInit, Scans, Cells
    <2>3. zfsAt \in {"datasets", "scrub", "fallback"} <=> zfsPool # {}
      BY DEF ZFSPageInit
    <2>4. QED
      BY <2>1, <2>2, <2>3 DEF ZFSPageInit, ZFSPageTypeOK
  <1>2. ZFSPageTypeOK /\ [ZFSPageNext]_zfsPageVars => ZFSPageTypeOK'
    <2> SUFFICES ASSUME ZFSPageTypeOK, [ZFSPageNext]_zfsPageVars PROVE ZFSPageTypeOK'
      OBVIOUS
    <2> USE DEF ZFSPageTypeOK, zfsHost, zfsShown, zfsHistory
    <2>0. ScanPairs \subseteq Pools \X Scans
      BY DEF ScanPairs
    <2>1. CASE OpenZFSPage
      <3>1. zpoolChanges' \in 0 .. MaxZPoolChanges /\ scrubCell' \in [Pools -> Cells]
        BY <2>1 DEF OpenZFSPage, Cells
      <3>2. QED
        BY <2>0, <2>1, <3>1 DEF OpenZFSPage
    <2>2. CASE NoPoolList
      BY <2>2 DEF NoPoolList
    <2>3. CASE ListPools
      BY <2>3, NextPoolType DEF ListPools
    <2>4. CASE ListDatasets
      <3>1. zfsPool \X Listed(zfsPool) \subseteq Pools \X Datasets
        BY DEF Listed
      <3>2. QED
        BY <2>4, <3>1 DEF ListDatasets, PoolCommandFails
    <2>5. CASE ReadScrub \/ ReadScrubAgain
      <3>1. scrubCell' \in [Pools -> Cells]
        BY <2>5 DEF ReadScrub, ReadScrubAgain, SetCell, FallbackCell, ScanPrinted, Cells
      <3>2. NextPool(zfsTodo) /\ UNCHANGED <<zfsHost, zfsMode, zfsRows, zfsDatasets, zfsFailed, zfsHistory>>
        BY <2>5 DEF ReadScrub, ReadScrubAgain
      <3>3. QED
        BY <3>1, <3>2, NextPoolType
    <2>6. CASE ReadScrubFails
      BY <2>6 DEF ReadScrubFails, PoolCommandFails
    <2>7. ASSUME NEW p \in Pools,
                 ScanChanges(p) \/ TogglePool(p) \/ \E d \in Datasets : ToggleDataset(p, d)
          PROVE  ZFSPageTypeOK'
      <3>0. HostChanges
        BY <2>7 DEF ScanChanges, TogglePool, ToggleDataset
      <3>1. zpoolChanges' \in 0 .. MaxZPoolChanges
        BY <3>0 DEF HostChanges
      <3>2. /\ pools' \subseteq Pools
            /\ datasets' \subseteq pools' \X Datasets
            /\ scan' \in [Pools -> Scans]
        <4>1. CASE ScanChanges(p)
          BY <4>1 DEF ScanChanges, ScanLeadsTo, Scans
        <4>2. CASE TogglePool(p)
          BY <4>2 DEF TogglePool, Scans
        <4>3. CASE \E d \in Datasets : ToggleDataset(p, d)
          BY <4>3 DEF ToggleDataset
        <4>4. QED
          BY <2>7, <4>1, <4>2, <4>3
      <3>3. ScanPairs' \subseteq Pools \X Scans
        BY <3>2 DEF ScanPairs
      <3>4. QED
        BY <3>0, <3>1, <3>2, <3>3 DEF HostChanges
    <2>8. CASE UNCHANGED zfsPageVars
      BY <2>8 DEF zfsPageVars
    <2>9. QED
      BY <2>1, <2>2, <2>3, <2>4, <2>5, <2>6, <2>7, <2>8 DEF ZFSPageNext
  <1>3. QED
    BY <1>1, <1>2, PTL DEF ZFSPageSpec

\* A cell that is true: what it says was so, or a command on the pool failed.
CellWasSo(p) ==
  CASE scrubCell[p] \in Scans -> <<p, scrubCell[p]>> \in scanSeen
    [] scrubCell[p] = "scrubbed" ->
         p \in zfsFailed /\ \E s \in {"running", "done"} : <<p, s>> \in scanSeen
    [] OTHER -> p \in zfsFailed

\* Where the request has come to: the rows before the pool it is asking about
\* are true, and the datasets that have been there throughout are of a pool to
\* come, of this pool, or on the page.
ZFSRowsSoFar ==
  /\ zfsAt # "idle" => datasets \subseteq datasetsSeen /\ ScanPairs \subseteq scanSeen
  /\ zfsAt \in {"idle", "pools"} => zfsRows = {} /\ zfsTodo = {} /\ zfsPool = {} /\ datasetsKept \subseteq datasets
  /\ zfsAt = "answered" => zfsTodo = {} /\ zfsPool = {}
  /\ zfsAt = "fallback" => zfsPool \subseteq zfsFailed
  /\ \A p \in zfsRows : p \notin zfsTodo \cup zfsPool => CellWasSo(p)
  /\ zfsDatasets \subseteq datasetsSeen
  /\ \A e \in datasetsKept : e[1] \in zfsRows \ zfsFailed =>
       e \in zfsDatasets \/ e[1] \in zfsTodo \/ (zfsAt = "datasets" /\ e[1] \in zfsPool)

ZFSPageInv ==
  /\ pools \subseteq Pools
  /\ datasets \subseteq pools \X Datasets
  /\ datasetsKept \subseteq datasets
  /\ scan \in [Pools -> Scans]
  /\ zfsTodo \subseteq Pools /\ zfsPool \subseteq Pools
  /\ \A p, q \in zfsPool : p = q
  /\ zfsRows \subseteq Pools
  /\ scrubCell \in [Pools -> Cells]
  /\ ZFSRowsSoFar

\* A request sets the cell of the one pool it asks about and goes on to the next:
\* if what it sets is true of that pool, the rows stay true.
LEMMA CellIsSet ==
  ASSUME ZFSPageInv, zfsAt \in {"scrub", "fallback"}, NEW c \in Cells, SetCell(c), NextPool(zfsTodo),
         UNCHANGED <<zfsHost, zfsRows, zfsDatasets, zfsFailed, zfsHistory>>,
         \A p \in zfsPool :
           \/ c \in Scans /\ <<p, c>> \in scanSeen
           \/ c = "scrubbed" /\ p \in zfsFailed /\ \E s \in {"running", "done"} : <<p, s>> \in scanSeen
           \/ c \notin Scans \cup {"scrubbed"} /\ p \in zfsFailed
  PROVE  ZFSPageInv'
  <1> USE DEF ZFSPageInv, ZFSRowsSoFar, zfsHost, zfsHistory
  <1>1. /\ zfsAt' \in {"answered", "datasets"}
        /\ zfsAt' = "answered" => zfsTodo' = {} /\ zfsPool' = {}
        /\ zfsTodo' \cup zfsPool' = zfsTodo
        /\ \A p, q \in zfsPool' : p = q
        /\ zfsAt' = "datasets" \/ zfsPool' = {}
    BY DEF NextPool
  <1>2. scrubCell' \in [Pools -> Cells]
    BY DEF SetCell
  <1>3. \A p \in Pools : p \in zfsPool => CellWasSo(p)'
    BY DEF SetCell, CellWasSo, Scans
  <1>4. \A p \in Pools : p \notin zfsPool => (CellWasSo(p) => CellWasSo(p)')
    BY DEF SetCell, CellWasSo
  <1>5. \A p \in zfsRows' : p \notin zfsTodo' \cup zfsPool' => CellWasSo(p)'
    BY <1>1, <1>3, <1>4
  <1>6. QED
    BY <1>1, <1>2, <1>5 DEF ScanPairs

\* For any pools and datasets, the rows of the page were so while it was made.
THEOREM ZFSRowsAreTrue == ZFSPageSpec => []ZFSRowsWereSo
  <1>1. ZFSPageInit => ZFSPageInv
    BY DEF ZFSPageInit, ZFSPageInv, ZFSRowsSoFar, Scans, Cells
  <1>2. ZFSPageInv /\ [ZFSPageNext]_zfsPageVars => ZFSPageInv'
    <2> SUFFICES ASSUME ZFSPageInv, [ZFSPageNext]_zfsPageVars PROVE ZFSPageInv'
      OBVIOUS
    <2> USE DEF ZFSPageInv, ZFSRowsSoFar, zfsHost, zfsShown, zfsHistory
    <2>1. CASE OpenZFSPage
      BY <2>1 DEF OpenZFSPage, ScanPairs, Cells, Scans
    <2>2. CASE NoPoolList
      BY <2>2 DEF NoPoolList, ScanPairs
    <2>3. CASE ListPools
      BY <2>3 DEF ListPools, NextPool, ScanPairs, CellWasSo
    <2>4. CASE ListDatasets
      <3>1. /\ zfsAt = "datasets" /\ zfsAt' = "scrub"
            /\ UNCHANGED <<zfsHost, zfsTodo, zfsPool, zfsRows, scrubCell, zfsHistory>>
            /\ zfsFailed \subseteq zfsFailed' /\ zfsDatasets \subseteq zfsDatasets'
        BY <2>4 DEF ListDatasets, PoolCommandFails
      <3>2. \A e \in zfsPool \X Listed(zfsPool) : e \in datasets
        BY DEF Listed
      <3>3. zfsDatasets' \subseteq datasetsSeen
        BY <2>4, <3>1, <3>2 DEF ListDatasets
      <3>4. \A e \in datasets : e[1] \in zfsPool => e \in zfsDatasets' \/ e[1] \in zfsFailed'
        BY <2>4 DEF ListDatasets, PoolCommandFails, Listed
      <3>5. \A p \in Pools : CellWasSo(p) => CellWasSo(p)'
        BY <3>1 DEF CellWasSo
      <3>6. QED
        BY <3>1, <3>3, <3>4, <3>5 DEF ScanPairs
    <2>5. CASE ReadScrub
      <3>1. PICK s \in ScanPrinted : SetCell(s)
        BY <2>5 DEF ReadScrub
      <3>2. s \in Scans /\ \A p \in zfsPool : <<p, s>> \in scanSeen
        BY <2>5, <3>1 DEF ReadScrub, ScanPrinted, ScanPairs
      <3>3. /\ zfsAt \in {"scrub", "fallback"} /\ NextPool(zfsTodo)
            /\ UNCHANGED <<zfsHost, zfsRows, zfsDatasets, zfsFailed, zfsHistory>>
        BY <2>5 DEF ReadScrub
      <3>4. QED
        BY <3>1, <3>2, <3>3, CellIsSet DEF Cells
    <2>6. CASE ReadScrubFails
      BY <2>6 DEF ReadScrubFails, PoolCommandFails, ScanPairs, CellWasSo
    <2>7. CASE ReadScrubAgain
      <3>1. PICK c \in Cells : SetCell(c) /\ (c = "unknown" \/ \E s \in ScanPrinted : c = FallbackCell(s))
        BY <2>7 DEF ReadScrubAgain, ScanPrinted, FallbackCell, Cells
      <3>2. \A s \in ScanPrinted : s \in Scans /\ \A p \in zfsPool : <<p, s>> \in scanSeen
        BY <2>7 DEF ReadScrubAgain, ScanPrinted, ScanPairs
      <3>3. zfsPool \subseteq zfsFailed
        BY <2>7 DEF ReadScrubAgain
      <3>4. \A p \in zfsPool :
              \/ c \in Scans /\ <<p, c>> \in scanSeen
              \/ c = "scrubbed" /\ p \in zfsFailed /\ \E s \in {"running", "done"} : <<p, s>> \in scanSeen
              \/ c \notin Scans \cup {"scrubbed"} /\ p \in zfsFailed
        <4>1. CASE c = "unknown"
          BY <3>3, <4>1 DEF Scans
        <4>2. CASE c # "unknown"
          <5> PICK s \in ScanPrinted : c = FallbackCell(s)
            BY <3>1, <4>2
          <5>1. QED
            BY <3>2, <3>3 DEF FallbackCell
        <4>3. QED
          BY <4>1, <4>2
      <3>5. /\ zfsAt \in {"scrub", "fallback"} /\ NextPool(zfsTodo)
            /\ UNCHANGED <<zfsHost, zfsRows, zfsDatasets, zfsFailed, zfsHistory>>
        BY <2>7 DEF ReadScrubAgain
      <3>6. QED
        BY <3>1, <3>4, <3>5, CellIsSet
    <2>8. ASSUME NEW p \in Pools, ScanChanges(p) PROVE ZFSPageInv'
      BY <2>8 DEF ScanChanges, ScanLeadsTo, HostChanges, ScanPairs, CellWasSo, Scans
    <2>9. ASSUME NEW p \in Pools, TogglePool(p) PROVE ZFSPageInv'
      BY <2>9 DEF TogglePool, HostChanges, ScanPairs, CellWasSo, Scans
    <2>10. ASSUME NEW p \in Pools, NEW d \in Datasets, ToggleDataset(p, d) PROVE ZFSPageInv'
      BY <2>10 DEF ToggleDataset, HostChanges, ScanPairs, CellWasSo
    <2>11. CASE UNCHANGED zfsPageVars
      BY <2>11 DEF zfsPageVars, ScanPairs, CellWasSo
    <2>12. QED
      BY <2>1, <2>2, <2>3, <2>4, <2>5, <2>6, <2>7, <2>8, <2>9, <2>10, <2>11 DEF ZFSPageNext
  <1>3. ZFSPageInv => ZFSRowsWereSo
    BY DEF ZFSPageInv, ZFSRowsSoFar, CellWasSo, ZFSRowsWereSo
  <1>4. QED
    BY <1>1, <1>2, <1>3, PTL DEF ZFSPageSpec
-----------------------------------------------------------------------------
(* The diagnostics pages. *)

\* Before the journal is read, the line of a failure of the snapshot is at least
\* as near as it will be counted; afterwards it is in the tail, or too far back,
\* unless there is no tail.
FailuresSoFar ==
  /\ diagAt = 1 => diagFailed = {}
  /\ diagAt = 2 => \A u \in diagFailed : since[u] <= diagAge[u]
  /\ diagAt \in 3 .. Sent /\ diagPage # "dashboard" /\ "noJournal" \notin diagParts =>
       \A u \in diagFailed : u \in diagTail \/ diagAge[u] = TailLines

DiagnosticsInv ==
  /\ since \in [Units -> 0 .. TailLines]
  /\ diagAge \in [Units -> 0 .. TailLines]
  /\ diagAt \in 0 .. Sent
  /\ diagFailed \subseteq Units
  /\ FailuresSoFar

LEMMA LaterIsTyped ==
  ASSUME NEW age \in [Units -> 0 .. TailLines]
  PROVE  /\ OneLater(age) \in [Units -> 0 .. TailLines]
         /\ \A u \in Units : age[u] <= OneLater(age)[u]
         /\ \A u \in Units : age[u] = TailLines => OneLater(age)[u] = TailLines
  BY DiagnosticsAssumption DEF OneLater

\* The types hold; a unit that is made up is one of a dashboard, or of a process
\* that found no bus.
LEMMA DiagnosticsTypes == DiagnosticsSpec => []DiagnosticsTypeOK
  <1> USE DiagnosticsAssumption DEF Sent, StatusesStep, Capture
  <1>1. DiagnosticsInit => DiagnosticsTypeOK
    BY DEF DiagnosticsInit, DiagnosticsTypeOK
  <1>2. DiagnosticsTypeOK /\ [DiagnosticsNext]_diagnosticsVars => DiagnosticsTypeOK'
    <2> SUFFICES ASSUME DiagnosticsTypeOK, [DiagnosticsNext]_diagnosticsVars PROVE DiagnosticsTypeOK'
      OBVIOUS
    <2> USE DEF DiagnosticsTypeOK, systemdHost, diagShown, At, AfterCapture, Parts
    <2>1. CASE OpenDiagnostics
      BY <2>1 DEF OpenDiagnostics
    <2>2. CASE ListUnits
      BY <2>2 DEF ListUnits
    <2>3. CASE MakeUpUnit
      BY <2>3 DEF MakeUpUnit
    <2>4. CASE ListUnitsFails
      BY <2>4 DEF ListUnitsFails, PartsWithoutCapture
    <2>5. CASE ReadJournal
      <3>1. diagAt' \in 0 .. Sent
        BY <2>5 DEF ReadJournal
      <3>2. /\ diagTail' \subseteq Units
            /\ diagParts' \subseteq Parts
            /\ "madeUpUnit" \in diagParts' => "madeUpUnit" \in diagParts
        BY <2>5 DEF ReadJournal
      <3>3. UNCHANGED <<systemdHost, diagMode, diagPage, diagFailed, diagAge>>
        BY <2>5 DEF ReadJournal
      <3>4. QED
        BY <3>1, <3>2, <3>3
    <2>6. CASE ReadOSTree
      <3>1. diagAt' \in 0 .. Sent /\ UNCHANGED <<systemdHost, diagMode, diagPage, diagAge>>
        BY <2>6 DEF ReadOSTree
      <3>2. DashboardTakes \/ PageTakes
        BY <2>6 DEF ReadOSTree
      <3>3. /\ diagFailed' \subseteq Units
            /\ diagTail' \subseteq Units
            /\ diagParts' \subseteq Parts
        BY <3>2 DEF DashboardTakes, PageTakes
      <3>4. "madeUpUnit" \in diagParts' => "madeUpUnit" \in diagParts
        BY <3>2 DEF DashboardTakes, PageTakes
      <3>5. QED
        BY <3>1, <3>3, <3>4
    <2>7. CASE AppendModuleStatuses
      BY <2>7 DEF AppendModuleStatuses
    <2>8. CASE OtherLine \/ \E u \in Units : UnitFails(u) \/ UnitStarts(u)
      <3>1. LineLogged
        BY <2>8 DEF OtherLine, UnitFails, UnitStarts
      <3>2. unitState' \in [Units -> {"active", "failed"}]
        BY <2>8 DEF OtherLine, UnitFails, UnitStarts
      <3>3. since' \in [Units -> 0 .. TailLines] /\ diagAge' \in [Units -> 0 .. TailLines]
        BY <2>8, <3>1, LaterIsTyped DEF OtherLine, UnitFails, UnitStarts, LineLogged
      <3>4. unitChanges' \in 0 .. MaxUnitChanges
        BY <3>1 DEF LineLogged
      <3>5. QED
        BY <3>1, <3>2, <3>3, <3>4 DEF LineLogged
    <2>9. CASE UNCHANGED diagnosticsVars
      BY <2>9 DEF diagnosticsVars
    <2>10. QED
      BY <2>1, <2>2, <2>3, <2>4, <2>5, <2>6, <2>7, <2>8, <2>9 DEF DiagnosticsNext
  <1>3. QED
    BY <1>1, <1>2, PTL DEF DiagnosticsSpec

\* For any units and any length of the tail, a failure that a diagnostics page or
\* a bundle shows is in the journal it shows, unless that does not reach so far
\* back or journalctl failed.
THEOREM FailuresHaveTheirLine == DiagnosticsSpec => []FailuresAreExplained
  <1> USE DiagnosticsAssumption DEF Sent, StatusesStep, Capture
  <1>1. DiagnosticsInit => DiagnosticsInv
    BY DEF DiagnosticsInit, DiagnosticsInv, FailuresSoFar
  <1>2. DiagnosticsInv /\ [DiagnosticsNext]_diagnosticsVars => DiagnosticsInv'
    <2> SUFFICES ASSUME DiagnosticsInv, [DiagnosticsNext]_diagnosticsVars PROVE DiagnosticsInv'
      OBVIOUS
    <2> USE DEF DiagnosticsInv, FailuresSoFar, systemdHost, diagShown, At, AfterCapture
    <2>1. CASE OpenDiagnostics
      BY <2>1 DEF OpenDiagnostics
    <2>2. CASE ListUnits
      BY <2>2 DEF ListUnits
    <2>3. CASE MakeUpUnit
      BY <2>3 DEF MakeUpUnit
    <2>4. CASE ListUnitsFails
      BY <2>4 DEF ListUnitsFails, PartsWithoutCapture
    <2>5. CASE ReadJournal
      BY <2>5 DEF ReadJournal
    <2>6. CASE ReadOSTree
      BY <2>6 DEF ReadOSTree, DashboardTakes, PageTakes
    <2>7. CASE AppendModuleStatuses
      BY <2>7 DEF AppendModuleStatuses
    <2>8. CASE OtherLine \/ \E u \in Units : UnitFails(u) \/ UnitStarts(u)
      <3>1. /\ diagAge' = OneLater(diagAge)
            /\ UNCHANGED <<diagAt, diagPage, diagShown>>
        BY <2>8 DEF OtherLine, UnitFails, UnitStarts, LineLogged
      <3>2. /\ since' \in [Units -> 0 .. TailLines]
            /\ \A u \in Units : since'[u] <= OneLater(since)[u]
        BY <2>8, LaterIsTyped DEF OtherLine, UnitFails, UnitStarts
      <3>3. \A u \in Units : since[u] <= diagAge[u] => since'[u] <= diagAge'[u]
        BY <3>1, <3>2 DEF OneLater
      <3>4. QED
        BY <3>1, <3>2, <3>3, LaterIsTyped
    <2>9. CASE UNCHANGED diagnosticsVars
      BY <2>9 DEF diagnosticsVars
    <2>10. QED
      BY <2>1, <2>2, <2>3, <2>4, <2>5, <2>6, <2>7, <2>8, <2>9 DEF DiagnosticsNext
  <1>3. DiagnosticsInv => FailuresAreExplained
    BY DEF DiagnosticsInv, FailuresSoFar, FailuresAreExplained
  <1>4. QED
    BY <1>1, <1>2, <1>3, PTL DEF DiagnosticsSpec
=============================================================================
