SPECIFICATION HostSpec
CONSTANTS
  Interfaces = {eth0, eth1}
  MaxLinkChanges = 2
  Zones = {public, internal}
  Services = {ssh}
  Ports = {port1}
  NoZone = NoZone
  MaxFirewallChanges = 2
  Containers = {c1, c2}
  Images = {i1, i2}
  NoImage = NoImage
  MaxPodmanChanges = 2
  Units = {u1, u2}
  TailLines = 2
  DashboardRows = 1
  MaxUnitChanges = 3
  Pools = {tank, dozer}
  Datasets = {home}
  MaxZPoolChanges = 2
  Devices = {sda}
  Viewers = {v1, v2}
  Formatters = {f1}
  NoSnapshot = NoSnapshot
  MaxDeviceChanges = 2
  MaxFetchFailures = 1
  Provisions = {r1, r2, r3}
  TunnelNames = {t1, t2}
  Nobody = Nobody
  HalfWritten = HalfWritten
  MaxTunnelFaults = 1
  MaxBundles = 3
  MaxFileCrashes = 1
INVARIANTS
  HostTypeOK
  NetworkSwitchIsEarned
  ServicesShownWereEnabled PortsShownOnce
  ContainersShowTheirImage
  FailuresAreExplained
  ZFSRowsWereSo
  FallbackIsASnapshot BootDevicesAreKept
  TunnelSurvives OkMeansStarted TunnelRunsItsOwnConfig
  TornOnlyByReplacement
\* The requests of an instance are finitely many: when all are answered, it stops.
CHECK_DEADLOCK FALSE
