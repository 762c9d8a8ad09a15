------------------------------- MODULE MCHost -------------------------------
(***************************************************************************)
(* TLC instance of the modules that read and change the host on behalf of  *)
(* a request, and of the certificate store over a directory.  They share   *)
(* no state and no step: one at a time moves, in all of its behaviours,    *)
(* while the others rest, so that their states add up and not multiply.    *)
(***************************************************************************)
EXTENDS NetworkPage, FirewallPage, PodmanPage, Diagnostics, ZFSPage, Storage, Tunnels, FileStore

VARIABLE focus   \* the component that moves

allVars == <<networkVars, firewallVars, podmanVars, diagnosticsVars, zfsPageVars,
             storageVars, tunnelVars, fileStoreVars>>

\* A single initial state for each component that rests.
NetworkRests == netMode = "fake" /\ link = [i \in Interfaces |-> "up"]
FirewallRests == enabled = {} /\ zoneOf = [p \in Ports |-> NoZone]
PodmanRests == podMode = "fake" /\ images = {}
DiagnosticsRests == diagMode = "fake"
ZFSPageRests == zfsMode = "fake" /\ datasets = {} /\ scan = [p \in Pools |-> "none"]
StorageRests == /\ use = [d \in Devices |-> "boot"]
                /\ target = [f \in Formatters |-> CHOOSE d \in Devices : TRUE]
TunnelsRest == tunnelOf = [p \in Provisions |-> CHOOSE t \in TunnelNames : TRUE]

HostInit ==
  /\ focus \in {"network", "firewall", "podman", "diagnostics", "zfs", "storage", "cloudflare", "files"}
  /\ NetworkInit /\ (focus = "network" \/ NetworkRests)
  /\ FirewallInit /\ (focus = "firewall" \/ FirewallRests)
  /\ PodmanInit /\ (focus = "podman" \/ PodmanRests)
  /\ DiagnosticsInit /\ (focus = "diagnostics" \/ DiagnosticsRests)
  /\ ZFSPageInit /\ (focus = "zfs" \/ ZFSPageRests)
  /\ StorageInit /\ (focus = "storage" \/ StorageRests)
  /\ TunnelInit /\ (focus = "cloudflare" \/ TunnelsRest)
  /\ FileStoreInit

HostNext ==
  /\ UNCHANGED focus
  /\ \/ /\ focus = "network" /\ NetworkNext
        /\ UNCHANGED <<firewallVars, podmanVars, diagnosticsVars, zfsPageVars, storageVars, tunnelVars, fileStoreVars>>
     \/ /\ focus = "firewall" /\ FirewallNext
        /\ UNCHANGED <<networkVars, podmanVars, diagnosticsVars, zfsPageVars, storageVars, tunnelVars, fileStoreVars>>
     \/ /\ focus = "podman" /\ PodmanNext
        /\ UNCHANGED <<networkVars, firewallVars, diagnosticsVars, zfsPageVars, storageVars, tunnelVars, fileStoreVars>>
     \/ /\ focus = "diagnostics" /\ DiagnosticsNext
        /\ UNCHANGED <<networkVars, firewallVars, podmanVars, zfsPageVars, storageVars, tunnelVars, fileStoreVars>>
     \/ /\ focus = "zfs" /\ ZFSPageNext
        /\ UNCHANGED <<networkVars, firewallVars, podmanVars, diagnosticsVars, storageVars, tunnelVars, fileStoreVars>>
     \/ /\ focus = "storage" /\ StorageNext
        /\ UNCHANGED <<networkVars, firewallVars, podmanVars, diagnosticsVars, zfsPageVars, tunnelVars, fileStoreVars>>
     \/ /\ focus = "cloudflare" /\ TunnelNext
        /\ UNCHANGED <<networkVars, firewallVars, podmanVars, diagnosticsVars, zfsPageVars, storageVars, fileStoreVars>>
     \/ /\ focus = "files" /\ FileStoreNext
        /\ UNCHANGED <<networkVars, firewallVars, podmanVars, diagnosticsVars, zfsPageVars, storageVars, tunnelVars>>

\* The state of every component has its type; in particular a process that has
\* passed boot has a certificate, a key and at least one CA in its store.
HostTypeOK ==
  /\ NetworkTypeOK
  /\ FirewallTypeOK
  /\ PodmanTypeOK
  /\ DiagnosticsTypeOK
  /\ ZFSPageTypeOK
  /\ StorageTypeOK
  /\ TunnelTypeOK
  /\ FileStoreTypeOK

HostSpec == HostInit /\ [][HostNext]_<<focus, allVars>>
=============================================================================
