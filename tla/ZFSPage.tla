------------------------------- MODULE ZFSPage -------------------------------
(***************************************************************************)
(* The ZFS page (router.go, zfsPageData; modules/zfs, Snapshot): the list  *)
(* of pools, and for each pool its datasets and its scan status, one       *)
(* command each, while pools, datasets and scrubs come and go.             *)
(***************************************************************************)
EXTENDS Naturals

CONSTANTS Pools, Datasets,
          MaxZPoolChanges   \* bound: changes of the host during one request

ASSUME ZFSPageAssumption == MaxZPoolChanges \in Nat

Scans == {"none", "running", "paused", "done", "stopped"}

VARIABLES
  pools,        \* the pools there are
  datasets,     \* the pairs of a pool and a dataset in it
  scan,         \* scan[p]: the scan line of zpool status
  zpoolChanges, \* how often these have changed during the request
  zfsMode,      \* whether the boot found zpool, for the life of the process
  zfsAt,        \* where the request is
  zfsTodo,      \* the pools of the list it has yet to ask for
  zfsPool,      \* the pools (at most one) it is asking for
  zfsRows,      \* the pools on the page
  zfsDatasets,  \* the pairs of a pool and a dataset on the page
  scrubCell,    \* scrubCell[p]: what the row of p says of scrubs
  zfsFailed,    \* the pools of which a command has failed
  scanSeen,     \* history: the pairs of a pool and a scan line it had during the request
  datasetsSeen, \* history: the datasets there were at some moment of it
  datasetsKept  \* history: those there were all through it

zfsHost == <<pools, datasets, scan, zpoolChanges>>
zfsShown == <<zfsRows, zfsDatasets, scrubCell, zfsFailed>>
zfsHistory == <<scanSeen, datasetsSeen, datasetsKept>>
zfsPageVars == <<zfsHost, zfsMode, zfsAt, zfsTodo, zfsPool, zfsShown, zfsHistory>>

Cells == Scans \cup {"empty", "scrubbed", "unknown"}

ZFSPageTypeOK ==
  /\ pools \subseteq Pools
  /\ datasets \subseteq pools \X Datasets
  /\ scan \in [Pools -> Scans]
  /\ zpoolChanges \in 0 .. MaxZPoolChanges
  /\ zfsMode \in {"present", "fake"}
  /\ zfsAt \in {"idle", "pools", "datasets", "scrub", "fallback", "answered"}
  /\ zfsTodo \subseteq Pools
  /\ zfsPool \subseteq Pools
  /\ zfsAt \in {"datasets", "scrub", "fallback"} <=> zfsPool # {}
  /\ zfsRows \subseteq Pools
  /\ zfsDatasets \subseteq Pools \X Datasets
  /\ scrubCell \in [Pools -> Cells]
  /\ zfsFailed \subseteq Pools
  /\ scanSeen \subseteq Pools \X Scans
  /\ datasetsSeen \subseteq Pools \X Datasets
  /\ datasetsKept \subseteq datasets

ScanPairs == {<<p, scan[p]>> : p \in pools}

ZFSPageInit ==
  /\ pools = Pools
  /\ datasets \in SUBSET (Pools \X Datasets)
  /\ scan \in [Pools -> {"none", "running"}]
  /\ zpoolChanges = 0
  /\ zfsMode \in {"present", "fake"}
  /\ zfsAt = "idle"
  /\ zfsTodo = {}
  /\ zfsPool = {}
  /\ zfsRows = {}
  /\ zfsDatasets = {}
  /\ scrubCell = [p \in Pools |-> "empty"]
  /\ zfsFailed = {}
  /\ scanSeen = {}
  /\ datasetsSeen = {}
  /\ datasetsKept = {}

-----------------------------------------------------------------------------
(* What ZFS, other administrators and this program's own requests do. *)

HostChanges ==
  /\ zpoolChanges < MaxZPoolChanges
  /\ zpoolChanges' = zpoolChanges + 1
  /\ scanSeen' = scanSeen \cup ScanPairs'
  /\ datasetsSeen' = datasetsSeen \cup datasets'
  /\ datasetsKept' = datasetsKept \cap datasets'
  /\ UNCHANGED <<zfsMode, zfsAt, zfsTodo, zfsPool, zfsShown>>

ScanLeadsTo(s) ==
  CASE s = "running" -> {"paused", "done", "stopped"}
    [] s = "paused" -> {"running", "stopped"}
    [] OTHER -> {"running"}

ScanChanges(p) ==
  /\ p \in pools
  /\ \E s \in ScanLeadsTo(scan[p]) : scan' = [scan EXCEPT ![p] = s]
  /\ UNCHANGED <<pools, datasets>>
  /\ HostChanges

ToggleDataset(p, d) ==
  /\ p \in pools
  /\ datasets' = IF <<p, d>> \in datasets THEN datasets \ {<<p, d>>} ELSE datasets \cup {<<p, d>>}
  /\ UNCHANGED <<pools, scan>>
  /\ HostChanges

\* A pool is destroyed with its datasets, or created.
TogglePool(p) ==
  /\ pools' = IF p \in pools THEN pools \ {p} ELSE pools \cup {p}
  /\ datasets' = {e \in datasets : e[1] # p}
  /\ scan' = [scan EXCEPT ![p] = "none"]
  /\ HostChanges

-----------------------------------------------------------------------------
(* The request. *)

OpenZFSPage ==
  /\ zfsAt \in {"idle", "answered"}
  /\ zfsAt' = "pools"
  /\ zfsTodo' = {}
  /\ zfsPool' = {}
  /\ zfsRows' = {}
  /\ zfsDatasets' = {}
  /\ scrubCell' = [p \in Pools |-> "empty"]
  /\ zfsFailed' = {}
  /\ zpoolChanges' = 0
  /\ scanSeen' = ScanPairs
  /\ datasetsSeen' = datasets
  /\ datasetsKept' = datasets
  /\ UNCHANGED <<pools, datasets, scan, zfsMode>>

\* Without zpool the page is a note; if zpool list fails, its error.
NoPoolList ==
  /\ zfsAt = "pools"
  /\ zfsAt' = "answered"
  /\ UNCHANGED <<zfsHost, zfsMode, zfsTodo, zfsPool, zfsShown, zfsHistory>>

\* On to the next pool of the list, or the answer.
NextPool(todo) ==
  \/ /\ todo = {}
     /\ zfsAt' = "answered"
     /\ zfsPool' = {}
     /\ zfsTodo' = {}
  \/ \E p \in todo :
       /\ zfsAt' = "datasets"
       /\ zfsPool' = {p}
       /\ zfsTodo' = todo \ {p}

ListPools ==
  /\ zfsAt = "pools"
  /\ zfsMode = "present"
  /\ zfsRows' = pools
  /\ NextPool(pools)
  /\ UNCHANGED <<zfsHost, zfsMode, zfsDatasets, scrubCell, zfsFailed, zfsHistory>>

\* Mutant: zfs list is not told the pool.
ListedOfAll(ps) == {e[2] : e \in datasets}

\* The datasets zfs list -r prints.
Listed(ps) == {e[2] : e \in {f \in datasets : f[1] \in ps}}

\* A command on the pool fails: it is gone, or it took too long.
PoolCommandFails == zfsFailed' = zfsFailed \cup zfsPool

\* zfs list -r: a failure leaves the row without datasets.
ListDatasets ==
  /\ zfsAt = "datasets"
  /\ zfsAt' = "scrub"
  /\ \/ /\ zfsPool \subseteq pools
        /\ zfsDatasets' = zfsDatasets \cup (zfsPool \X Listed(zfsPool))
        /\ UNCHANGED zfsFailed
     \/ /\ PoolCommandFails
        /\ UNCHANGED zfsDatasets
  /\ UNCHANGED <<zfsHost, zfsMode, zfsTodo, zfsPool, zfsRows, scrubCell, zfsHistory>>

\* The first scan line of what zpool status prints.
ScanPrinted == {scan[p] : p \in zfsPool \cap pools}

SetCell(c) == scrubCell' = [p \in Pools |-> IF p \in zfsPool THEN c ELSE scrubCell[p]]

\* scrubProgress and statusAndTimestamp.
ReadScrub ==
  /\ zfsAt = "scrub"
  /\ \E s \in ScanPrinted : SetCell(s)
  /\ NextPool(zfsTodo)
  /\ UNCHANGED <<zfsHost, zfsMode, zfsRows, zfsDatasets, zfsFailed, zfsHistory>>

\* scrubProgress fails: the page asks again, another way.
ReadScrubFails ==
  /\ zfsAt = "scrub"
  /\ zfsAt' = "fallback"
  /\ PoolCommandFails
  /\ UNCHANGED <<zfsHost, zfsMode, zfsTodo, zfsPool, zfsRows, zfsDatasets, scrubCell, zfsHistory>>

\* poolScrubStatus does not tell a scrub that runs from one that has ended.
FallbackCell(s) == IF s \in {"running", "done"} THEN "scrubbed" ELSE s

\* poolScrubStatus.
ReadScrubAgain ==
  /\ zfsAt = "fallback"
  /\ \/ \E s \in ScanPrinted : SetCell(FallbackCell(s))
     \/ SetCell("unknown")
  /\ NextPool(zfsTodo)
  /\ UNCHANGED <<zfsHost, zfsMode, zfsRows, zfsDatasets, zfsFailed, zfsHistory>>

ZFSPageNext ==
  \/ OpenZFSPage
  \/ NoPoolList
  \/ ListPools
  \/ ListDatasets
  \/ ReadScrub
  \/ ReadScrubFails
  \/ ReadScrubAgain
  \/ \E p \in Pools : ScanChanges(p) \/ TogglePool(p) \/ \E d \in Datasets : ToggleDataset(p, d)

ZFSPageSpec == ZFSPageInit /\ [][ZFSPageNext]_zfsPageVars

-----------------------------------------------------------------------------
\* The row of a pool shows what was so at a moment of the request, whichever
\* command said it and whichever failed.  That a scrub has ended may be said of
\* one that runs, but only if the first command failed; and unless a command on
\* the pool failed, the datasets that were there all through are all shown.
ZFSRowsWereSo ==
  zfsAt = "answered" =>
    /\ \A p \in zfsRows :
         CASE scrubCell[p] \in Scans -> <<p, scrubCell[p]>> \in scanSeen
           [] scrubCell[p] = "scrubbed" ->
                p \in zfsFailed /\ \E s \in {"running", "done"} : <<p, s>> \in scanSeen
           [] OTHER -> p \in zfsFailed
    /\ zfsDatasets \subseteq datasetsSeen
    /\ \A e \in datasetsKept : e[1] \in zfsRows \ zfsFailed => e \in zfsDatasets
=============================================================================
