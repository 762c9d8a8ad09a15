------------------------------- MODULE Storage -------------------------------
(***************************************************************************)
(* The storage module over UDisks2 (modules/storage, dbus/udisks2): the    *)
(* storage page, with the snapshot it falls back to, and the requests that *)
(* format a device, while devices are mounted, unmounted and unplugged.    *)
(***************************************************************************)
EXTENDS Naturals

CONSTANTS Devices,
          Viewers, Formatters,   \* requests for the page, requests to format
          NoSnapshot,            \* the empty StorageData
          MaxDeviceChanges, MaxFetchFailures   \* bounds of the model

ASSUME StorageAssumption == MaxDeviceChanges \in Nat /\ MaxFetchFailures \in Nat

\* A device: gone, not mounted and without or with a signature of a file system
\* or of an encrypted volume, mounted somewhere, or mounted as one of bootMountPaths.
Uses == {"gone", "blank", "closed", "data", "boot"}

VARIABLES
  use,            \* use[d]: what device d is used for
  deviceChanges,  \* how often that has changed
  fetchFailures,  \* how often GetManagedObjects has failed
  cached,         \* Module.cached
  viewAt,         \* viewAt[v]: where request v for the page is
  fetched,        \* fetched[v]: the snapshot it has fetched, NoSnapshot if that failed
  shown,          \* shown[v]: the snapshot its page shows
  formatAt,       \* formatAt[f]: where request f to format is
  target,         \* target[f]: the device it is to format
  checked,        \* checked[f]: what CheckNotBootDevice read
  taken,          \* history: the snapshots ever fetched
  wasBlank,       \* history: whether cached was empty when v's fetch failed
  stayedBoot      \* history: whether target[f] was a boot device all through f

udisks == <<use, deviceChanges>>
pages == <<viewAt, fetched, shown, fetchFailures, cached, taken, wasBlank>>
formats == <<formatAt, target, checked, stayedBoot>>
storageVars == <<udisks, pages, formats>>

Snapshots == [Devices -> Uses]

StorageTypeOK ==
  /\ use \in Snapshots
  /\ deviceChanges \in 0 .. MaxDeviceChanges
  /\ fetchFailures \in 0 .. MaxFetchFailures
  /\ cached \in Snapshots \cup {NoSnapshot}
  /\ viewAt \in [Viewers -> {"new", "fetched", "failed", "stored", "answered"}]
  /\ fetched \in [Viewers -> Snapshots \cup {NoSnapshot}]
  /\ shown \in [Viewers -> Snapshots \cup {NoSnapshot}]
  /\ formatAt \in [Formatters -> {"new", "check", "format", "formatted", "refused"}]
  /\ target \in [Formatters -> Devices]
  /\ checked \in [Formatters -> {"nothing", "unread", "clear", "boot"}]
  /\ taken \subseteq Snapshots
  /\ wasBlank \in [Viewers -> BOOLEAN]
  /\ stayedBoot \in [Formatters -> BOOLEAN]

StorageInit ==
  /\ use \in [Devices -> {"blank", "boot"}]
  /\ deviceChanges = 0
  /\ fetchFailures = 0
  /\ cached = NoSnapshot
  /\ viewAt = [v \in Viewers |-> "new"]
  /\ fetched = [v \in Viewers |-> NoSnapshot]
  /\ shown = [v \in Viewers |-> NoSnapshot]
  /\ formatAt = [f \in Formatters |-> "new"]
  /\ target \in [Formatters -> Devices]
  /\ checked = [f \in Formatters |-> "nothing"]
  /\ taken = {}
  /\ wasBlank = [v \in Viewers |-> FALSE]
  /\ stayedBoot = [f \in Formatters |-> FALSE]

\* Devices come and go, and are mounted and unmounted.
UseLeadsTo(u) ==
  CASE u = "gone" -> {"blank", "closed"}
    [] u = "blank" -> {"gone", "closed"}
    [] u = "closed" -> {"gone", "blank", "data", "boot"}
    [] OTHER -> {"gone", "closed"}

Becomes(d, u) ==
  /\ use' = [use EXCEPT ![d] = u]
  /\ stayedBoot' = [f \in Formatters |-> stayedBoot[f] /\ (target[f] = d => u = "boot")]

DeviceChanges(d) ==
  /\ deviceChanges < MaxDeviceChanges
  /\ deviceChanges' = deviceChanges + 1
  /\ \E u \in UseLeadsTo(use[d]) : Becomes(d, u)
  /\ UNCHANGED <<pages, formatAt, target, checked>>

-----------------------------------------------------------------------------
(* The storage page: Snapshot of the module over that of the backend. *)

\* GetManagedObjects is one call for all devices.
Fetch(v) ==
  /\ viewAt[v] = "new"
  /\ viewAt' = [viewAt EXCEPT ![v] = "fetched"]
  /\ fetched' = [fetched EXCEPT ![v] = use]
  /\ taken' = taken \cup {use}
  /\ UNCHANGED <<udisks, shown, fetchFailures, cached, wasBlank, formats>>

FetchFails(v) ==
  /\ viewAt[v] = "new"
  /\ fetchFailures < MaxFetchFailures
  /\ fetchFailures' = fetchFailures + 1
  /\ viewAt' = [viewAt EXCEPT ![v] = "failed"]
  /\ wasBlank' = [wasBlank EXCEPT ![v] = cached = NoSnapshot]
  /\ UNCHANGED <<udisks, fetched, shown, cached, taken, formats>>

\* Mutant: what a failed fetch returned is stored as well.
StoredAlways(v) == fetched[v]

\* What a request leaves in Module.cached.
Stored(v) == IF viewAt[v] = "fetched" THEN fetched[v] ELSE cached

\* Under the lock.
Store(v) ==
  /\ viewAt[v] \in {"fetched", "failed"}
  /\ cached' = Stored(v)
  /\ IF viewAt[v] = "fetched"
     THEN /\ viewAt' = [viewAt EXCEPT ![v] = "answered"]
          /\ shown' = [shown EXCEPT ![v] = fetched[v]]
     ELSE /\ viewAt' = [viewAt EXCEPT ![v] = "stored"]
          /\ UNCHANGED shown
  /\ UNCHANGED <<udisks, fetched, fetchFailures, taken, wasBlank, formats>>

\* After a failure the lock is taken again, to read; the page drops the error.
FallBack(v) ==
  /\ viewAt[v] = "stored"
  /\ viewAt' = [viewAt EXCEPT ![v] = "answered"]
  /\ shown' = [shown EXCEPT ![v] = cached]
  /\ UNCHANGED <<udisks, fetched, fetchFailures, cached, taken, wasBlank, formats>>

\* Another request for the page.
ViewAgain(v) ==
  /\ viewAt[v] = "answered"
  /\ viewAt' = [viewAt EXCEPT ![v] = "new"]
  /\ fetched' = [fetched EXCEPT ![v] = NoSnapshot]
  /\ shown' = [shown EXCEPT ![v] = NoSnapshot]
  /\ wasBlank' = [wasBlank EXCEPT ![v] = FALSE]
  /\ UNCHANGED <<udisks, fetchFailures, cached, taken, formats>>

-----------------------------------------------------------------------------
(* FormatBlock: the check, then Block.Format. *)

BeginFormat(f) ==
  /\ formatAt[f] = "new"
  /\ formatAt' = [formatAt EXCEPT ![f] = "check"]
  /\ stayedBoot' = [stayedBoot EXCEPT ![f] = use[target[f]] = "boot"]
  /\ UNCHANGED <<udisks, pages, target, checked>>

\* Mutant: the other way round.
PassesReversed(c) == c \in {"unread", "boot"}

\* CheckNotBootDevice passes also if the mount points could not be read.
Passes(c) == c \in {"unread", "clear"}

\* The Get fails for a device without a file system, one that is gone, and if
\* the bus or UDisks2 fails.
CheckNotBootDevice(f) ==
  /\ formatAt[f] = "check"
  /\ \E c \in {"unread", IF use[target[f]] = "boot" THEN "boot" ELSE "clear"} :
       /\ use[target[f]] \in {"gone", "blank", "closed"} => c # "boot"
       /\ checked' = [checked EXCEPT ![f] = c]
       /\ formatAt' = [formatAt EXCEPT ![f] = IF Passes(c) THEN "format" ELSE "refused"]
  /\ UNCHANGED <<udisks, pages, target, stayedBoot>>

\* UDisks2 formats the device; nothing is assumed of what it refuses, except a
\* device that is gone.
FormatBlock(f) ==
  /\ formatAt[f] = "format"
  /\ \/ /\ use[target[f]] # "gone"
        /\ formatAt' = [formatAt EXCEPT ![f] = "formatted"]
        /\ use' = [use EXCEPT ![target[f]] = "closed"]
        /\ stayedBoot' = [g \in Formatters |-> stayedBoot[g] /\ (target[g] = target[f] => g = f)]
     \/ /\ formatAt' = [formatAt EXCEPT ![f] = "refused"]
        /\ UNCHANGED <<use, stayedBoot>>
  /\ UNCHANGED <<deviceChanges, pages, target, checked>>

StorageNext ==
  \/ \E d \in Devices : DeviceChanges(d)
  \/ \E v \in Viewers : Fetch(v) \/ FetchFails(v) \/ Store(v) \/ FallBack(v) \/ ViewAgain(v)
  \/ \E f \in Formatters : BeginFormat(f) \/ CheckNotBootDevice(f) \/ FormatBlock(f)

StorageSpec == StorageInit /\ [][StorageNext]_storageVars

-----------------------------------------------------------------------------
\* A page that could not fetch shows a state the devices had at some time,
\* never an empty table once there was a snapshot; errors never replace it.
FallbackIsASnapshot ==
  \A v \in Viewers : viewAt[v] = "answered" =>
    \/ shown[v] \in taken
    \/ shown[v] = NoSnapshot /\ wasBlank[v]

\* A device that is mounted as a system directory all through a request is not
\* formatted by it, unless its mount points could not be read.  (One that is
\* mounted after the check is left to UDisks2's own refusal of busy devices.)
BootDevicesAreKept ==
  \A f \in Formatters :
    formatAt[f] = "formatted" /\ stayedBoot[f] => checked[f] = "unread"
=============================================================================
