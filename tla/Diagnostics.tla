----------------------------- MODULE Diagnostics -----------------------------
(***************************************************************************)
(* The dashboard, the diagnostics page and the support bundle (router.go,  *)
(* dashboardData, diagnosticsPageData, diagnosticsBundle), all made from   *)
(* one Capture (modules/diagnostics): the units of systemd, the tail of    *)
(* the journal, the status of rpm-ostree, one call each, while units fail  *)
(* and are started again and the journal grows.  The diagnostics page and  *)
(* the bundle take all of the snapshot, the dashboard its first services.  *)
(***************************************************************************)
EXTENDS Naturals, Sequences, FiniteSets

CONSTANTS Units,
          TailLines,      \* how many lines of the journal a capture takes
          DashboardRows,  \* how many services a dashboard takes, 8 in the code
          MaxUnitChanges  \* bound: lines that are logged during one request

ASSUME DiagnosticsAssumption ==
  TailLines \in Nat \ {0} /\ DashboardRows \in Nat \ {0} /\ MaxUnitChanges \in Nat

VARIABLES
  unitState,    \* unitState[u]: whether systemd has u active or failed
  since,        \* since[u]: lines logged after the one of u's last failure, up to TailLines
  unitChanges,  \* how many lines were logged during the request
  diagMode,     \* whether the boot found the bus, for the life of the process
  diagPage,     \* what was asked for
  diagAt,       \* the step of Capture the request is at, 0 while there is none
  diagFailed,   \* the units that are failed in the snapshot, then on the page
  diagTail,     \* the units whose last failure is in its journal tail
  diagParts,    \* the parts it has
  diagAge       \* history: since, but for the failures the page shows

systemdHost == <<unitState, since, unitChanges>>
diagShown == <<diagFailed, diagTail, diagParts>>
diagnosticsVars == <<systemdHost, diagMode, diagPage, diagAt, diagShown, diagAge>>

Parts == {"units", "madeUpUnit", "journal", "noJournal", "ostree", "statuses"}

\* Mutant: the journal is read before the units.
CaptureJournalFirst == <<"journal", "units", "ostree">>

\* What Capture reads, in this order.
Capture == <<"units", "journal", "ostree">>

\* After Capture, the statuses of all modules; then the page or bundle is sent.
StatusesStep == Len(Capture) + 1
Sent == Len(Capture) + 2

DiagnosticsTypeOK ==
  /\ unitState \in [Units -> {"active", "failed"}]
  /\ since \in [Units -> 0 .. TailLines]
  /\ unitChanges \in 0 .. MaxUnitChanges
  /\ diagMode \in {"systemd", "fake"}
  /\ diagPage \in {"dashboard", "diagnostics", "bundle"}
  /\ diagAt \in 0 .. Sent
  /\ diagFailed \subseteq Units
  /\ diagTail \subseteq Units
  /\ diagParts \subseteq Parts
  /\ "madeUpUnit" \in diagParts => diagMode = "fake" \/ diagPage = "dashboard"
  /\ diagAge \in [Units -> 0 .. TailLines]

DiagnosticsInit ==
  /\ unitState = [u \in Units |-> "active"]
  /\ since = [u \in Units |-> TailLines]
  /\ unitChanges = 0
  /\ diagMode \in {"systemd", "fake"}
  /\ diagPage = "dashboard"
  /\ diagAt = 0
  /\ diagFailed = {}
  /\ diagTail = {}
  /\ diagParts = {}
  /\ diagAge = [u \in Units |-> TailLines]

-----------------------------------------------------------------------------
(* systemd and the journal.  Each change of a unit is logged. *)

OneLater(age) == [u \in Units |-> IF age[u] < TailLines THEN age[u] + 1 ELSE TailLines]

LineLogged ==
  /\ unitChanges < MaxUnitChanges
  /\ unitChanges' = unitChanges + 1
  /\ diagAge' = OneLater(diagAge)
  /\ UNCHANGED <<diagMode, diagPage, diagAt, diagShown>>

UnitFails(u) ==
  /\ unitState[u] = "active"
  /\ LineLogged
  /\ unitState' = [unitState EXCEPT ![u] = "failed"]
  /\ since' = [OneLater(since) EXCEPT ![u] = 0]

\* By itself, or by a UnitAction of this program.
UnitStarts(u) ==
  /\ unitState[u] = "failed"
  /\ LineLogged
  /\ unitState' = [unitState EXCEPT ![u] = "active"]
  /\ since' = OneLater(since)

OtherLine ==
  /\ LineLogged
  /\ since' = OneLater(since)
  /\ UNCHANGED unitState

-----------------------------------------------------------------------------
(* The request. *)

OpenDiagnostics ==
  /\ diagAt \in {0, Sent}
  /\ diagAt' = 1
  /\ diagPage' \in {"dashboard", "diagnostics", "bundle"}
  /\ diagFailed' = {}
  /\ diagTail' = {}
  /\ diagParts' = {}
  /\ diagAge' = [u \in Units |-> TailLines]
  /\ unitChanges' = 0
  /\ UNCHANGED <<unitState, since, diagMode>>

At(step) == diagAt \in DOMAIN Capture /\ Capture[diagAt] = step

\* A dashboard is sent as it is, the others get the module statuses.
AfterCapture == IF diagPage = "dashboard" THEN Sent ELSE StatusesStep

\* ListUnits: one call for all units.
ListUnits ==
  /\ diagMode = "systemd"
  /\ At("units")
  /\ diagAt' = diagAt + 1
  /\ diagFailed' = {u \in Units : unitState[u] = "failed"}
  /\ diagAge' = [u \in Units |-> IF unitState[u] = "failed" THEN since[u] ELSE TailLines]
  /\ diagParts' = diagParts \cup {"units"}
  /\ UNCHANGED <<systemdHost, diagMode, diagPage, diagTail>>

\* Without a bus, Capture makes up a unit that runs.
MakeUpUnit ==
  /\ diagMode = "fake"
  /\ At("units")
  /\ diagAt' = diagAt + 1
  /\ diagParts' = diagParts \cup {"madeUpUnit"}
  /\ UNCHANGED <<systemdHost, diagMode, diagPage, diagFailed, diagTail, diagAge>>

\* What the page has when Capture fails: the dashboard the unit of its stub.
PartsWithoutCapture == IF diagPage = "dashboard" THEN {"madeUpUnit"} ELSE {}

\* ListUnits fails, and Capture with it; the dashboard is its stub, the other
\* pages go on without a snapshot.
ListUnitsFails ==
  /\ diagMode = "systemd"
  /\ At("units")
  /\ diagAt' = AfterCapture
  /\ diagParts' = PartsWithoutCapture
  /\ UNCHANGED <<systemdHost, diagMode, diagPage, diagFailed, diagTail, diagAge>>

\* journalctl, or a line that says it is unavailable.
ReadJournal ==
  /\ At("journal")
  /\ diagAt' = diagAt + 1
  /\ \/ /\ diagTail' = {u \in Units : since[u] < TailLines}
        /\ diagParts' = diagParts \cup {"journal"}
     \/ /\ diagParts' = diagParts \cup {"noJournal"}
        /\ UNCHANGED diagTail
  /\ UNCHANGED <<systemdHost, diagMode, diagPage, diagFailed, diagAge>>

\* The services a dashboard may take, the first in the order systemd lists them.
FirstServices ==
  {first \in SUBSET Units : /\ Cardinality(first) <= DashboardRows
                            /\ Cardinality(first) < DashboardRows => first = Units}

\* dashboardData: of the snapshot, the first services and nothing of its journal
\* or its rpm-ostree.  (The log of a dashboard is the one line of its stub.)
DashboardTakes ==
  /\ \E first \in FirstServices : diagFailed' = diagFailed \cap first
  /\ diagTail' = {}
  /\ diagParts' = diagParts \ {"journal", "noJournal"}

\* populateDiagnosticsSnapshot: all of the snapshot.
PageTakes ==
  /\ diagParts' = diagParts \cup {"ostree"}
  /\ UNCHANGED <<diagFailed, diagTail>>

\* rpm-ostree status, or a line that says it is unavailable; the end of Capture,
\* whose snapshot goes to the page.
ReadOSTree ==
  /\ At("ostree")
  /\ diagAt' = AfterCapture
  /\ IF diagPage = "dashboard" THEN DashboardTakes ELSE PageTakes
  /\ UNCHANGED <<systemdHost, diagMode, diagPage, diagAge>>

\* appendModuleStatuses; a bundle is then packed from that same page.
AppendModuleStatuses ==
  /\ diagAt = StatusesStep
  /\ diagAt' = Sent
  /\ diagParts' = diagParts \cup {"statuses"}
  /\ UNCHANGED <<systemdHost, diagMode, diagPage, diagFailed, diagTail, diagAge>>

DiagnosticsNext ==
  \/ OpenDiagnostics
  \/ ListUnits
  \/ MakeUpUnit
  \/ ListUnitsFails
  \/ ReadJournal
  \/ ReadOSTree
  \/ AppendModuleStatuses
  \/ OtherLine
  \/ \E u \in Units : UnitFails(u) \/ UnitStarts(u)

DiagnosticsSpec == DiagnosticsInit /\ [][DiagnosticsNext]_diagnosticsVars

-----------------------------------------------------------------------------
\* The diagnostics page and the bundle explain the failures they show: the tail of
\* the journal, read after the units, has the line of the failure, unless that was
\* too far back or journalctl failed.  (A dashboard shows failures and no journal.)
FailuresAreExplained ==
  diagAt = Sent /\ diagPage # "dashboard" /\ "noJournal" \notin diagParts =>
    \A u \in diagFailed : u \in diagTail \/ diagAge[u] = TailLines
=============================================================================
