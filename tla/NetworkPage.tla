----------------------------- MODULE NetworkPage -----------------------------
(***************************************************************************)
(* The network page (router.go, networkPageData; dbus/networkmanager):     *)
(* one call for the list of interfaces, then calls for the properties of   *)
(* each, while NetworkManager goes on changing.  The page ends in a switch *)
(* that says whether networking is on.                                     *)
(***************************************************************************)
EXTENDS Naturals

CONSTANTS Interfaces,
          MaxLinkChanges   \* bound: changes of interfaces during one request

ASSUME NetworkAssumption == MaxLinkChanges \in Nat

\* An interface as NetworkManager has it: gone, in a state up to "unavailable"
\* (20), or in a later one.
LinkStates == {"absent", "down", "up"}

\* A row's state: of an interface that is not listed, or not read (State 0).
RowStates == {"none", "unread", "down", "up"}

VARIABLES
  link,         \* link[i]: the state of interface i
  linkChanges,  \* how often they have changed during the request
  netMode,      \* whether the boot found the bus, for the life of the process
  netAt,        \* where the request is
  netTodo,      \* the interfaces whose properties it has yet to read
  netRow,       \* the rows it has read
  netError,     \* the page shows an error and no rows
  netFailed,    \* some call of the request has failed
  stayedDown,   \* history: the interfaces that were down all through the request
  stayedUp      \* history: those that were up all through it

nmVars == <<link, linkChanges>>
netHistory == <<stayedDown, stayedUp>>
networkVars == <<nmVars, netMode, netAt, netTodo, netRow, netError, netFailed, netHistory>>

NetworkTypeOK ==
  /\ link \in [Interfaces -> LinkStates]
  /\ linkChanges \in 0 .. MaxLinkChanges
  /\ netMode \in {"networkmanager", "fake"}
  /\ netAt \in {"idle", "list", "read", "answered"}
  /\ netTodo \subseteq Interfaces
  /\ netRow \in [Interfaces -> RowStates]
  /\ netError \in BOOLEAN
  /\ netFailed \in BOOLEAN
  /\ stayedDown \subseteq Interfaces
  /\ stayedUp \subseteq Interfaces

LinksIn(state) == {i \in Interfaces : link[i] = state}
NoRows == [i \in Interfaces |-> "none"]

NetworkInit ==
  /\ link \in [Interfaces -> LinkStates]
  /\ linkChanges = 0
  /\ netMode \in {"networkmanager", "fake"}
  /\ netAt = "idle"
  /\ netTodo = {}
  /\ netRow = NoRows
  /\ netError = FALSE
  /\ netFailed = FALSE
  /\ stayedDown = {}
  /\ stayedUp = {}

\* A cable, a driver, another administrator, or a SetEnabled of this program.
LinkChanges(i) ==
  /\ linkChanges < MaxLinkChanges
  /\ \E s \in LinkStates \ {link[i]} :
       /\ link' = [link EXCEPT ![i] = s]
       /\ stayedDown' = IF s = "down" THEN stayedDown ELSE stayedDown \ {i}
       /\ stayedUp' = IF s = "up" THEN stayedUp ELSE stayedUp \ {i}
  /\ linkChanges' = linkChanges + 1
  /\ UNCHANGED <<netMode, netAt, netTodo, netRow, netError, netFailed>>

OpenNetworkPage ==
  /\ netAt \in {"idle", "answered"}
  /\ netAt' = "list"
  /\ netTodo' = {}
  /\ netRow' = NoRows
  /\ netError' = FALSE
  /\ netFailed' = FALSE
  /\ linkChanges' = 0
  /\ stayedDown' = LinksIn("down")
  /\ stayedUp' = LinksIn("up")
  /\ UNCHANGED <<link, netMode>>

\* GetDevices.
ListDevices ==
  /\ netAt = "list"
  /\ netMode = "networkmanager"
  /\ netAt' = "read"
  /\ netTodo' = {i \in Interfaces : link[i] # "absent"}
  /\ UNCHANGED <<nmVars, netMode, netRow, netError, netFailed, netHistory>>

\* No client, or GetDevices fails: the page is its error.
ListDevicesFails ==
  /\ netAt = "list"
  /\ netAt' = "answered"
  /\ netError' = TRUE
  /\ netFailed' = TRUE
  /\ UNCHANGED <<nmVars, netMode, netTodo, netRow, netHistory>>

\* Mutant: an interface whose state is not read gets no row.
RowOnFailureDropped(i) == "none"

\* readProp leaves the field as it was, 0.
RowOnFailure(i) == "unread"

\* The properties of one interface; each read may fail, also because the
\* interface is gone, and the failure is dropped.
ReadDevice(i) ==
  /\ netAt = "read"
  /\ i \in netTodo
  /\ netTodo' = netTodo \ {i}
  /\ \/ /\ link[i] # "absent"
        /\ netRow' = [netRow EXCEPT ![i] = link[i]]
        /\ UNCHANGED netFailed
     \/ /\ netRow' = [netRow EXCEPT ![i] = RowOnFailure(i)]
        /\ netFailed' = TRUE
  /\ UNCHANGED <<nmVars, netMode, netAt, netError, netHistory>>

AnswerNetworkPage ==
  /\ netAt = "read"
  /\ netTodo = {}
  /\ netAt' = "answered"
  /\ UNCHANGED <<nmVars, netMode, netTodo, netRow, netError, netFailed, netHistory>>

NetworkNext ==
  \/ OpenNetworkPage
  \/ ListDevices
  \/ ListDevicesFails
  \/ AnswerNetworkPage
  \/ \E i \in Interfaces : LinkChanges(i) \/ ReadDevice(i)

NetworkSpec == NetworkInit /\ [][NetworkNext]_networkVars

-----------------------------------------------------------------------------
\* The switch of the page: on unless a row's State is at most 20.
Enabled == ~netError /\ \A i \in Interfaces : netRow[i] \in {"none", "up"}

\* The switch is on only if no interface was down all through the request,
\* whichever calls failed and whatever came and went meanwhile; and while no
\* call failed, it is off only if some interface was not up all through it.
NetworkSwitchIsEarned ==
  netAt = "answered" =>
    /\ Enabled => stayedDown = {}
    /\ ~Enabled /\ ~netFailed => \E i \in Interfaces : netRow[i] # "none" /\ i \notin stayedUp
=============================================================================
