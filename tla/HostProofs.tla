------------------------------ MODULE HostProofs ------------------------------
(***************************************************************************)
(* What requests do to the host, proved for any number of requests,        *)
(* devices, tunnels, bundles, failures and deaths: formatting against      *)
(* changing mounts, provisions that overlap, reloads against replacement.  *)
(***************************************************************************)
EXTENDS MCHost, PagesProofs

-----------------------------------------------------------------------------
(* Formatting. *)

\* Of one request: a device that is a boot device all through it has been one at
\* the check, which it passed only unread.
CheckHeld(f) ==
  stayedBoot[f] =>
    /\ formatAt[f] \in {"check", "format"} => use[target[f]] = "boot"
    /\ formatAt[f] \in {"format", "formatted"} => checked[f] = "unread"

FormatInv ==
  /\ use \in [Devices -> Uses]
  /\ formatAt \in [Formatters -> {"new", "check", "format", "formatted", "refused"}]
  /\ target \in [Formatters -> Devices]
  /\ checked \in [Formatters -> {"nothing", "unread", "clear", "boot"}]
  /\ stayedBoot \in [Formatters -> BOOLEAN]
  /\ \A f \in Formatters : CheckHeld(f)

\* For any devices, whatever is mounted or unplugged at any moment, a boot device
\* is formatted only by a request that could not read its mount points.
THEOREM FormatsSpareBootDevices == StorageSpec => []BootDevicesAreKept
  <1>1. StorageInit => FormatInv
    BY DEF StorageInit, FormatInv, CheckHeld, Uses
  <1>2. FormatInv /\ [StorageNext]_storageVars => FormatInv'
    <2> SUFFICES ASSUME FormatInv, [StorageNext]_storageVars PROVE FormatInv'
      OBVIOUS
    <2> USE DEF FormatInv, CheckHeld, udisks, pages, formats
    <2>1. ASSUME NEW d \in Devices, DeviceChanges(d) PROVE FormatInv'
      <3> PICK u \in Uses : Becomes(d, u)
        BY <2>1 DEF DeviceChanges, UseLeadsTo, Uses
      <3>1. UNCHANGED <<formatAt, target, checked>>
        BY <2>1 DEF DeviceChanges
      <3>2. use' \in [Devices -> Uses] /\ stayedBoot' \in [Formatters -> BOOLEAN]
        BY DEF Becomes
      <3>3. ASSUME NEW f \in Formatters, stayedBoot'[f]
            PROVE  stayedBoot[f] /\ (use[target[f]] = "boot" => use'[target[f]] = "boot")
        BY <3>3 DEF Becomes
      <3>4. \A f \in Formatters : CheckHeld(f)'
        BY <3>1, <3>3
      <3>5. QED
        BY <3>1, <3>2, <3>4
    <2>2. ASSUME NEW v \in Viewers, Fetch(v) \/ FetchFails(v) \/ Store(v) \/ FallBack(v) \/ ViewAgain(v)
          PROVE  FormatInv'
      BY <2>2 DEF Fetch, FetchFails, Store, FallBack, ViewAgain
    <2>3. ASSUME NEW f \in Formatters, BeginFormat(f) PROVE FormatInv'
      BY <2>3 DEF BeginFormat
    <2>4. ASSUME NEW f \in Formatters, CheckNotBootDevice(f) PROVE FormatInv'
      BY <2>4 DEF CheckNotBootDevice, Passes
    <2>5. ASSUME NEW f \in Formatters, FormatBlock(f) PROVE FormatInv'
      <3>1. CASE UNCHANGED <<use, stayedBoot>>
        BY <2>5, <3>1 DEF FormatBlock
      <3>2. CASE /\ formatAt' = [formatAt EXCEPT ![f] = "formatted"]
                 /\ use' = [use EXCEPT ![target[f]] = "closed"]
                 /\ stayedBoot' = [g \in Formatters |->
                                     stayedBoot[g] /\ (target[g] = target[f] => g = f)]
        <4>1. UNCHANGED <<target, checked>> /\ formatAt[f] = "format"
          BY <2>5 DEF FormatBlock
        <4>2. /\ use' \in [Devices -> Uses] /\ stayedBoot' \in [Formatters -> BOOLEAN]
              /\ formatAt' \in [Formatters -> {"new", "check", "format", "formatted", "refused"}]
          BY <3>2 DEF Uses
        <4>3. ASSUME NEW g \in Formatters, stayedBoot'[g] PROVE stayedBoot[g] /\ CheckHeld(g)'
          BY <3>2, <4>1, <4>3
        <4>4. QED
          BY <4>1, <4>2, <4>3
      <3>3. QED
        BY <2>5, <3>1, <3>2 DEF FormatBlock
    <2>6. CASE UNCHANGED storageVars
      BY <2>6 DEF storageVars
    <2>7. QED
      BY <2>1, <2>2, <2>3, <2>4, <2>5, <2>6 DEF StorageNext
  <1>3. FormatInv => BootDevicesAreKept
    BY DEF FormatInv, CheckHeld, BootDevicesAreKept
  <1>4. QED
    BY <1>1, <1>2, <1>3, PTL DEF StorageSpec

-----------------------------------------------------------------------------
(* Provisioning. *)

TunnelTypes ==
  /\ tunnelOf \in [Provisions -> TunnelNames]
  /\ provisionAt \in [Provisions -> 0 .. 4]
  /\ outcome \in [Provisions -> {"none", "ok", "error", "cut"}]
  /\ config \in [TunnelNames -> Provisions \cup {Nobody, HalfWritten}]
  /\ owner \in [TunnelNames -> Provisions \cup {Nobody}]
  /\ running \in [TunnelNames -> Provisions \cup {Nobody, HalfWritten}]
  /\ \A p \in Provisions : outcome[p] # "none" => provisionAt[p] > 0

\* Which command a place is.
LEMMA WhichStep ==
  ASSUME NEW p \in Provisions, TunnelTypes, InProgress(p)
  PROVE  /\ provisionAt[p] \in 1 .. 4 /\ outcome[p] = "none"
         /\ StepOf(p) = "truncate" <=> provisionAt[p] = 1
         /\ StepOf(p) = "write" <=> provisionAt[p] = 2
         /\ StepOf(p) = "rm" <=> provisionAt[p] = 3
         /\ StepOf(p) = "run" <=> provisionAt[p] = 4
  BY DEF TunnelTypes, InProgress, StepOf, ProvisionSteps

\* The types hold after every step.
LEMMA TunnelTypesStep == TunnelTypes /\ [TunnelNext]_tunnelVars => TunnelTypes'
  <1> SUFFICES ASSUME TunnelTypes, [TunnelNext]_tunnelVars PROVE TunnelTypes'
    OBVIOUS
  <1> USE TunnelAssumption DEF tunnelHost, tunnelHistory
  <1>0. ASSUME NEW p \in Provisions, TakesEffect(p)
        PROVE  /\ config' \in [TunnelNames -> Provisions \cup {Nobody, HalfWritten}]
               /\ owner' \in [TunnelNames -> Provisions \cup {Nobody}]
               /\ running' \in [TunnelNames -> Provisions \cup {Nobody, HalfWritten}]
    BY <1>0 DEF TunnelTypes, TakesEffect, WritesConfig, RemovesContainer, StartsContainer
  <1>1. ASSUME NEW p \in Provisions, BeginProvision(p) PROVE TunnelTypes'
    BY <1>1 DEF BeginProvision, TunnelTypes
  <1>2. ASSUME NEW p \in Provisions, ProvisionStep(p) PROVE TunnelTypes'
    BY <1>0, <1>2, WhichStep DEF ProvisionStep, ProvisionGoesOn, ProvisionSteps, TunnelTypes
  <1>3. ASSUME NEW p \in Provisions, NameTaken(p) PROVE TunnelTypes'
    BY <1>3, WhichStep DEF NameTaken, AfterConflict, TunnelTypes
  <1>4. ASSUME NEW p \in Provisions, ProvisionFails(p) PROVE TunnelTypes'
    BY <1>0, <1>4, WhichStep DEF ProvisionFails, ProvisionGoesOn, ProvisionSteps, TunnelTypes
  <1>5. CASE TunnelsCut
    BY <1>5 DEF TunnelsCut, InProgress, TunnelTypes
  <1>6. ASSUME NEW t \in TunnelNames, RestartContainer(t) PROVE TunnelTypes'
    BY <1>6 DEF RestartContainer, TunnelTypes
  <1>7. CASE UNCHANGED tunnelVars
    BY <1>7 DEF tunnelVars, TunnelTypes
  <1>8. QED
    BY <1>1, <1>2, <1>3, <1>4, <1>5, <1>6, <1>7 DEF TunnelNext

\* A tunnel whose commands have not failed has a container, or a request under
\* way that is yet to run one.
ContainerOrRequest ==
  \A t \in TunnelNames \ broken :
    (\E p \in Provisions : tunnelOf[p] = t /\ provisionAt[p] > 0) =>
      owner[t] # Nobody \/ \E p \in Provisions : tunnelOf[p] = t /\ InProgress(p)

\* However many requests for a tunnel overlap, it ends with a container unless a
\* command failed.
THEOREM TunnelsEndWithAContainer == TunnelSpec => []TunnelSurvives
  <1> DEFINE Inv == TunnelTypes /\ ContainerOrRequest
  <1>1. TunnelInit => Inv
    BY DEF TunnelInit, TunnelTypes, ContainerOrRequest
  <1>2. Inv /\ [TunnelNext]_tunnelVars => ContainerOrRequest'
    <2> SUFFICES ASSUME TunnelTypes, ContainerOrRequest, [TunnelNext]_tunnelVars
                 PROVE  ContainerOrRequest'
      OBVIOUS
    <2> USE TunnelAssumption DEF tunnelHost, tunnelHistory
    <2>1. ASSUME NEW p \in Provisions, BeginProvision(p) PROVE ContainerOrRequest'
      BY <2>1 DEF BeginProvision, TunnelTypes, ContainerOrRequest, InProgress
    <2>2. ASSUME NEW p \in Provisions, ProvisionStep(p) PROVE ContainerOrRequest'
      <3>1. InProgress(p) /\ UNCHANGED <<tunnelOf, broken>>
        BY <2>2 DEF ProvisionStep
      <3>2. CASE StepOf(p) = "run"
        <4>1. owner' = [owner EXCEPT ![tunnelOf[p]] = p]
          BY <2>2, <3>2 DEF ProvisionStep, TakesEffect, StartsContainer
        <4>2. UNCHANGED provisionAt /\ outcome' = [outcome EXCEPT ![p] = "ok"]
          BY <2>2, <3>1, <3>2, WhichStep DEF ProvisionStep, ProvisionGoesOn, ProvisionSteps
        <4>3. QED
          BY <3>1, <4>1, <4>2 DEF TunnelTypes, ContainerOrRequest, InProgress
      <3>3. CASE StepOf(p) # "run"
        <4>1. UNCHANGED outcome /\ provisionAt' = [provisionAt EXCEPT ![p] = @ + 1]
          BY <2>2, <3>1, <3>3, WhichStep DEF ProvisionStep, ProvisionGoesOn, ProvisionSteps, TunnelTypes
        <4>2. \A q \in Provisions : (provisionAt'[q] > 0 <=> provisionAt[q] > 0)
          BY <3>1, <4>1 DEF InProgress, TunnelTypes
        <4>3. \A t \in TunnelNames \ {tunnelOf[p]} : owner'[t] = owner[t]
          BY <2>2, <3>3 DEF ProvisionStep, TakesEffect, WritesConfig, RemovesContainer, TunnelTypes
        <4>4. InProgress(p)'
          BY <3>1, <4>1, <4>2 DEF InProgress
        <4>5. \A q \in Provisions : InProgress(q)' <=> InProgress(q)
          BY <4>1, <4>2 DEF InProgress
        <4>6. QED
          BY <3>1, <4>2, <4>3, <4>4, <4>5 DEF ContainerOrRequest
      <3>4. QED
        BY <3>2, <3>3
    <2>3. ASSUME NEW p \in Provisions, NameTaken(p) PROVE ContainerOrRequest'
      BY <2>3, WhichStep DEF NameTaken, NameIsFree, TunnelTypes, ContainerOrRequest, InProgress
    <2>4. ASSUME NEW p \in Provisions, ProvisionFails(p) PROVE ContainerOrRequest'
      <3>1. InProgress(p) /\ UNCHANGED tunnelOf /\ broken' = broken \cup {tunnelOf[p]}
        BY <2>4 DEF ProvisionFails, Breaks
      <3>2. \A t \in TunnelNames \ {tunnelOf[p]} : owner'[t] = owner[t]
        BY <2>4 DEF ProvisionFails, TakesEffect, WritesConfig, RemovesContainer, StartsContainer,
                    TunnelTypes
      <3>3. \A q \in Provisions \ {p} : provisionAt'[q] = provisionAt[q] /\ outcome'[q] = outcome[q]
        BY <2>4 DEF ProvisionFails, ProvisionGoesOn, TunnelTypes
      <3>4. QED
        BY <3>1, <3>2, <3>3 DEF ContainerOrRequest, InProgress
    <2>5. CASE TunnelsCut
      BY <2>5 DEF TunnelsCut, Breaks, TunnelTypes, ContainerOrRequest, InProgress
    <2>6. ASSUME NEW t \in TunnelNames, RestartContainer(t) PROVE ContainerOrRequest'
      BY <2>6 DEF RestartContainer, ContainerOrRequest, InProgress
    <2>7. CASE UNCHANGED tunnelVars
      BY <2>7 DEF tunnelVars, ContainerOrRequest, InProgress
    <2>8. QED
      BY <2>1, <2>2, <2>3, <2>4, <2>5, <2>6, <2>7 DEF TunnelNext
  <1>3. Inv => TunnelSurvives
    BY DEF TunnelTypes, ContainerOrRequest, TunnelSurvives, AtRest
  <1>4. QED
    BY <1>1, <1>2, <1>3, TunnelTypesStep, PTL DEF TunnelSpec

\* A request that answers "ok" has run the container; for any requests, only
\* another one for the tunnel takes it away again.
THEOREM OkIsStarted == TunnelSpec => []OkMeansStarted
  <1> DEFINE Inv == TunnelTypes /\ OkMeansStarted
  <1>1. TunnelInit => Inv
    BY DEF TunnelInit, TunnelTypes, OkMeansStarted
  <1>2. Inv /\ [TunnelNext]_tunnelVars => OkMeansStarted'
    <2> SUFFICES ASSUME TunnelTypes, OkMeansStarted, [TunnelNext]_tunnelVars
                 PROVE  OkMeansStarted'
      OBVIOUS
    <2> USE TunnelAssumption DEF tunnelHost, tunnelHistory
    <2>0. ASSUME NEW p \in Provisions, TakesEffect(p), UNCHANGED tunnelOf
          PROVE  \A q \in Provisions :
                   owner[tunnelOf[q]] = q \/ q \in replaced =>
                     (owner[tunnelOf[q]] = q \/ q \in replaced)'
      BY <2>0 DEF TakesEffect, WritesConfig, RemovesContainer, StartsContainer, NameIsFree,
                  TunnelTypes
    <2>1. ASSUME NEW p \in Provisions, BeginProvision(p) PROVE OkMeansStarted'
      BY <2>1 DEF BeginProvision, OkMeansStarted
    <2>2. ASSUME NEW p \in Provisions, ProvisionStep(p) PROVE OkMeansStarted'
      <3>1. InProgress(p) /\ UNCHANGED tunnelOf /\ TakesEffect(p)
        BY <2>2 DEF ProvisionStep
      <3>2. CASE StepOf(p) = "run"
        <4>1. owner' = [owner EXCEPT ![tunnelOf[p]] = p]
          BY <3>1, <3>2 DEF TakesEffect, StartsContainer
        <4>2. outcome' = [outcome EXCEPT ![p] = "ok"]
          BY <2>2, <3>1, <3>2, WhichStep DEF ProvisionStep, ProvisionGoesOn, ProvisionSteps
        <4>3. QED
          BY <2>0, <3>1, <4>1, <4>2 DEF TunnelTypes, OkMeansStarted
      <3>3. CASE StepOf(p) # "run"
        <4>1. UNCHANGED outcome
          BY <2>2, <3>1, <3>3, WhichStep DEF ProvisionStep, ProvisionGoesOn, ProvisionSteps
        <4>2. QED
          BY <2>0, <3>1, <4>1 DEF OkMeansStarted
      <3>4. QED
        BY <3>2, <3>3
    <2>3. ASSUME NEW p \in Provisions, NameTaken(p) PROVE OkMeansStarted'
      BY <2>3 DEF NameTaken, AfterConflict, TunnelTypes, OkMeansStarted
    <2>4. ASSUME NEW p \in Provisions, ProvisionFails(p) PROVE OkMeansStarted'
      <3>1. InProgress(p) /\ UNCHANGED tunnelOf
        BY <2>4 DEF ProvisionFails
      <3>2. \A q \in Provisions : outcome'[q] = "ok" => outcome[q] = "ok"
        BY <2>4, <3>1, WhichStep DEF ProvisionFails, ProvisionGoesOn, ProvisionSteps, TunnelTypes
      <3>3. TakesEffect(p) \/ UNCHANGED <<owner, replaced>>
        BY <2>4 DEF ProvisionFails
      <3>4. QED
        BY <2>0, <3>1, <3>2, <3>3 DEF OkMeansStarted
    <2>5. CASE TunnelsCut
      BY <2>5 DEF TunnelsCut, TunnelTypes, OkMeansStarted
    <2>6. ASSUME NEW t \in TunnelNames, RestartContainer(t) PROVE OkMeansStarted'
      BY <2>6 DEF RestartContainer, OkMeansStarted
    <2>7. CASE UNCHANGED tunnelVars
      BY <2>7 DEF tunnelVars, OkMeansStarted
    <2>8. QED
      BY <2>1, <2>2, <2>3, <2>4, <2>5, <2>6, <2>7 DEF TunnelNext
  <1>3. QED
    BY <1>1, <1>2, TunnelTypesStep, PTL DEF TunnelSpec

\* A tunnel whose requests come one after the other: one that is under way has
\* written the config before it removes the container and before it runs one,
\* and between two requests the container and the file are of the same request.
OneAfterTheOther(t) ==
  /\ \A p, q \in Provisions :
       tunnelOf[p] = t /\ tunnelOf[q] = t /\ InProgress(p) /\ InProgress(q) => p = q
  /\ \A p \in Provisions : tunnelOf[p] = t /\ InProgress(p) =>
       /\ provisionAt[p] \in {3, 4} => config[t] = p
       /\ provisionAt[p] = 4 => owner[t] = Nobody
  /\ AtRest(t) /\ owner[t] # Nobody => running[t] = owner[t] /\ config[t] = owner[t]

\* However many requests provision a tunnel, if none overlapped or failed it
\* runs the config of the request that started it.
THEOREM TunnelsRunTheirOwn == TunnelSpec => []TunnelRunsItsOwnConfig
  <1> DEFINE Own == \A t \in TunnelNames \ disturbed : OneAfterTheOther(t)
  <1>1. TunnelInit => TunnelTypes /\ Own
    BY DEF TunnelInit, TunnelTypes, OneAfterTheOther, InProgress
  <1>2. TunnelTypes /\ Own /\ [TunnelNext]_tunnelVars => Own'
    <2> SUFFICES ASSUME TunnelTypes, Own, [TunnelNext]_tunnelVars,
                        NEW t \in TunnelNames \ disturbed'
                 PROVE  OneAfterTheOther(t)'
      OBVIOUS
    <2> USE TunnelAssumption DEF tunnelHost, tunnelHistory
    <2>0. t \notin disturbed
      BY DEF TunnelNext, BeginProvision, ProvisionStep, NameTaken, ProvisionFails, TunnelsCut,
             Breaks, RestartContainer, tunnelVars
    <2>1. ASSUME NEW p \in Provisions, BeginProvision(p) PROVE OneAfterTheOther(t)'
      BY <2>0, <2>1 DEF BeginProvision, TunnelTypes, OneAfterTheOther, AtRest, InProgress
    <2>2. ASSUME NEW p \in Provisions, ProvisionStep(p) PROVE OneAfterTheOther(t)'
      <3>1. /\ InProgress(p) /\ UNCHANGED tunnelOf /\ TakesEffect(p)
            /\ \A q \in Provisions \ {p} : InProgress(q)' = InProgress(q) /\ provisionAt'[q] = provisionAt[q]
        BY <2>2 DEF ProvisionStep, ProvisionGoesOn, TunnelTypes, InProgress
      <3>2. CASE tunnelOf[p] # t
        <4>1. config'[t] = config[t] /\ owner'[t] = owner[t] /\ running'[t] = running[t]
          BY <3>1, <3>2 DEF TakesEffect, WritesConfig, RemovesContainer, StartsContainer, TunnelTypes
        <4>2. QED
          BY <2>0, <3>1, <3>2, <4>1 DEF OneAfterTheOther, AtRest
      <3>3. CASE tunnelOf[p] = t
        <4>1. \A q \in Provisions \ {p} : tunnelOf[q] = t => ~InProgress(q)'
          BY <2>0, <3>1, <3>3 DEF OneAfterTheOther
        <4>2. CASE StepOf(p) = "truncate"
          BY <2>2, <3>1, <3>3, <4>1, <4>2, WhichStep
             DEF ProvisionStep, ProvisionGoesOn, ProvisionSteps, TunnelTypes, OneAfterTheOther,
                 AtRest, InProgress
        <4>3. CASE StepOf(p) = "write"
          <5>1. config'[t] = p
            BY <3>1, <3>3, <4>3 DEF TakesEffect, WritesConfig, TunnelTypes
          <5>2. provisionAt'[p] = 3 /\ InProgress(p)'
            BY <2>2, <3>1, <4>3, WhichStep DEF ProvisionStep, ProvisionGoesOn, ProvisionSteps,
                                              TunnelTypes, InProgress
          <5>3. QED
            BY <3>1, <3>3, <4>1, <5>1, <5>2 DEF OneAfterTheOther, AtRest
        <4>4. CASE StepOf(p) = "rm"
          <5>1. config'[t] = config[t] /\ owner'[t] = Nobody
            BY <3>1, <3>3, <4>4 DEF TakesEffect, RemovesContainer, TunnelTypes
          <5>2. provisionAt'[p] = 4 /\ InProgress(p)'
            BY <2>2, <3>1, <4>4, WhichStep DEF ProvisionStep, ProvisionGoesOn, ProvisionSteps,
                                              TunnelTypes, InProgress
          <5>3. config[t] = p
            BY <2>0, <3>1, <3>3, <4>4, WhichStep DEF OneAfterTheOther
          <5>4. QED
            BY <3>1, <3>3, <4>1, <5>1, <5>2, <5>3 DEF OneAfterTheOther, AtRest
        <4>5. CASE StepOf(p) = "run"
          <5>1. config[t] = p
            BY <2>0, <3>1, <3>3, <4>5, WhichStep DEF OneAfterTheOther
          <5>2. config'[t] = p /\ owner'[t] = p /\ running'[t] = p
            BY <3>1, <3>3, <4>5, <5>1 DEF TakesEffect, StartsContainer, TunnelTypes
          <5>3. ~InProgress(p)'
            BY <2>2, <3>1, <4>5, WhichStep DEF ProvisionStep, ProvisionGoesOn, ProvisionSteps,
                                              TunnelTypes, InProgress
          <5>4. QED
            BY <3>1, <3>3, <4>1, <5>2, <5>3 DEF OneAfterTheOther, AtRest
        <4>6. QED
          BY <3>1, <4>2, <4>3, <4>4, <4>5 DEF TakesEffect
      <3>4. QED
        BY <3>2, <3>3
    <2>3. ASSUME NEW p \in Provisions, NameTaken(p) PROVE OneAfterTheOther(t)'
      <3>1. /\ InProgress(p) /\ StepOf(p) = "run" /\ owner[tunnelOf[p]] # Nobody
            /\ UNCHANGED <<tunnelOf, provisionAt, tunnelHost>>
        BY <2>3 DEF NameTaken, NameIsFree
      <3>2. tunnelOf[p] # t
        BY <2>0, <3>1, WhichStep DEF OneAfterTheOther
      <3>3. \A q \in Provisions \ {p} : InProgress(q)' = InProgress(q)
        BY <2>3, <3>1 DEF NameTaken, TunnelTypes, InProgress
      <3>4. QED
        BY <2>0, <3>1, <3>2, <3>3 DEF OneAfterTheOther, AtRest
    <2>4. ASSUME NEW p \in Provisions, ProvisionFails(p) PROVE OneAfterTheOther(t)'
      <3>1. InProgress(p) /\ UNCHANGED tunnelOf /\ tunnelOf[p] # t
        BY <2>4 DEF ProvisionFails, Breaks
      <3>2. config'[t] = config[t] /\ owner'[t] = owner[t] /\ running'[t] = running[t]
        BY <2>4, <3>1 DEF ProvisionFails, TakesEffect, WritesConfig, RemovesContainer,
                         StartsContainer, TunnelTypes
      <3>3. \A q \in Provisions \ {p} : InProgress(q)' = InProgress(q) /\ provisionAt'[q] = provisionAt[q]
        BY <2>4 DEF ProvisionFails, ProvisionGoesOn, TunnelTypes, InProgress
      <3>4. QED
        BY <2>0, <3>1, <3>2, <3>3 DEF OneAfterTheOther, AtRest
    <2>5. CASE TunnelsCut
      <3>1. UNCHANGED <<tunnelOf, provisionAt, tunnelHost>>
        BY <2>5 DEF TunnelsCut
      <3>2. \A q \in Provisions : tunnelOf[q] = t => ~InProgress(q) /\ ~InProgress(q)'
        BY <2>5 DEF TunnelsCut, Breaks, InProgress, TunnelTypes
      <3>3. QED
        BY <2>0, <3>1, <3>2 DEF OneAfterTheOther, AtRest
    <2>6. ASSUME NEW u \in TunnelNames, RestartContainer(u) PROVE OneAfterTheOther(t)'
      <3>1. UNCHANGED <<tunnelOf, provisionAt, outcome, config, owner>>
        BY <2>6 DEF RestartContainer
      <3>2. running'[t] = running[t] \/ running'[t] = config[t]
        BY <2>6 DEF RestartContainer, TunnelTypes
      <3>3. QED
        BY <2>0, <3>1, <3>2 DEF OneAfterTheOther, AtRest, InProgress
    <2>7. CASE UNCHANGED tunnelVars
      BY <2>0, <2>7 DEF tunnelVars, OneAfterTheOther, AtRest, InProgress
    <2>8. QED
      BY <2>1, <2>2, <2>3, <2>4, <2>5, <2>6, <2>7 DEF TunnelNext
  <1>3. Own => TunnelRunsItsOwnConfig
    BY DEF OneAfterTheOther, TunnelRunsItsOwnConfig
  <1>4. QED
    BY <1>1, <1>2, <1>3, TunnelTypesStep, PTL DEF TunnelSpec

-----------------------------------------------------------------------------
(* Reloading. *)

\* What the reload has read is of the one whole bundle that was there, unless that
\* changed while it read; a pair that was installed or taken fits.
ReadOfOneBundle ==
  ~unsettled =>
    /\ Reading => OneWholeBundle
    /\ Reading \/ reloadAt = "check" => contentsCut = {}
    /\ reloadAt \in {"readKey", "readCA"} => contents["cert"] = file["cert"]
    /\ reloadAt = "readCA" => contents["key"] = file["key"]
    /\ reloadAt = "check" => SameBundle(contents)

ReloadInv ==
  /\ file \in [Files -> 0 .. MaxBundles]
  /\ contents \in [Files -> 0 .. MaxBundles]
  /\ installed \in [Files -> 0 .. MaxBundles]
  /\ ReadOfOneBundle
  /\ installed["cert"] = installed["key"]
  /\ TornOnlyByReplacement

\* The types of the files, which depend on what the tool has written.
FilesTyped ==
  /\ file \in [Files -> 0 .. MaxBundles]
  /\ written \in [Files -> 0 .. MaxBundles]

\* The tool writes what is a file of some bundle or none, cuts no file of one
\* certificate, and of the process disturbs no more than what a reload reads.
LEMMA ToolStep ==
  ASSUME FilesTyped, NEW f \in Files, ReplaceFile(f) \/ WriteFirst(f) \/ FinishFile(f)
  PROVE  /\ FilesTyped'
         /\ cutShort' \subseteq cutShort \cup OfSeveral
         /\ unsettled' = (unsettled \/ Reading)
         /\ UNCHANGED <<reloadAt, starting, contents, contentsCut, process, fileCrashes>>
  <1> USE FileStoreAssumption DEF FilesTyped, SetFile
  <1>1. CASE ReplaceFile(f)
    BY <1>1 DEF ReplaceFile
  <1>2. CASE WriteFirst(f)
    BY <1>2 DEF WriteFirst
  <1>3. CASE FinishFile(f)
    BY <1>3 DEF FinishFile
  <1>4. QED
    BY <1>1, <1>2, <1>3

\* Types of the files and what reload has read, in every state.
LEMMA ReloadInvariant == FileStoreSpec => [](FilesTyped /\ ReloadInv)
  <1> USE FileStoreAssumption
  <1>1. FileStoreInit => FilesTyped /\ ReloadInv
    BY DEF FileStoreInit, FilesTyped, ReloadInv, ReadOfOneBundle, TornOnlyByReplacement,
           NoBundle, NoPair, Files, SameBundle, Reading
  <1>2. FilesTyped /\ ReloadInv /\ [FileStoreNext]_fileStoreVars => FilesTyped' /\ ReloadInv'
    <2> SUFFICES ASSUME FilesTyped, ReloadInv, [FileStoreNext]_fileStoreVars
                 PROVE  FilesTyped' /\ ReloadInv'
      OBVIOUS
    <2> USE DEF FilesTyped, ReloadInv, ReadOfOneBundle, OneWholeBundle, TornOnlyByReplacement,
                Reading, process
    <2>1. ASSUME NEW f \in Files, ReplaceFile(f) \/ WriteFirst(f) \/ FinishFile(f)
          PROVE  FilesTyped' /\ ReloadInv'
      <3>1. FilesTyped'
        BY <2>1, ToolStep
      <3>2. /\ unsettled' = (unsettled \/ Reading)
            /\ UNCHANGED <<reloadAt, starting, contents, contentsCut, process, fileCrashes>>
        BY <2>1, ToolStep
      <3>3. ReadOfOneBundle'
        BY <3>2
      <3>4. QED
        BY <3>1, <3>2, <3>3 DEF SameBundle
    <2>2. CASE StartProcess \/ RenewFromFiles
      <3>1. BeginReload /\ UNCHANGED <<disk, process>>
        BY <2>2 DEF StartProcess, RenewFromFiles
      <3>2. contents' \in [Files -> 0 .. MaxBundles]
        BY <3>1 DEF BeginReload, NoBundle
      <3>3. ReadOfOneBundle'
        <4>1. (~unsettled)' => OneWholeBundle'
          BY <3>1, Zenon DEF BeginReload, disk, SameBundle
        <4>2. QED
          BY <3>1, <4>1 DEF BeginReload
      <3>4. QED
        BY <3>1, <3>2, <3>3 DEF disk, SameBundle
    <2>3. CASE ReadFiles
      BY <2>3 DEF ReadFiles, ReadFile, ReloadFails, LosesMemory, disk, NoBundle, NoPair,
                  SameBundle, Files
    <2>4. CASE CheckAndInstall
      BY <2>4 DEF CheckAndInstall, ReloadFails, LosesMemory, PairAccepts, InstalledAfterRefusal,
                  disk, NoBundle, NoPair, SameBundle, Files
    <2>5. CASE TakeCertificate
      BY <2>5 DEF TakeCertificate, disk, SameBundle
    <2>6. CASE TakeClientCAs
      BY <2>6 DEF TakeClientCAs, disk, SameBundle
    <2>7. CASE KillProcess
      BY <2>7 DEF KillProcess, LosesMemory, disk, NoBundle, NoPair, SameBundle, Files
    <2>8. CASE UNCHANGED fileStoreVars
      BY <2>8 DEF fileStoreVars, disk, reloader, SameBundle
    <2>9. QED
      BY <2>1, <2>2, <2>3, <2>4, <2>5, <2>6, <2>7, <2>8 DEF FileStoreNext
  <1>3. QED
    BY <1>1, <1>2, PTL DEF FileStoreSpec

\* For any number of replacements and deaths, a handshake gets a pair, and only
\* a replacement during a reload parts the pair from the trust pool.
THEOREM ReloadsKeepPairs == FileStoreSpec => []TornOnlyByReplacement
  <1>1. ReloadInv => TornOnlyByReplacement
    BY DEF ReloadInv
  <1>2. QED
    BY <1>1, ReloadInvariant, PTL

-----------------------------------------------------------------------------
(* The storage page. *)

\* The cache is empty or a snapshot, and so is all that a page is made of; a
\* request that failed while there was a cache still finds one.
ShownWasTaken(v) ==
  /\ viewAt[v] = "fetched" => fetched[v] \in taken
  /\ viewAt[v] \in {"failed", "stored"} => wasBlank[v] \/ cached \in taken
  /\ viewAt[v] = "answered" => shown[v] \in taken \/ (shown[v] = NoSnapshot /\ wasBlank[v])

CacheInv ==
  /\ viewAt \in [Viewers -> {"new", "fetched", "failed", "stored", "answered"}]
  /\ DOMAIN fetched = Viewers /\ DOMAIN shown = Viewers /\ DOMAIN wasBlank = Viewers
  /\ cached \in taken \cup {NoSnapshot}
  /\ \A v \in Viewers : ShownWasTaken(v)

\* However many requests fetch, fail and store at once, a page shows a snapshot
\* that was taken, and nothing only if there was none when its fetch failed.
THEOREM FallbacksAreSnapshots == StorageSpec => []FallbackIsASnapshot
  <1>1. StorageInit => CacheInv
    BY DEF StorageInit, CacheInv, ShownWasTaken
  <1>2. CacheInv /\ [StorageNext]_storageVars => CacheInv'
    <2> SUFFICES ASSUME CacheInv, [StorageNext]_storageVars PROVE CacheInv'
      OBVIOUS
    <2> USE DEF CacheInv, ShownWasTaken, udisks, pages, formats
    <2>1. ASSUME NEW v \in Viewers, Fetch(v) PROVE CacheInv'
      BY <2>1 DEF Fetch
    <2>2. ASSUME NEW v \in Viewers, FetchFails(v) PROVE CacheInv'
      BY <2>2 DEF FetchFails
    <2>3. ASSUME NEW v \in Viewers, Store(v) PROVE CacheInv'
      BY <2>3 DEF Store, Stored
    <2>4. ASSUME NEW v \in Viewers, FallBack(v) PROVE CacheInv'
      BY <2>4 DEF FallBack
    <2>5. ASSUME NEW v \in Viewers, ViewAgain(v) PROVE CacheInv'
      BY <2>5 DEF ViewAgain
    <2>6. ASSUME NEW d \in Devices, DeviceChanges(d) PROVE CacheInv'
      BY <2>6 DEF DeviceChanges
    <2>7. ASSUME NEW f \in Formatters, BeginFormat(f) \/ CheckNotBootDevice(f) \/ FormatBlock(f)
          PROVE  CacheInv'
      BY <2>7 DEF BeginFormat, CheckNotBootDevice, FormatBlock
    <2>8. CASE UNCHANGED storageVars
      BY <2>8 DEF storageVars
    <2>9. QED
      BY <2>1, <2>2, <2>3, <2>4, <2>5, <2>6, <2>7, <2>8 DEF StorageNext
  <1>3. CacheInv => FallbackIsASnapshot
    BY DEF CacheInv, ShownWasTaken, FallbackIsASnapshot
  <1>4. QED
    BY <1>1, <1>2, <1>3, PTL DEF StorageSpec

-----------------------------------------------------------------------------
(* The types of the storage module, of the tunnels and of the directory. *)

\* The types hold.
LEMMA StorageTypes == StorageSpec => []StorageTypeOK
  <1> USE StorageAssumption
  <1>1. StorageInit => StorageTypeOK
    <2> SUFFICES ASSUME StorageInit PROVE StorageTypeOK
      OBVIOUS
    <2>1. deviceChanges \in 0 .. MaxDeviceChanges /\ fetchFailures \in 0 .. MaxFetchFailures
      BY DEF StorageInit
    <2>2. use \in Snapshots
      BY DEF StorageInit, Snapshots, Uses
    <2>3. QED
      BY <2>1, <2>2, Zenon DEF StorageInit, StorageTypeOK
  <1>2. StorageTypeOK /\ [StorageNext]_storageVars => StorageTypeOK'
    <2> SUFFICES ASSUME StorageTypeOK, [StorageNext]_storageVars PROVE StorageTypeOK'
      OBVIOUS
    <2> USE DEF StorageTypeOK, udisks, pages, formats
    <2>1. ASSUME NEW d \in Devices, DeviceChanges(d) PROVE StorageTypeOK'
      <3>1. deviceChanges' \in 0 .. MaxDeviceChanges
        BY <2>1 DEF DeviceChanges
      <3>2. use' \in Snapshots
        BY <2>1 DEF DeviceChanges, UseLeadsTo, Becomes, Snapshots, Uses
      <3>3. stayedBoot' \in [Formatters -> BOOLEAN]
        BY <2>1 DEF DeviceChanges, Becomes
      <3>4. UNCHANGED <<pages, formatAt, target, checked>>
        BY <2>1 DEF DeviceChanges
      <3>5. QED
        BY <3>1, <3>2, <3>3, <3>4
    <2>2. ASSUME NEW v \in Viewers, Fetch(v) PROVE StorageTypeOK'
      BY <2>2 DEF Fetch
    <2>3. ASSUME NEW v \in Viewers, FetchFails(v) PROVE StorageTypeOK'
      <3>1. fetchFailures' \in 0 .. MaxFetchFailures
        BY <2>3 DEF FetchFails
      <3>2. wasBlank' \in [Viewers -> BOOLEAN]
        BY <2>3 DEF FetchFails
      <3>3. viewAt' \in [Viewers -> {"new", "fetched", "failed", "stored", "answered"}]
        BY <2>3 DEF FetchFails
      <3>4. UNCHANGED <<udisks, fetched, shown, cached, taken, formats>>
        BY <2>3 DEF FetchFails
      <3>5. QED
        BY <3>1, <3>2, <3>3, <3>4
    <2>4. ASSUME NEW v \in Viewers, Store(v) PROVE StorageTypeOK'
      BY <2>4 DEF Store, Stored
    <2>5. ASSUME NEW v \in Viewers, FallBack(v) PROVE StorageTypeOK'
      BY <2>5 DEF FallBack
    <2>6. ASSUME NEW v \in Viewers, ViewAgain(v) PROVE StorageTypeOK'
      BY <2>6 DEF ViewAgain
    <2>7. ASSUME NEW f \in Formatters, BeginFormat(f) PROVE StorageTypeOK'
      BY <2>7 DEF BeginFormat
    <2>8. ASSUME NEW f \in Formatters, CheckNotBootDevice(f) PROVE StorageTypeOK'
      BY <2>8 DEF CheckNotBootDevice
    <2>9. ASSUME NEW f \in Formatters, FormatBlock(f) PROVE StorageTypeOK'
      <3>1. use' \in Snapshots
        BY <2>9 DEF FormatBlock, Snapshots, Uses
      <3>2. stayedBoot' \in [Formatters -> BOOLEAN]
        <4>1. CASE UNCHANGED stayedBoot
          BY <4>1
        <4>2. CASE stayedBoot' = [g \in Formatters |->
                                    stayedBoot[g] /\ (target[g] = target[f] => g = f)]
          BY <4>2
        <4>3. QED
          BY <2>9, <4>1, <4>2 DEF FormatBlock
      <3>3. formatAt' \in [Formatters -> {"new", "check", "format", "formatted", "refused"}]
        BY <2>9 DEF FormatBlock
      <3>4. UNCHANGED <<deviceChanges, pages, target, checked>>
        BY <2>9 DEF FormatBlock
      <3>5. QED
        BY <3>1, <3>2, <3>3, <3>4
    <2>10. CASE UNCHANGED storageVars
      BY <2>10 DEF storageVars
    <2>11. QED
      BY <2>1, <2>2, <2>3, <2>4, <2>5, <2>6, <2>7, <2>8, <2>9, <2>10 DEF StorageNext
  <1>3. QED
    BY <1>1, <1>2, PTL DEF StorageSpec

\* What the steps do to the histories: a tunnel with a request that failed or
\* was cut is one that was disturbed.
TunnelHistoryTyped ==
  /\ tunnelFaults \in 0 .. MaxTunnelFaults
  /\ disturbed \subseteq TunnelNames
  /\ broken \subseteq disturbed
  /\ replaced \subseteq Provisions

\* The types hold.
LEMMA TunnelTypesHold == TunnelSpec => []TunnelTypeOK
  <1> USE TunnelAssumption
  <1>1. TunnelInit => TunnelTypes /\ TunnelHistoryTyped
    BY DEF TunnelInit, TunnelTypes, TunnelHistoryTyped
  <1>2. TunnelTypes /\ TunnelHistoryTyped /\ [TunnelNext]_tunnelVars => TunnelHistoryTyped'
    <2> SUFFICES ASSUME TunnelTypes, TunnelHistoryTyped, [TunnelNext]_tunnelVars
                 PROVE  TunnelHistoryTyped'
      OBVIOUS
    <2> USE DEF TunnelHistoryTyped, tunnelHost, tunnelHistory
    <2>0. ASSUME NEW p \in Provisions, TakesEffect(p) PROVE replaced' \subseteq Provisions
      BY <2>0 DEF TunnelTypes, TakesEffect, WritesConfig, RemovesContainer, StartsContainer
    <2>1. ASSUME NEW p \in Provisions, BeginProvision(p) \/ ProvisionStep(p) \/ NameTaken(p)
          PROVE  TunnelHistoryTyped'
      BY <2>0, <2>1 DEF BeginProvision, ProvisionStep, NameTaken, TunnelTypes
    <2>2. ASSUME NEW p \in Provisions, ProvisionFails(p) PROVE TunnelHistoryTyped'
      BY <2>0, <2>2 DEF ProvisionFails, Breaks, TunnelTypes
    <2>3. CASE TunnelsCut
      BY <2>3 DEF TunnelsCut, Breaks, TunnelTypes
    <2>4. CASE (\E t \in TunnelNames : RestartContainer(t)) \/ UNCHANGED tunnelVars
      BY <2>4 DEF RestartContainer, tunnelVars
    <2>5. QED
      BY <2>1, <2>2, <2>3, <2>4 DEF TunnelNext
  <1>3. TunnelTypes /\ TunnelHistoryTyped => TunnelTypeOK
    BY DEF TunnelTypes, TunnelHistoryTyped, TunnelTypeOK, ProvisionSteps
  <1>4. QED
    BY <1>1, <1>2, <1>3, TunnelTypesStep, PTL DEF TunnelSpec

\* The process has passed the checks of boot.
Booted == reloadAt \in {"take", "getCA", "idle"} \/ (reloadAt # "down" /\ ~starting)

\* Once the process has passed boot the store holds a pair and a pool, also while
\* it reloads: that is what a reload that is refused leaves.
StoreIsFilled ==
  /\ installed \in [Files -> 0 .. MaxBundles]
  /\ Booted => installed \in [Files -> 1 .. MaxBundles]

ReloadTyped ==
  /\ reloadAt \in {"down", "readCert", "readKey", "readCA", "check", "take", "getCA", "idle"}
  /\ starting \in BOOLEAN
  /\ unsettled \in BOOLEAN
  /\ installedUnsettled \in BOOLEAN

CutTyped == cutShort \subseteq OfSeveral /\ contentsCut \subseteq OfSeveral /\ installedCut \subseteq OfSeveral

ContentsTyped ==
  /\ FilesTyped
  /\ contents \in [Files -> 0 .. MaxBundles]
  /\ offered \in [{"cert", "key"} -> 0 .. MaxBundles]
  /\ clientCAs \in 0 .. MaxBundles
  /\ fileCrashes \in 0 .. MaxFileCrashes

FileStoreInv == ReloadTyped /\ ContentsTyped /\ StoreIsFilled

\* Losing the memory leaves it typed.
LEMMA LosesMemoryType ==
  ASSUME LosesMemory
  PROVE  /\ ReloadTyped' /\ StoreIsFilled'
         /\ contents' \in [Files -> 0 .. MaxBundles]
         /\ offered' \in [{"cert", "key"} -> 0 .. MaxBundles]
         /\ clientCAs' \in 0 .. MaxBundles
  <1> USE FileStoreAssumption
  <1>1. ReloadTyped'
    BY Zenon DEF LosesMemory, ReloadTyped
  <1>2. StoreIsFilled'
    BY DEF LosesMemory, StoreIsFilled, Booted, NoBundle
  <1>3. QED
    BY <1>1, <1>2 DEF LosesMemory, NoBundle, NoPair

\* The types, and the filled store, hold in every state.
LEMMA FileStoreInvariant == FileStoreSpec => []FileStoreInv
  <1> USE FileStoreAssumption
  <1>1. FileStoreInit => FileStoreInv
    <2> SUFFICES ASSUME FileStoreInit PROVE FileStoreInv
      OBVIOUS
    <2>1. ReloadTyped
      BY DEF FileStoreInit, ReloadTyped
    <2>2. ContentsTyped /\ StoreIsFilled
      BY DEF FileStoreInit, ContentsTyped, FilesTyped, StoreIsFilled, Booted, NoBundle, NoPair
    <2>3. QED
      BY <2>1, <2>2 DEF FileStoreInv
  <1>2. FileStoreInv /\ [FileStoreNext]_fileStoreVars => FileStoreInv'
    <2> SUFFICES ASSUME FileStoreInv, [FileStoreNext]_fileStoreVars PROVE FileStoreInv'
      OBVIOUS
    <2> USE DEF FileStoreInv, process, disk
    <2>1. ASSUME NEW f \in Files, ReplaceFile(f) \/ WriteFirst(f) \/ FinishFile(f)
          PROVE  FileStoreInv'
      <3>1. FilesTyped'
        BY <2>1, ToolStep DEF ContentsTyped
      <3>2. /\ unsettled' = (unsettled \/ Reading)
            /\ UNCHANGED <<reloadAt, starting, contents, contentsCut, process, fileCrashes>>
        BY <2>1, ToolStep DEF ContentsTyped
      <3>3. ReloadTyped'
        BY <3>2 DEF ReloadTyped, Reading
      <3>4. QED
        BY <3>1, <3>2, <3>3 DEF ContentsTyped, StoreIsFilled, Booted
    <2>2. CASE StartProcess \/ RenewFromFiles
      <3>1. contents' \in [Files -> 0 .. MaxBundles]
        BY <2>2 DEF StartProcess, RenewFromFiles, BeginReload, NoBundle
      <3>2. ReloadTyped'
        BY <2>2 DEF StartProcess, RenewFromFiles, BeginReload, ReloadTyped
      <3>3. ContentsTyped'
        BY <2>2, <3>1 DEF StartProcess, RenewFromFiles, ContentsTyped, FilesTyped
      <3>4. StoreIsFilled'
        BY <2>2 DEF StartProcess, RenewFromFiles, BeginReload, StoreIsFilled, Booted
      <3>5. QED
        BY <3>2, <3>3, <3>4
    <2>3. CASE ReadFiles
      <3>1. CASE LosesMemory
        BY <2>3, <3>1, LosesMemoryType DEF ReadFiles, ContentsTyped, FilesTyped
      <3>2. CASE ~starting /\ reloadAt' = "idle" /\ UNCHANGED <<starting, contents, contentsCut, unsettled, process>>
        <4>1. reloadAt # "down"
          BY <2>3 DEF ReadFiles
        <4>2. QED
          BY <2>3, <3>2, <4>1
             DEF ReadFiles, ReloadTyped, ContentsTyped, FilesTyped, StoreIsFilled, Booted
      <3>3. CASE /\ \E f \in Files : contents' = [contents EXCEPT ![f] = file[f]]
                 /\ reloadAt' \in {"readKey", "readCA", "check"}
                 /\ UNCHANGED <<starting, unsettled, process>>
        <4>1. reloadAt # "down"
          BY <2>3 DEF ReadFiles
        <4>2. contents' \in [Files -> 0 .. MaxBundles]
          BY <3>3 DEF ContentsTyped, FilesTyped
        <4>3. ReloadTyped' /\ StoreIsFilled'
          BY <3>3, <4>1 DEF ReloadTyped, StoreIsFilled, Booted
        <4>4. QED
          BY <2>3, <3>3, <4>2, <4>3 DEF ReadFiles, ContentsTyped, FilesTyped
      <3>4. QED
        BY <2>3, <3>1, <3>2, <3>3 DEF ReadFiles, ReadFile, ReloadFails, Files
    <2>4. CASE CheckAndInstall
      <3>1. CASE PairAccepts /\ PoolAccepts
        <4>1. contents \in [Files -> 1 .. MaxBundles]
          BY <3>1 DEF PairAccepts, PoolAccepts, ContentsTyped, Files
        <4>2. StoreIsFilled' /\ ReloadTyped'
          BY <2>4, <3>1, <4>1 DEF CheckAndInstall, StoreIsFilled, ReloadTyped
        <4>3. QED
          BY <2>4, <3>1, <4>2 DEF CheckAndInstall, ContentsTyped, FilesTyped
      <3>2. CASE ~(PairAccepts /\ PoolAccepts) /\ starting
        <4>1. LosesMemory
          BY <2>4, <3>2 DEF CheckAndInstall, ReloadFails
        <4>2. QED
          BY <2>4, <4>1, LosesMemoryType DEF CheckAndInstall, ContentsTyped, FilesTyped
      <3>3. CASE ~(PairAccepts /\ PoolAccepts) /\ ~starting
        BY <2>4, <3>3 DEF CheckAndInstall, InstalledAfterRefusal, ReloadTyped, ContentsTyped,
                          FilesTyped, StoreIsFilled, Booted
      <3>4. QED
        BY <3>1, <3>2, <3>3
    <2>5. CASE TakeCertificate
      <3>1. offered' \in [{"cert", "key"} -> 0 .. MaxBundles]
        BY <2>5 DEF TakeCertificate, StoreIsFilled, Files
      <3>2. ReloadTyped' /\ StoreIsFilled'
        BY <2>5 DEF TakeCertificate, ReloadTyped, StoreIsFilled, Booted
      <3>3. QED
        BY <2>5, <3>1, <3>2 DEF TakeCertificate, ContentsTyped, FilesTyped
    <2>6. CASE TakeClientCAs
      <3>1. clientCAs' \in 0 .. MaxBundles
        BY <2>6 DEF TakeClientCAs, StoreIsFilled, Files
      <3>2. ReloadTyped' /\ StoreIsFilled'
        BY <2>6 DEF TakeClientCAs, ReloadTyped, StoreIsFilled, Booted
      <3>3. QED
        BY <2>6, <3>1, <3>2 DEF TakeClientCAs, ContentsTyped, FilesTyped
    <2>7. CASE KillProcess
      BY <2>7, LosesMemoryType DEF KillProcess, ContentsTyped, FilesTyped
    <2>8. CASE UNCHANGED fileStoreVars
      BY <2>8 DEF fileStoreVars, reloader, ReloadTyped, ContentsTyped, FilesTyped, StoreIsFilled,
                  Booted
    <2>9. QED
      BY <2>1, <2>2, <2>3, <2>4, <2>5, <2>6, <2>7, <2>8 DEF FileStoreNext
  <1>3. QED
    BY <1>1, <1>2, PTL DEF FileStoreSpec

\* What was cut is a file of several certificates.
LEMMA CutTypes == FileStoreSpec => []CutTyped
  <1>1. FileStoreInit => CutTyped
    BY DEF FileStoreInit, CutTyped
  <1>2. CutTyped /\ [FileStoreNext]_fileStoreVars => CutTyped'
    <2> SUFFICES ASSUME CutTyped, [FileStoreNext]_fileStoreVars PROVE CutTyped'
      OBVIOUS
    <2> USE DEF CutTyped, process, disk
    <2>1. ASSUME NEW f \in Files, ReplaceFile(f) \/ WriteFirst(f) \/ FinishFile(f) PROVE CutTyped'
      BY <2>1 DEF ReplaceFile, WriteFirst, FinishFile, SetFile
    <2>2. ASSUME LosesMemory, UNCHANGED disk PROVE CutTyped'
      BY <2>2 DEF LosesMemory
    <2>3. CASE StartProcess \/ RenewFromFiles
      BY <2>3 DEF StartProcess, RenewFromFiles, BeginReload
    <2>4. CASE ReadFiles
      BY <2>2, <2>4 DEF ReadFiles, ReadFile, ReloadFails
    <2>5. CASE CheckAndInstall
      BY <2>2, <2>5 DEF CheckAndInstall, ReloadFails
    <2>6. CASE TakeCertificate \/ TakeClientCAs \/ UNCHANGED fileStoreVars
      BY <2>6 DEF TakeCertificate, TakeClientCAs, fileStoreVars, reloader
    <2>7. CASE KillProcess
      BY <2>2, <2>7 DEF KillProcess
    <2>8. QED
      BY <2>1, <2>3, <2>4, <2>5, <2>6, <2>7 DEF FileStoreNext
  <1>3. QED
    BY <1>1, <1>2, PTL DEF FileStoreSpec

\* What the store has to serve with: a certificate with its own key and a CA, each
\* of some bundle, of a file that was cut after its first certificate too.
HasPairAndPool ==
  /\ installed \in [Files -> 1 .. MaxBundles]
  /\ installed["cert"] = installed["key"]

\* The types hold: for any number of replacements and deaths, whatever the tool
\* has written of each file, a process that listens has a pair and a trust pool,
\* also while it reloads and after a reload that was refused.
THEOREM StoreStaysFilled ==
  FileStoreSpec => [](FileStoreTypeOK /\ (Listening => HasPairAndPool))
  <1>1. FileStoreInv /\ CutTyped => FileStoreTypeOK
    <2> SUFFICES ASSUME FileStoreInv, CutTyped PROVE FileStoreTypeOK
      OBVIOUS
    <2>1. reloadAt \in {"take", "getCA", "idle"} => installed \in [Files -> 1 .. MaxBundles]
      BY DEF FileStoreInv, StoreIsFilled, Booted
    <2>2. QED
      BY <2>1, Zenon DEF FileStoreInv, ReloadTyped, ContentsTyped, FilesTyped, StoreIsFilled,
                         CutTyped, FileStoreTypeOK
  <1>2. FileStoreInv /\ ReloadInv => (Listening => HasPairAndPool)
    BY DEF FileStoreInv, StoreIsFilled, Booted, Listening, ReloadInv, HasPairAndPool
  <1>3. QED
    BY <1>1, <1>2, FileStoreInvariant, ReloadInvariant, CutTypes, PTL

-----------------------------------------------------------------------------
(***************************************************************************)
(* The store over a directory implements CertOffer.  A file is missing,    *)
(* unreadable, or all or the beginning of what the tool wrote last, so a   *)
(* reload reads nothing older than what any reload before it has read; and *)
(* what boot offers is what the store had when the trust pool was taken.   *)
(***************************************************************************)

NothingIsOlder ==
  /\ \A f \in Files : file[f] \in {0, written[f]}
  /\ contents["cert"] <= written["cert"]
  /\ installed["cert"] <= written["cert"]
  /\ reloadAt = "getCA" =>
       offered = [cert |-> installed["cert"], key |-> installed["key"]]

\* What was written of the certificate only grows.
LEMMA WrittenGrows ==
  ASSUME FileStoreInv, [FileStoreNext]_fileStoreVars
  PROVE  written'["cert"] \in Nat /\ written["cert"] <= written'["cert"]
  <1> USE DEF FileStoreInv, ContentsTyped, FilesTyped, Files, disk
  <1>1. ASSUME NEW f \in Files, ReplaceFile(f) PROVE written'["cert"] \in Nat /\ written["cert"] <= written'["cert"]
    BY <1>1 DEF ReplaceFile
  <1>2. CASE UNCHANGED written
    BY <1>2
  <1>3. QED
    BY <1>1, <1>2
    DEF FileStoreNext, WriteFirst, FinishFile, StartProcess, RenewFromFiles, ReadFiles, CheckAndInstall,
        TakeCertificate, TakeClientCAs, KillProcess, fileStoreVars

\* Every step keeps what was read and installed as it was written.
LEMMA OlderStep ==
  FileStoreInv /\ NothingIsOlder /\ [FileStoreNext]_fileStoreVars => NothingIsOlder'
  <1> SUFFICES ASSUME FileStoreInv, NothingIsOlder, [FileStoreNext]_fileStoreVars
               PROVE  NothingIsOlder'
    OBVIOUS
  <1> USE DEF FileStoreInv, ContentsTyped, FilesTyped, StoreIsFilled, NothingIsOlder, process, disk
  <1>0. /\ written["cert"] \in Nat /\ written'["cert"] \in Nat /\ written["cert"] <= written'["cert"]
        /\ contents["cert"] \in Nat /\ installed["cert"] \in Nat
    BY WrittenGrows DEF Files
  <1>1. ASSUME NEW f \in Files, ReplaceFile(f) PROVE NothingIsOlder'
    <2>1. /\ written' = [written EXCEPT ![f] = @ + 1]
          /\ \E bundle \in {0, written'[f]} : file' = [file EXCEPT ![f] = bundle]
          /\ UNCHANGED <<reloadAt, contents, installed, offered>>
      BY <1>1 DEF ReplaceFile, SetFile
    <2>2. \A g \in Files : file'[g] \in {0, written'[g]}
      BY <2>1
    <2>3. QED
      BY <1>0, <2>1, <2>2
  <1>2. ASSUME NEW f \in Files, WriteFirst(f) \/ FinishFile(f) PROVE NothingIsOlder'
    BY <1>2 DEF WriteFirst, FinishFile, SetFile
  <1>3. CASE StartProcess \/ RenewFromFiles
    BY <1>0, <1>3 DEF StartProcess, RenewFromFiles, BeginReload, NoBundle, Files
  <1>4. ASSUME LosesMemory, UNCHANGED disk PROVE NothingIsOlder'
    BY <1>0, <1>4 DEF LosesMemory, NoBundle, Files
  <1>5. CASE ReadFiles
    <2>1. CASE LosesMemory
      BY <1>4, <1>5, <2>1 DEF ReadFiles
    <2>2. CASE reloadAt' = "idle" /\ UNCHANGED <<contents, process>>
      BY <1>5, <2>2 DEF ReadFiles
    <2>3. CASE /\ \E f \in Files : contents' = [contents EXCEPT ![f] = file[f]]
               /\ reloadAt' \in {"readKey", "readCA", "check"}
               /\ UNCHANGED process
      <3>1. contents'["cert"] <= written["cert"]
        BY <1>0, <2>3 DEF Files
      <3>2. QED
        BY <1>5, <2>3, <3>1 DEF ReadFiles
    <2>4. QED
      BY <1>5, <2>1, <2>2, <2>3 DEF ReadFiles, ReadFile, ReloadFails, Files
  <1>6. CASE CheckAndInstall
    <2>1. CASE LosesMemory
      BY <1>4, <1>6, <2>1 DEF CheckAndInstall
    <2>2. CASE reloadAt' \in {"take", "idle"} /\ installed' \in {installed, contents}
               /\ UNCHANGED <<contents, offered>>
      BY <1>6, <2>2 DEF CheckAndInstall
    <2>3. QED
      BY <1>6, <2>1, <2>2 DEF CheckAndInstall, InstalledAfterRefusal, ReloadFails
  <1>7. CASE TakeCertificate
    BY <1>7 DEF TakeCertificate
  <1>8. CASE TakeClientCAs
    BY <1>8 DEF TakeClientCAs
  <1>9. CASE KillProcess
    BY <1>4, <1>9 DEF KillProcess
  <1>10. CASE UNCHANGED fileStoreVars
    BY <1>10 DEF fileStoreVars, reloader
  <1>11. QED
    BY <1>1, <1>2, <1>3, <1>5, <1>6, <1>7, <1>8, <1>9, <1>10 DEF FileStoreNext

\* No step brings an older certificate back.
LEMMA FileFloorStep ==
  ASSUME FileStoreInv, NothingIsOlder, [FileStoreNext]_fileStoreVars
  PROVE  /\ OldestToCome \in Nat /\ OldestToCome' \in Nat
         /\ OldestToCome <= OldestToCome'
  <1> USE DEF FileStoreInv, ContentsTyped, FilesTyped, StoreIsFilled, NothingIsOlder, process, disk
  <1>0. /\ written["cert"] \in Nat /\ written'["cert"] \in Nat /\ written["cert"] <= written'["cert"]
        /\ contents["cert"] \in Nat /\ installed["cert"] \in Nat
        /\ OldestToCome \in Nat /\ OldestToCome <= written["cert"]
        /\ file["cert"] \in {0, written["cert"]}
    BY WrittenGrows DEF Files, OldestToCome
  <1>1. ASSUME reloadAt' \in {"down", "idle", "readCert"}
        PROVE  OldestToCome' \in Nat /\ OldestToCome <= OldestToCome'
    BY <1>0, <1>1 DEF OldestToCome
  <1>2. CASE UNCHANGED <<reloadAt, contents, installed>>
    BY <1>0, <1>2 DEF OldestToCome
  <1>3. CASE ReadFiles /\ reloadAt' \in {"readKey", "readCA", "check"}
    <2>1. /\ \/ /\ reloadAt = "readCert" /\ reloadAt' = "readKey"
                /\ contents' = [contents EXCEPT !["cert"] = file["cert"]]
             \/ /\ reloadAt \in {"readKey", "readCA"} /\ reloadAt' \in {"readCA", "check"}
                /\ contents'["cert"] = contents["cert"]
          /\ UNCHANGED <<written, installed>>
      BY <1>3 DEF ReadFiles, ReadFile, ReloadFails, LosesMemory, Files
    <2>2. CASE reloadAt = "readCert"
      <3>1. contents'["cert"] = file["cert"]
        BY <2>1, <2>2 DEF Files
      <3>2. QED
        BY <1>0, <2>1, <2>2, <3>1 DEF OldestToCome
    <2>3. CASE reloadAt # "readCert"
      BY <1>0, <2>1, <2>3 DEF OldestToCome
    <2>4. QED
      BY <1>0, <2>2, <2>3
  <1>4. CASE CheckAndInstall /\ reloadAt' = "take"
    <2>1. contents["cert"] # 0 /\ installed' = contents /\ reloadAt = "check"
      BY <1>4 DEF CheckAndInstall, ReloadFails, LosesMemory, PairAccepts
    <2>2. QED
      BY <1>0, <1>4, <2>1 DEF OldestToCome
  <1>5. CASE TakeCertificate /\ reloadAt' = "getCA"
    BY <1>0, <1>5 DEF TakeCertificate, OldestToCome
  <1>6. QED
    BY <1>0, <1>1, <1>2, <1>3, <1>4, <1>5
    DEF FileStoreNext, ReplaceFile, WriteFirst, FinishFile, SetFile, StartProcess, RenewFromFiles, BeginReload,
        ReadFiles, ReadFile, CheckAndInstall, ReloadFails, LosesMemory, TakeCertificate,
        TakeClientCAs, KillProcess, fileStoreVars, reloader

\* What handshakes get changes only to a pair at the floor.
LEMMA FileOfferStep ==
  ASSUME FileStoreInv, ReloadInv, NothingIsOlder, [FileStoreNext]_fileStoreVars, Listening'
  PROVE  \/ Listening /\ offered' = offered
         \/ /\ offered'.key = offered'.cert /\ offered'.cert > 0
            /\ offered'.cert \in OldestToCome .. OldestToCome'
  <1> USE DEF Listening, process, disk
  <1>1. CASE TakeCertificate \/ TakeClientCAs
    <2>1. reloadAt \in {"take", "getCA"} /\ installed \in [Files -> 1 .. MaxBundles]
      BY <1>1 DEF TakeCertificate, TakeClientCAs, FileStoreInv, StoreIsFilled, Booted
    <2>2. offered' = [cert |-> installed["cert"], key |-> installed["key"]]
      BY <1>1 DEF TakeCertificate, TakeClientCAs, NothingIsOlder
    <2>3. OldestToCome = installed["cert"] /\ installed["cert"] = installed["key"]
          /\ installed["cert"] \in Nat /\ installed["cert"] > 0
      BY <2>1, FileStoreAssumption DEF OldestToCome, ReloadInv, Files
    <2>4. OldestToCome' \in Nat /\ OldestToCome <= OldestToCome'
      BY FileFloorStep
    <2>5. QED
      BY <2>2, <2>3, <2>4
  <1>2. CASE Listening /\ offered' = offered
    BY <1>2
  <1>3. QED
    BY <1>1, <1>2
    DEF FileStoreNext, ReplaceFile, WriteFirst, FinishFile, SetFile, StartProcess, RenewFromFiles, BeginReload,
        ReadFiles, ReadFile, CheckAndInstall, ReloadFails, LosesMemory, KillProcess,
        fileStoreVars, reloader

\* Nothing older is read, installed or taken, in every state.
LEMMA OlderInvariant == FileStoreSpec => []NothingIsOlder
  <1>1. FileStoreInit => NothingIsOlder
    BY DEF FileStoreInit, NothingIsOlder, NoBundle, Files
  <1>2. QED
    BY <1>1, OlderStep, FileStoreInvariant, PTL DEF FileStoreSpec

\* The store over a directory is a CertOffer, for any number of replacements and
\* deaths, as the self-signed store is.
THEOREM FilesAreAnOffer == FileStoreSpec => ImplementsCertOffer
  <1>1. FileStoreInit => Offers!Init
    <2> SUFFICES ASSUME FileStoreInit PROVE Offers!Init
      OBVIOUS
    <2>1. OldestToCome = 0 /\ ~Listening
      BY DEF FileStoreInit, OldestToCome, Listening, NoBundle, Files
    <2>2. QED
      BY <2>1 DEF Offers!Init, Offers!NoOffer
  <1>2. FileStoreInv /\ ReloadInv /\ NothingIsOlder /\ [FileStoreNext]_fileStoreVars
          => [Offers!Next]_<<IF Listening THEN <<offered.cert, offered.key>> ELSE <<>>, OldestToCome>>
    <2> SUFFICES ASSUME FileStoreInv, ReloadInv, NothingIsOlder, [FileStoreNext]_fileStoreVars
                 PROVE  Offers!Next
      OBVIOUS
    <2>1. Offers!Supersedes
      BY FileFloorStep DEF Offers!Supersedes
    <2>2. CASE ~Listening'
      BY <2>1, <2>2 DEF Offers!Next, Offers!Closes, Offers!NoOffer
    <2>3. CASE Listening' /\ Listening /\ offered' = offered
      BY <2>1, <2>3 DEF Offers!Next
    <2>4. CASE /\ Listening'
               /\ offered'.key = offered'.cert /\ offered'.cert > 0
               /\ offered'.cert \in OldestToCome .. OldestToCome'
      <3>1. Offers!OffersBundle
        BY <2>4 DEF Offers!OffersBundle
      <3>2. QED
        BY <2>1, <3>1 DEF Offers!Next
    <2>5. QED
      BY <2>2, <2>3, <2>4, FileOfferStep
  <1>3. QED
    BY <1>1, <1>2, FileStoreInvariant, ReloadInvariant, OlderInvariant, PTL
    DEF FileStoreSpec, ImplementsCertOffer, Offers!Spec

-----------------------------------------------------------------------------
(***************************************************************************)
(* The components together.  A step of one leaves the variables of the     *)
(* others alone, so what each promises it promises in the composition.     *)
(***************************************************************************)

\* Every behaviour of the host is one of each of its components.
THEOREM HostComposes ==
  HostSpec => /\ NetworkSpec /\ FirewallSpec /\ PodmanSpec /\ DiagnosticsSpec
              /\ ZFSPageSpec /\ StorageSpec /\ TunnelSpec /\ FileStoreSpec
  <1>1. HostInit => /\ NetworkInit /\ FirewallInit /\ PodmanInit /\ DiagnosticsInit
                    /\ ZFSPageInit /\ StorageInit /\ TunnelInit /\ FileStoreInit
    BY DEF HostInit
  <1>2. [HostNext]_<<focus, allVars>> =>
          /\ [NetworkNext]_networkVars /\ [FirewallNext]_firewallVars
          /\ [PodmanNext]_podmanVars /\ [DiagnosticsNext]_diagnosticsVars
          /\ [ZFSPageNext]_zfsPageVars /\ [StorageNext]_storageVars
          /\ [TunnelNext]_tunnelVars /\ [FileStoreNext]_fileStoreVars
    BY Zenon DEF HostNext, allVars
  <1>3. QED
    BY <1>1, <1>2, PTL DEF HostSpec, NetworkSpec, FirewallSpec, PodmanSpec, DiagnosticsSpec,
                          ZFSPageSpec, StorageSpec, TunnelSpec, FileStoreSpec

\* The state of every component has its type, for any requests, devices, pools,
\* tunnels, bundles, failures and deaths.
THEOREM HostTypes == HostSpec => []HostTypeOK
  <1>1. HostSpec => /\ []NetworkTypeOK /\ []FirewallTypeOK /\ []PodmanTypeOK
                    /\ []DiagnosticsTypeOK /\ []ZFSPageTypeOK /\ []StorageTypeOK
                    /\ []TunnelTypeOK /\ []FileStoreTypeOK
    BY HostComposes, NetworkTypes, FirewallTypes, PodmanTypes, DiagnosticsTypes, ZFSPageTypes,
       StorageTypes, TunnelTypesHold, StoreStaysFilled, PTL
  <1>2. /\ NetworkTypeOK /\ FirewallTypeOK /\ PodmanTypeOK /\ DiagnosticsTypeOK
        /\ ZFSPageTypeOK /\ StorageTypeOK /\ TunnelTypeOK /\ FileStoreTypeOK
        => HostTypeOK
    BY DEF HostTypeOK
  <1>3. QED
    BY <1>1, <1>2, PTL
=============================================================================
