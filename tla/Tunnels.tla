------------------------------- MODULE Tunnels -------------------------------
(***************************************************************************)
(* Cloudflare tunnels (modules/cloudflare): ProvisionWithToken writes the  *)
(* tunnel's config.yml, removes the container of the tunnel and runs a new *)
(* one; RestartTunnelContainer restarts it.  The names two requests give   *)
(* may be one after sanitizeTunnelName.  podman keeps container names      *)
(* unique, and restarts a container that ends (--restart always); what a   *)
(* container runs is the config it finds when it starts.                   *)
(***************************************************************************)
EXTENDS Naturals, Sequences

CONSTANTS Provisions, TunnelNames,
          Nobody,          \* no request: there is no file, no container
          HalfWritten,     \* what WriteFile leaves between truncation and write
          MaxTunnelFaults  \* bound: commands that fail, and deaths of the process

ASSUME TunnelAssumption ==
  /\ Nobody \notin Provisions /\ HalfWritten \notin Provisions /\ Nobody # HalfWritten
  /\ MaxTunnelFaults \in Nat

VARIABLES
  tunnelOf,     \* tunnelOf[p]: the sanitized name of the tunnel p provisions
  provisionAt,  \* the step p is at, 0 while it has not begun
  outcome,      \* "none" while p runs; then what it answered, or "cut" if it could not
  config,       \* config[t]: the request that wrote the tunnel's config.yml
  owner,        \* owner[t]: the request that ran the tunnel's container
  running,      \* running[t]: the config the container was started with
  tunnelFaults,
  disturbed,    \* history: the tunnels with a request that failed, was cut, or overlapped
  broken,       \* history: the tunnels with a command that failed or was cut
  replaced      \* history: the requests whose container was removed

tunnelHost == <<config, owner, running>>
tunnelHistory == <<disturbed, broken, replaced>>
tunnelVars == <<tunnelOf, provisionAt, outcome, tunnelHost, tunnelFaults, tunnelHistory>>

\* Mutant: the container is started before its config is written.
StepsConfigLast == <<"rm", "run", "truncate", "write">>

\* Mutant: the old container is removed after the new one was started.
StepsRemoveLast == <<"truncate", "write", "run", "rm">>

\* ProvisionWithToken, after it has looked at its form.
ProvisionSteps == <<"truncate", "write", "rm", "run">>

TunnelTypeOK ==
  /\ tunnelOf \in [Provisions -> TunnelNames]
  /\ provisionAt \in [Provisions -> 0 .. Len(ProvisionSteps)]
  /\ outcome \in [Provisions -> {"none", "ok", "error", "cut"}]
  /\ config \in [TunnelNames -> Provisions \cup {Nobody, HalfWritten}]
  /\ owner \in [TunnelNames -> Provisions \cup {Nobody}]
  /\ running \in [TunnelNames -> Provisions \cup {Nobody, HalfWritten}]
  /\ tunnelFaults \in 0 .. MaxTunnelFaults
  /\ disturbed \subseteq TunnelNames
  /\ broken \subseteq disturbed
  /\ replaced \subseteq Provisions

TunnelInit ==
  /\ tunnelOf \in [Provisions -> TunnelNames]
  /\ provisionAt = [p \in Provisions |-> 0]
  /\ outcome = [p \in Provisions |-> "none"]
  /\ config = [t \in TunnelNames |-> Nobody]
  /\ owner = [t \in TunnelNames |-> Nobody]
  /\ running = [t \in TunnelNames |-> Nobody]
  /\ tunnelFaults = 0
  /\ disturbed = {}
  /\ broken = {}
  /\ replaced = {}

InProgress(p) == provisionAt[p] > 0 /\ outcome[p] = "none"
AtRest(t) == \A p \in Provisions : tunnelOf[p] = t => ~InProgress(p)
StepOf(p) == ProvisionSteps[provisionAt[p]]

BeginProvision(p) ==
  /\ provisionAt[p] = 0
  /\ provisionAt' = [provisionAt EXCEPT ![p] = 1]
  /\ disturbed' = IF AtRest(tunnelOf[p]) THEN disturbed ELSE disturbed \cup {tunnelOf[p]}
  /\ UNCHANGED <<tunnelOf, outcome, tunnelHost, tunnelFaults, broken, replaced>>

-----------------------------------------------------------------------------
(* What a step does to the host. *)

WritesConfig(p) ==
  /\ config' = [config EXCEPT ![tunnelOf[p]] = IF StepOf(p) = "write" THEN p ELSE HalfWritten]
  /\ UNCHANGED <<owner, running, replaced>>

\* podman rm -f, which is content if there is no such container.
RemovesContainer(p) ==
  LET t == tunnelOf[p]
  IN  /\ replaced' = replaced \cup ({owner[t]} \ {Nobody})
      /\ owner' = [owner EXCEPT ![t] = Nobody]
      /\ running' = [running EXCEPT ![t] = Nobody]
      /\ UNCHANGED config

NameIsFree(p) == owner[tunnelOf[p]] = Nobody

\* podman run.
StartsContainer(p) ==
  LET t == tunnelOf[p]
  IN  /\ NameIsFree(p)
      /\ owner' = [owner EXCEPT ![t] = p]
      /\ running' = [running EXCEPT ![t] = config[t]]
      /\ UNCHANGED <<config, replaced>>

TakesEffect(p) ==
  \/ StepOf(p) \in {"truncate", "write"} /\ WritesConfig(p)
  \/ StepOf(p) = "rm" /\ RemovesContainer(p)
  \/ StepOf(p) = "run" /\ StartsContainer(p)

-----------------------------------------------------------------------------
(* The request. *)

\* The next step, or the answer.
ProvisionGoesOn(p) ==
  IF provisionAt[p] < Len(ProvisionSteps)
  THEN /\ provisionAt' = [provisionAt EXCEPT ![p] = @ + 1]
       /\ UNCHANGED outcome
  ELSE /\ outcome' = [outcome EXCEPT ![p] = "ok"]
       /\ UNCHANGED provisionAt

ProvisionStep(p) ==
  /\ InProgress(p)
  /\ TakesEffect(p)
  /\ ProvisionGoesOn(p)
  /\ UNCHANGED <<tunnelOf, tunnelFaults, disturbed, broken>>

\* Mutant: the result of podman run is not looked at.
AfterConflictIgnored == "ok"

AfterConflict == "error"

\* podman run finds the name taken.
NameTaken(p) ==
  /\ InProgress(p)
  /\ StepOf(p) = "run"
  /\ ~NameIsFree(p)
  /\ outcome' = [outcome EXCEPT ![p] = AfterConflict]
  /\ UNCHANGED <<tunnelOf, provisionAt, tunnelHost, tunnelFaults, tunnelHistory>>

Breaks(ts) ==
  /\ tunnelFaults < MaxTunnelFaults
  /\ tunnelFaults' = tunnelFaults + 1
  /\ disturbed' = disturbed \cup ts
  /\ broken' = broken \cup ts

\* A write or command fails, or is killed at its deadline, before or after it
\* took effect.  The error of podman rm is dropped.
ProvisionFails(p) ==
  /\ InProgress(p)
  /\ Breaks({tunnelOf[p]})
  /\ TakesEffect(p) \/ UNCHANGED <<tunnelHost, replaced>>
  /\ IF StepOf(p) = "rm"
     THEN ProvisionGoesOn(p)
     ELSE /\ outcome' = [outcome EXCEPT ![p] = "error"]
          /\ UNCHANGED provisionAt
  /\ UNCHANGED tunnelOf

\* The process is killed.
TunnelsCut ==
  LET cut == {p \in Provisions : InProgress(p)}
  IN  /\ cut # {}
      /\ outcome' = [p \in Provisions |-> IF p \in cut THEN "cut" ELSE outcome[p]]
      /\ Breaks({tunnelOf[p] : p \in cut})
      /\ UNCHANGED <<tunnelOf, provisionAt, tunnelHost, replaced>>

\* RestartTunnelContainer, or podman when the container has ended.
RestartContainer(t) ==
  /\ owner[t] # Nobody
  /\ running' = [running EXCEPT ![t] = config[t]]
  /\ UNCHANGED <<tunnelOf, provisionAt, outcome, config, owner, tunnelFaults, tunnelHistory>>

TunnelNext ==
  \/ \E p \in Provisions :
       BeginProvision(p) \/ ProvisionStep(p) \/ NameTaken(p) \/ ProvisionFails(p)
  \/ TunnelsCut
  \/ \E t \in TunnelNames : RestartContainer(t)

TunnelSpec == TunnelInit /\ [][TunnelNext]_tunnelVars

-----------------------------------------------------------------------------
\* However the requests for a tunnel interleave, once they have all ended and no
\* command has failed, the tunnel has a container: the last one removed is
\* followed by a run.
TunnelSurvives ==
  \A t \in TunnelNames :
    /\ AtRest(t) /\ t \notin broken
    /\ \E p \in Provisions : tunnelOf[p] = t /\ provisionAt[p] > 0
    => owner[t] # Nobody

\* A request that was answered "ok" has started the tunnel's container, and only
\* another request for the tunnel has removed it since.
OkMeansStarted ==
  \A p \in Provisions :
    outcome[p] = "ok" => owner[tunnelOf[p]] = p \/ p \in replaced

\* Requests for a tunnel that come one after the other, and do not fail, leave it
\* running the config that belongs to the token it was started with, also after
\* restarts; those that overlap share the one config file.
TunnelRunsItsOwnConfig ==
  \A t \in TunnelNames \ disturbed :
    AtRest(t) /\ owner[t] # Nobody => running[t] = owner[t]
=============================================================================
