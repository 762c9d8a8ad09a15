--------------------------- MODULE RequestPipeline ---------------------------
(***************************************************************************)
(* The write requests of the API, from the Dex middleware to the answer,   *)
(* over the modules that app.New registers at boot. A module turns a       *)
(* request into a script of commands, carried out outside the process: by  *)
(* a child process with a deadline, or by a service on the D-Bus           *)
(* connection, which has none. The bus may go away and come back, the      *)
(* process may be killed and is restarted.                                 *)
(*                                                                         *)
(* The TLS listener admits only callers with a verified certificate        *)
(* (CertLifecycle), so MTLSPeerIdentity always lets a request through.     *)
(***************************************************************************)
EXTENDS Routes, TLC

CONSTANTS Requests,     \* the requests, one handler each
          Calls,        \* what a request may ask, with the caller's claims
          AuthEnabled,  \* config: AuthConfig.Enabled
          AdminGroup,   \* config: AuthConfig.AdminGroup
          BusOptional,  \* config: DBusConfig.Optional
          Registered,   \* what the registry holds for each module id
          Installed,    \* modules whose program is on PATH
          MaxBoots, MaxDrops   \* bounds: starts of the process, losses of the bus

CommandModules == {"podman", "zfs", "cloudflare", "sensors"}
BusModules == Modules \ CommandModules

ASSUME ConstantsAssumption ==
    /\ \A c \in Calls : /\ c.complete \in BOOLEAN
                        /\ c.token \in BOOLEAN
                        /\ c.path \in Seq(STRING)
    /\ AuthEnabled \in BOOLEAN
    /\ BusOptional \in BOOLEAN
    /\ Registered \in [Modules -> {"own", "other", "none"}]
    /\ Installed \subseteq CommandModules
    /\ MaxBoots \in Nat /\ MaxDrops \in Nat

VARIABLES up,      \* the process runs
          mode,    \* what the last boot found each module to be
          bus,     \* the system bus: there, dead behind its socket, or gone with it
          conn,    \* the process's one connection to it
          call,    \* what each request asks
          pc,      \* where each request is
          status,  \* the status its answer carries so far
          at,      \* the command its handler is at
          done,    \* the commands of its script that were carried out
          boots, drops

process == <<up, mode, boots>>
link == <<bus, conn, drops>>
progress == <<pc, status, at, done>>
vars == <<process, link, call, progress>>

Fine == 200          Unauthorized == 401       ServerError == 500
BadRequest == 400    Forbidden == 403          Unavailable == 503
                     NotFound == 404        MethodNotAllowed == 405

----------------------------------------------------------------------------
(* What a request makes the host do. *)

Command(name, via) == [command |-> name, via |-> via, lenient |-> FALSE]

\* A command whose failure the module ignores.
Lenient(name, via) == [command |-> name, via |-> via, lenient |-> TRUE]

\* FormatBlock reads the mount points first, and takes no answer for "no".
FormatScript == << Lenient("mounts", "bus"), Command("Format", "bus") >>

\* The config file, then the old container is removed and a new one started.
ProvisionScript == << Command("config", "file"), Lenient("podman rm", "tool"),
                      Command("podman run", "tool") >>

\* A pool is created, then its compression is set.
PoolScript == << Command("zpool create", "zfs"), Command("zfs set", "zfs") >>

Script(route) ==
    CASE route.op = "FormatBlock" -> FormatScript
      [] route.op = "ProvisionWithToken" -> ProvisionScript
      [] route.op = "CreatePool" -> PoolScript
      [] route.module = "sensors" -> << Command(route.op, "state") >>
      [] route.module \in BusModules /\ route.op # "FormatBlock" ->
            << Command(route.op, "bus") >>
      [] route.module = "zfs" /\ route.op # "CreatePool" -> << Command(route.op, "zfs") >>
      [] OTHER -> << Command(route.op, "tool") >>

ScriptOf(r) == Script(RouteOf(call[r]))
Current(r) == ScriptOf(r)[at[r]]

----------------------------------------------------------------------------
(* What a module refuses before any command. *)

Verbs == {"start", "stop", "restart"}

ContainerActionAccepts(c) == Word(c) \in Verbs

\* Exec, PullImage, BuildImage, RegistryLogin and RegistryLogout.
PodmanFormAccepts(c) == c.complete

PodmanAccepts(op, c) ==
    /\ mode["podman"] = "real"
    /\ IF op = "ContainerAction" THEN ContainerActionAccepts(c) ELSE PodmanFormAccepts(c)

UnitActionAccepts(c) == mode["diagnostics"] = "real" /\ Word(c) \in Verbs

\* Any state word is accepted: all but a few mean "disable".
SetEnabledAccepts == mode["network"] = "real"
SetServiceAccepts == mode["firewall"] = "real"

\* FormatBlock looks at its form only after the mount points: see Carry.
StorageAccepts(op, c) == mode["storage"] = "real" /\ (op = "UnlockBlock" => c.complete)

ZFSAccepts(op, c) == mode["zfs"] = "real" /\ (op = "CreatePool" => c.complete)

\* RestartTunnelContainer asks for neither cloudflared nor podman.
CloudflareAccepts(op, c) ==
    op = "ProvisionWithToken" => mode["cloudflare"] = "real" /\ c.complete

\* Thresholds are kept whether or not lm-sensors is installed.
SensorsAccepts(op, c) == op = "SetThreshold" => c.complete

Accepts(route, c) ==
    CASE route.module = "podman" -> PodmanAccepts(route.op, c)
      [] route.module = "diagnostics" -> UnitActionAccepts(c)
      [] route.module = "network" -> SetEnabledAccepts
      [] route.module = "firewall" -> SetServiceAccepts
      [] route.module = "storage" -> StorageAccepts(route.op, c)
      [] route.module = "zfs" -> ZFSAccepts(route.op, c)
      [] route.module = "cloudflare" -> CloudflareAccepts(route.op, c)
      [] OTHER -> SensorsAccepts(route.op, c)

----------------------------------------------------------------------------
Init ==
    /\ up = FALSE
    /\ mode = [m \in Modules |-> "fake"]
    /\ bus = "up"
    /\ conn = "none"
    /\ call \in [Requests -> Calls]
    /\ pc = [r \in Requests |-> "new"]
    /\ status = [r \in Requests |-> Fine]
    /\ at = [r \in Requests |-> 1]
    /\ done = [r \in Requests |-> {}]
    /\ boots = 0
    /\ drops = 0

(* The process and the bus. *)

\* New probes and dials once; nothing is probed or dialed again.
Probe(m) ==
    IF m \in BusModules THEN bus = "up" ELSE m \in Installed

\* app.New: Connect only looks for the socket, and not if the bus is optional;
\* a module that cannot dial falls back to its fake. Each bus module dials by
\* itself: that the bus changes between two of the dials is left out.
Boot ==
    /\ ~up
    /\ boots < MaxBoots
    /\ bus # "absent" \/ BusOptional
    /\ up' = TRUE
    /\ boots' = boots + 1
    /\ mode' = [m \in Modules |-> IF Probe(m) THEN "real" ELSE "fake"]
    /\ conn' = IF bus = "up" THEN "open" ELSE "none"
    /\ UNCHANGED <<bus, drops, call, progress>>

\* The process ends: running handlers are cut off, and their children with
\* them; a message already on the bus may still be acted upon.
Kill ==
    /\ up
    /\ up' = FALSE
    /\ conn' = "none"
    /\ pc' = [r \in Requests |-> CASE pc[r] = "running" -> "cut"
                                   [] pc[r] = "admitted" -> "gone"
                                   [] OTHER -> pc[r]]
    /\ UNCHANGED <<mode, boots, bus, drops, call, status, at, done>>

\* The bus and its connection go away under the process.
BusDrops ==
    /\ bus = "up"
    /\ drops < MaxDrops
    /\ bus' \in {"dead", "absent"}
    /\ drops' = drops + 1
    /\ conn' = IF conn = "open" THEN "lost" ELSE conn
    /\ pc' = [r \in Requests |-> IF pc[r] = "cut" THEN "gone" ELSE pc[r]]
    /\ UNCHANGED <<process, call, status, at, done>>

BusReturns ==
    /\ bus # "up"
    /\ bus' = "up"
    /\ UNCHANGED <<process, conn, drops, call, progress>>

----------------------------------------------------------------------------
(* The handler. *)

\* Mutant: the error is sent without its status.
AnswerWithoutStatus(r, code) ==
    /\ pc' = [pc EXCEPT ![r] = "answered"]
    /\ UNCHANGED <<process, link, call, status, at, done>>

Answer(r, code) ==
    /\ pc' = [pc EXCEPT ![r] = "answered"]
    /\ status' = [status EXCEPT ![r] = code]
    /\ UNCHANGED <<process, link, call, at, done>>

\* DexAuth.Middleware: with authentication on, a request needs a token.
Arrive(r) ==
    /\ up
    /\ pc[r] = "new"
    /\ IF AuthEnabled /\ ~call[r].token
       THEN Answer(r, Unauthorized)
       ELSE /\ pc' = [pc EXCEPT ![r] = "admitted"]
            /\ UNCHANGED <<process, link, call, status, at, done>>

\* The claims a handler sees: none unless the middleware put them there.
GroupsOf(c) == IF AuthEnabled THEN c.groups ELSE {}

\* Authorize on an action that begins with "write.".
Allowed(c) == GroupsOf(c) \cap {AdminGroup, "porcelain-operators"} # {}

\* Mutant: a refusal is an error of Authorize, which is answered 500 likewise.
StatusAfterError(r) == IF Allowed(call[r]) THEN status[r] ELSE ServerError

\* authorizeWrite: a refusal writes 403 and returns the nil of SendString, so
\* the route's "if err != nil" goes on; an answer of success keeps the status.
StatusAfterPolicy(r) == IF Allowed(call[r]) THEN status[r] ELSE Forbidden

\* What Fiber answers when no write route matches: a path that has a route of
\* another method is not unknown. Routes that read are not in the table, and so
\* may be either.
Unmatched(c) ==
    IF \E i \in 1..Len(WriteRoutes) :
          Matches(WriteRoutes[i], [c EXCEPT !.method = WriteRoutes[i].method])
    THEN {MethodNotAllowed}
    ELSE {MethodNotAllowed, NotFound}

\* A write route up to the module's first command.
Handle(r) ==
    LET c == call[r]
        route == RouteOf(c)
        held == Registered[route.module]
    IN  /\ up
        /\ pc[r] = "admitted"
        /\ \/ Matching(c) = {} /\ \E code \in Unmatched(c) : Answer(r, code)
           \/ Matching(c) # {} /\ held = "none" /\ Answer(r, Unavailable)
           \/ Matching(c) # {} /\ held = "other" /\ Answer(r, ServerError)
           \/ /\ Matching(c) # {} /\ held = "own" /\ ~Accepts(route, c)
              /\ Answer(r, BadRequest)
           \/ /\ Matching(c) # {} /\ held = "own" /\ Accepts(route, c)
              /\ pc' = [pc EXCEPT ![r] = "running"]
              /\ status' = [status EXCEPT ![r] = StatusAfterPolicy(r)]
              /\ UNCHANGED <<process, link, call, at, done>>

----------------------------------------------------------------------------
(* The commands. *)

\* Mutant: one command too many.
AdvancePast(r) ==
    IF at[r] <= Len(ScriptOf(r))
    THEN /\ at' = [at EXCEPT ![r] = @ + 1]
         /\ UNCHANGED <<process, link, call, pc, status, done>>
    ELSE /\ pc' = [pc EXCEPT ![r] = "answered"]
         /\ UNCHANGED <<process, link, call, status, at, done>>

\* On to the next command of the script, or the answer.
Advance(r) ==
    IF at[r] < Len(ScriptOf(r))
    THEN /\ at' = [at EXCEPT ![r] = @ + 1]
         /\ UNCHANGED <<process, link, call, pc, status, done>>
    ELSE /\ pc' = [pc EXCEPT ![r] = "answered"]
         /\ UNCHANGED <<process, link, call, status, at, done>>

\* Mutant: every error is ignored.
FailIgnored(r) == Advance(r)

\* The module returns the error, unless it ignores this one.
Fail(r) == IF Current(r).lenient THEN Advance(r) ELSE Answer(r, BadRequest)

Reachable(r) == Current(r).via = "bus" => conn = "open"

\* The command takes effect on the host. Format with blanks is never sent.
Carry(r) ==
    /\ \/ pc[r] = "running" /\ Reachable(r)
       \/ pc[r] = "cut" /\ Current(r).via = "bus"
    /\ at[r] \notin done[r]
    /\ Current(r).command = "Format" => call[r].complete
    /\ done' = [done EXCEPT ![r] = @ \cup {at[r]}]
    /\ UNCHANGED <<process, link, call, pc, status, at>>

\* The child exits with 0, or the service replies.
Succeed(r) ==
    /\ pc[r] = "running"
    /\ at[r] \in done[r]
    /\ Reachable(r)
    /\ Advance(r)

\* CheckNotBootDevice finds the device mounted as a system directory.
RefuseBootDevice(r) ==
    /\ pc[r] = "running"
    /\ Current(r).command = "mounts"
    /\ at[r] \in done[r]
    /\ Reachable(r)
    /\ Answer(r, BadRequest)

\* The child exits with another code, whatever it did; a service that replies
\* with an error did nothing; a threshold always changes.
CommandFails(r) ==
    /\ pc[r] = "running"
    /\ Reachable(r)
    /\ Current(r).via # "state"
    /\ Current(r).via = "bus" => at[r] \notin done[r]
    /\ Fail(r)

\* Mutant: only the ZFS commands have one.
DeadlineOfZFS(r) ==
    /\ pc[r] = "running"
    /\ Current(r).via = "zfs"
    /\ Fail(r)

\* The context's timeout kills the child, whatever it did.
Deadline(r) ==
    /\ pc[r] = "running"
    /\ Current(r).via \in {"tool", "zfs"}
    /\ Fail(r)

\* godbus fails the pending call when its connection closes.
ConnectionGone(r) ==
    /\ pc[r] = "running"
    /\ Current(r).via = "bus"
    /\ conn # "open"
    /\ Fail(r)

Next ==
    \/ Boot
    \/ Kill
    \/ BusDrops
    \/ BusReturns
    \/ \E r \in Requests :
          \/ Arrive(r)
          \/ Handle(r)
          \/ Carry(r)
          \/ Succeed(r)
          \/ RefuseBootDevice(r)
          \/ CommandFails(r)
          \/ Deadline(r)
          \/ ConnectionGone(r)

Spec == Init /\ [][Next]_vars

\* Handlers run and local writes end; a child has a deadline; a call on a
\* connection that is gone fails. Nothing makes a service on the bus reply,
\* and a ZFS command may wait for the task mutex for ever (ZFSTasks).
Own(r) == pc[r] = "running" /\ Current(r).via \in {"file", "state"}
Child(r) == pc[r] = "running" /\ Current(r).via = "tool"

Bounded(r) ==
    \/ Handle(r)
    \/ Own(r) /\ (Carry(r) \/ Succeed(r))
    \/ Child(r) /\ Deadline(r)
    \/ ConnectionGone(r)

FairSpec == Spec /\ \A r \in Requests : WF_vars(Bounded(r))

----------------------------------------------------------------------------
\* Types, and a handler is at a command of its own script.
TypeOK ==
    /\ up \in BOOLEAN
    /\ bus \in {"up", "dead", "absent"}
    /\ mode \in [Modules -> {"real", "fake"}]
    /\ conn \in {"none", "open", "lost"}
    /\ call \in [Requests -> Calls]
    /\ pc \in [Requests -> {"new", "admitted", "running", "answered", "cut", "gone"}]
    /\ status \in [Requests -> {Fine, BadRequest, Unauthorized, Forbidden, NotFound,
                                MethodNotAllowed, ServerError, Unavailable}]
    /\ at \in [Requests -> Nat \ {0}]
    /\ done \in [Requests -> SUBSET Nat]
    /\ boots \in Nat /\ drops \in Nat
    /\ \A r \in Requests : pc[r] \in {"running", "cut"} => at[r] <= Len(ScriptOf(r))

Answered(r, codes) == pc[r] = "answered" /\ status[r] \in codes

\* A 200 (the "status: ok" of every route) is only sent when every command the
\* module does not ignore was carried out, whatever failed, timed out or went
\* away with the bus in between.
OkMeansDone ==
    \A r \in Requests : Answered(r, {Fine}) =>
        \A i \in 1..Len(ScriptOf(r)) : ScriptOf(r)[i].lenient \/ i \in done[r]

\* A request stopped by the middleware, the router or the registry has had no
\* effect on the host.
EarlyAnswersDoNothing ==
    \A r \in Requests :
        Answered(r, {Unauthorized, NotFound, MethodNotAllowed, ServerError, Unavailable})
            => done[r] = {}

\* The commands of one request take effect in order, each only after those
\* before it did, the ignored ones apart: no compression is set on a pool that
\* was not created, no tunnel runs without its config; also when the process
\* is killed or the bus lost.
StepsInOrder ==
    \A r \in Requests : \A i \in done[r] : \A j \in 1..(i - 1) :
        ScriptOf(r)[j].lenient \/ j \in done[r]

\* Every request is answered, or cut off with the process, or waits for a
\* service on the bus or a ZFS command: the only calls without a bound.
WaitsUnbounded(r) ==
    /\ pc[r] = "running"
    /\ Current(r).via = "zfs" \/ (Current(r).via = "bus" /\ conn = "open")

RequestsAnswer ==
    \A r \in Requests :
        (pc[r] \in {"admitted", "running"}) ~> (pc[r] \in {"answered", "cut", "gone"}
                                                 \/ WaitsUnbounded(r))

----------------------------------------------------------------------------
\* What the documentation says and the code does not do.

\* src/README.md:291, "If Denied: return 403 Forbidden with reason", against
\* "If Allowed: proceed": a request answered 403 has had no effect.
RefusedDoesNothing ==
    \A r \in Requests : Answered(r, {Forbidden}) => done[r] = {}

IsExec(c) ==
    /\ c.method = "POST"
    /\ Len(c.path) = 4
    /\ SubSeq(c.path, 1, 2) = <<"podman", "containers">>
    /\ c.path[4] = "exec"

\* src/README.md:437, "lightweight exec" is "exposed": an allowed and complete
\* exec request that podman can serve is not turned away before podman ran.
ExecIsServed ==
    \A r \in Requests :
        /\ Answered(r, {BadRequest})
        /\ IsExec(call[r]) /\ call[r].complete /\ Allowed(call[r])
        /\ Registered["podman"] = "own" /\ "podman" \in Installed
        => RouteOf(call[r]).op = "Exec"
=============================================================================
