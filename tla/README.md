# Porcelain in TLA+

Models, model-checking runs and machine-checked proofs of
[porcelain](../src/README.md), a Go daemon that administers a Fedora CoreOS host
through a web dashboard. Paths below are relative to
`src/porcelain/internal/` unless they start with `src/`.

1. [The system](#the-system)
2. [Modules](#modules)
3. [Runs](#runs)
4. [Proofs](#proofs)
5. [Findings](#findings)
6. [What is not modelled](#what-is-not-modelled)
7. [Plan](#plan)

## The system

systemd holds the socket and starts the daemon (`Restart=on-failure`).
`app.New` builds everything in order: the D-Bus connection, the secret store,
the certificate store over it, the TLS manager, the Dex middleware, the registry
of eight feature modules, the HTTP server. After that the process only serves
requests: one goroutine per request, one more per open event stream, and,
if somebody starts it, the certificate renewal loop. There is no database. What
survives a restart is the host itself, the encrypted secrets of systemd-creds,
and one JSON file of the sensors module.

| Component | State it keeps | Operations | What makes it correct |
| --- | --- | --- | --- |
| ZFS tracked operations (`modules/zfs/zfs.go`) | the last 200 task rows, one mutex | five write operations (start row, host command, finish row); `RecentTasks` for the page, the API and the stream | every operation finds and settles its own row and no other, no row is left running, listings return and are consistent |
| ZFS inventory (same file) | none | the page: a command for the pools, two or three for each; recent events | what a row shows was so during the request |
| Certificate lifecycle (`certmanager/lifecycle.go`, `secrets/selfsigned.go`) | the serving certificate; two secrets per bundle | load or bootstrap, renew, handshake, trust pool | a handshake gets a matching, unexpired pair, whatever a kill or a failed write left in the store |
| Secret stores (`secrets/memory.go`, `secrets/systemd_creds.go`) | secrets by path; watchers | Get, Put, Delete, List, Watch | a map only Put and Delete change; watchers see every change in order and end without harm |
| Filesystem certificate store (`secrets/filesystem.go`) | a pair and a CA pool, from three files | load, reload | a replacement of the files never tears the pair, and a refused reload changes nothing |
| Sensors (`modules/sensors/sensors.go`) | thresholds and history, in memory and in a file | snapshot, set and clear threshold, history, load and save | what is acknowledged survives a restart; history in time order |
| Storage and UDisks2 (`modules/storage`, `dbus/udisks2`) | a cached inventory | snapshot, format, unlock | a boot device is never formatted; a failed fetch shows the last snapshot |
| Cloudflare (`modules/cloudflare`) | a config file and a container per tunnel, on the host | provision, restart, logs | a tunnel ends with a container, and it runs its own config |
| Podman, diagnostics, network, firewall | none (mode probed at boot) | wrappers of host commands and D-Bus calls; pages made of several reads | the answer tells what the host did; a page shows what was so while it was made |
| D-Bus (`dbus/connection.go`) and module registry (`modules/module.go`) | one shared connection; a map of modules | connect, dial, register, get, close | modules on a dead or absent bus degrade and do not fail the process |
| Request pipeline (`server/router.go`, `server/middleware`, `auth`, `policy`) | per-request locals | peer identity, claims, policy, route, module | the status of an answer and its effect on the host agree |
| Event stream (`server/router.go:530`) | a ticker per stream | render and push events and tasks every 5 s | a stream ends when its client goes, and never holds others up |
| Boot and listener (`app`, `server/socket_activation.go`, the unit file) | the listener | build, adopt the socket, serve | boot comes to serving or exits so that systemd restarts it |

How they interact: route handlers call modules directly (no queue); modules of
one kind share the mutex of the module only; handshakes read the TLS manager
through a callback of `tls.Config`; the manager calls the certificate store,
which calls the secret store; storage, network, firewall and diagnostics share
one bus connection; the event stream calls `RecentTasks` every five seconds for
as long as a client listens.

What is hard: the ZFS list is written by concurrent requests around commands
that take minutes, and its listing holds the mutex while it runs commands; a
certificate bundle is two separate writes and the process can die between them;
an in-memory watcher's channel is closed by a goroutine that holds no lock; the
sensors' file is rewritten in place; storage checks a device and formats it
later; a provision is several commands any of which may fail; a page is several
reads of a host that changes. The list with lines is under `hazards` in `PROJECT.json`.

## Modules

| Module | Models | Code |
| --- | --- | --- |
| `ZFSTasks` | task list, write operations, `RecentTasks` | `modules/zfs/zfs.go` |
| `TaskLog` | abstract: a bounded log whose rows are settled once | what the list promises |
| `CertLifecycle` | TLS manager, certificate store, systemd-creds or memory store, boot, restart | `certmanager/lifecycle.go`, `secrets/selfsigned.go`, `secrets/systemd_creds.go`, `server/server.go` |
| `CertOffer` | abstract: what TLS clients are offered, by either certificate store | what the certificate stores promise |
| `MemoryStore` | in-memory store with watchers and buffers | `secrets/memory.go` |
| `SecretMap` | abstract: a map that only Put and Delete change | what a secret store promises |
| `FileStore` | the certificate store over a directory, below the TLS manager | `secrets/filesystem.go` |
| `EventStream` | streams of the ZFS page, over `ZFSTasks` | `server/router.go` |
| `NetworkPage`, `FirewallPage`, `PodmanPage`, `Diagnostics`, `ZFSPage` | a page request and the host it reads | the module, its D-Bus client, `server/router.go` |
| `Storage` | snapshots and their cache; format against changing mounts | `modules/storage`, `dbus/udisks2` |
| `Tunnels` | overlapping provisions of tunnels | `modules/cloudflare/cloudflare.go` |
| `Sensors` | thresholds, history, their file, kill and restart | `modules/sensors/sensors.go` |
| `Routes` | the write routes in the order of registration, and which one a path finds | `server/router.go` |
| `RequestPipeline` | boot, bus, authentication, policy, registry, modules and their commands, for every write route | `app/app.go`, `auth/dex.go`, `policy/authorizer.go`, `server/router.go`, the modules, `dbus` |
| `MCHost` | the eight modules on the host, one at a time | |
| other `MC...` | constants and symmetry for TLC | |
| `ZFSTasksProofs`, `CertLifecycleProofs`, `RequestPipelineProofs`, `SensorsProofs`, `MemoryStoreProofs` | theorems about one module | |
| `EventStreamProofs` | theorems about the streams, over those of `ZFSTasksProofs` | |
| `PagesProofs`, `HostProofs` | theorems about the pages; about formats, provisions, reloads and the composition `MCHost` | |

A definition marked "Mutant" is not part of the model: it is a plausible bug in
the definition it precedes, kept to show that a property would catch it.

### ZFSTasks

`tasks` and `mu` are the fields of `zfs.Module`. A writer goes through
`Start` (taskStart reads the clock), `Track` (its critical section), the host
command (`CommandSucceeds` or `CommandFails`; `Compress` is create-pool's second
command), and `UpdateTask`. A command that fails may have taken effect, since a
timeout kills it at any point. A lister goes through `List` (lock and copy), one
`Leave` or `Finished` per row, and `Return` (unlock). `host` is what ZFS knows
and `outcome` is a history of how commands ended.

Critical sections that cannot block are one step. `RecentTasks` can, so it is
several, and `mu` says who holds the mutex. `Finished` leads to `UpdateTask` by a
goroutine that holds `mu` itself: the guard of the code (`mu` free) is never true
for it.

The id of a task is the wall-clock reading in nanoseconds. `ClockSteps` says how
far the clock may move between two readings; with `0` in it, or a negative step,
two operations can share an id. The properties of rows need a clock that advances at
every reading: the run has one, and the theorems state it as a hypothesis
(`ClockAdvances`). A host with a coarse or stepping clock does not have it: that is
a recorded hazard, not a checked property.

Left out: messages, times, percentage and ETA of a row; validation failures,
which return before the list is touched.

### CertLifecycle

A bundle is a number. `cert` and `key` are the two secrets, `served` the
certificate and key in `TLSManager.cert`, `pool` the trust pool of
`tls.Config`. `pc` and `round` are the place of the one goroutine that runs the
manager: `ReadCert`, `ReadKey` (GetCertificate), `Generate`, `PutCert`, `PutKey`
(Issue), `GetCA` (server.New). `Crash` kills the process at any step; a `Put` that
fails or is interrupted leaves the old secret, the new one, or one that does not
decrypt. `Persistent` chooses systemd-creds or the memory store; only the former
fails. `LoopStarted` says whether the program starts the renewal loop; it does
not, at this commit.

Time is in days; a round takes no time at that scale, so a day passes only while
the process is down or at rest with no tick due.

### MemoryStore

`heap` holds buffers, so that sharing one is visible: `values`, the watchers'
`channel`s and the callers' `hands` refer to buffers, and callers may write to
what they hold. A Put's data is the number of the Put. `Reached` are the
watchers Put sends to before it meets a closed channel, which panics and ends
the process (nothing in the program recovers).

### Sensors

A request goes `idle` -> `read` (`ReadSensors`: lm-sensors has answered and the clock is
read) -> `save` (`Apply`, under the mutex `mu`) or directly to `save` (`SetThreshold`,
`ClearThreshold`), then through `saveStateLocked`: `SkipSave`, `OpenFails`, or
`Truncate` and `Write` or `WriteFails`. `file` is whole or broken; a broken one loads
nothing. `saved` is a history variable: the last attempt to write went through.
Values of readings, and History, which only reads, are left out. That concurrent
snapshots append out of time order is in the model; no run asks for the order, since it
does not hold, and `OneSnapshotKeepsOrder` proves what is left of it. The clock of the
model only goes on, as a wall clock does that nobody sets back.

### RequestPipeline

One handler per member of `Requests`, each with a call of `Calls`: method, path,
whether the form is complete, whether there is a token, and its groups. A handler
goes `new` -> `admitted` (`Arrive`: the Dex middleware) -> `running` (`Handle`: route,
policy, registry, the module's own checks) -> `answered`. `status` is the status
the answer carries so far, which is not the same as having answered: that is how
`authorizeWrite` goes wrong.

What a module does is a `Script` of commands with the way each is carried out: a
`tool` (a child process with a deadline), `zfs` (the same behind the task mutex),
the `bus` (a service, no deadline), a `file` or the module's own `state`.
`Carry` is the effect on the host, `Succeed`, `CommandFails`, `Deadline` and
`ConnectionGone` are what the handler sees of it; a child that fails or is killed
may have had its effect. A failure that the code ignores is `lenient`.

`mode` and `conn` are set by `Boot` and not by any request. `bus` is `dead` when its
socket is there and nobody listens, which boot takes for present. `Kill` cuts
handlers off; what they sent on the bus may still happen (`cut`), until the bus
goes too.

`Registered` says what the registry holds for each id. The program registers all
eight modules; the other values make the answers 500 and 503 reachable, which
are in the code and which nothing else would exercise.

A path that no write route matches is answered 405 if another method has it, which a
reading route may, and 404 otherwise (`Unmatched`).

Left out: read routes, which have no effect; the peer identity, which no rule
reads; what the commands do to each other (`ZFSTasks`, `Storage`, `Tunnels`). The four
bus modules dial one after the other (`app/app.go:79-85`) and the model finds the bus
once for all of them: a process in which some are real and others fake is left out. A
request depends on the mode of its own module and on the connection, and no property
relates two modules.

### EventStream

A stream is one more lister of `ZFSTasks`: `RenderEvents`, `SendEvents`, the listing
(`StreamList` to `StreamReturn`, or `RenderNone`), `SendTasks`, then `Tick` after five
seconds. `client` is the other end. A send blocks on a client that has stalled,
succeeds for one that has just gone (TCP does not know yet), and fails after
`Reset`; nothing else ends a stream, since its context is the background and
`requestCtx.Done` is closed by a shutdown that nobody calls.

### FileStore

Files and bundles as in `CertLifecycle`. A tool replaces the files in any order,
by rename or in place, and begins the next bundle when it has finished one. A file
that is missing or of which nothing parses yet is 0. The chain and the CA file may
hold several certificates, and the checks of the code are content with the first
(`X509KeyPair`, `AppendCertsFromPEM`): a file that has its first certificate and lacks
others is of its bundle and in `cutShort`, passes, and is installed. `reloadAt` is the
place of the goroutine that loads: boot, then Renew. `unsettled` is a history variable:
the files were not one whole bundle, or changed, while it read.

### The pages

`NetworkPage`, `FirewallPage`, `PodmanPage`, `ZFSPage` and `Diagnostics` have the same
form. One part of the state is the host (`link`, `enabled`, `imageOf`, `scan`,
`unitState`), which changes between any two calls of a request, at most `Max...Changes`
times per request; the other is the request and what its page will show. Requests
do not share anything, so one is enough; opening the page again starts the next.
The dashboard, the diagnostics page and the bundle are three uses of one `Capture`: the
latter two take all of it, the dashboard its first services (`DashboardRows`, 8 in the
code) and no journal, so `FailuresAreExplained` is about the latter two.
History variables record what was so at some moment of the request, or all
through it. Every call may fail, and what the code does then is in the model: a row
that stays bare, an error in place of the page, a second command.

### Storage

`Fetch`, `Store` and `FallBack` are the steps of `Module.Snapshot`, between which
other requests run. `CheckNotBootDevice` and `FormatBlock` are two calls of UDisks2;
the check passes when the mount points cannot be read (`client_write_linux.go:35`).
A device that is mounted after the check is left to UDisks2.

### Tunnels

`ProvisionSteps` are the steps of `ProvisionWithToken` after its validation. `tunnelOf`
is the name after `sanitizeTunnelName`, so two requests may mean one tunnel. podman
keeps names unique and starts a container with the config it then finds; a command
may fail or be killed before or after its effect, and `TunnelsCut` kills all
requests at once.

## Runs

| Run | Instance | Shows |
| --- | --- | --- |
| `zfs_tasks` | 2 writers, 2 listers, 1 pool, cap 2, 3 operations | types, the bookkeeping properties, listings match the list, the list refines `TaskLog` |
| `zfs_return` | 2 writers, 2 listers of which one is a stream, cap 1, 2 operations, no scrubs, fair | operations and listings return, also while a client of a stream stalls; the stream of a client that has gone ends |
| `zfs_hang` | 1 writer, 1 lister, all operations, fair | violated: a listing that finds a scrub finished never returns |
| `cert_restart` | on disk, loop, lifetime 2, 3 days, 2 faults, 2 kills, fair | handshakes refine `CertOffer` (a pair, and none older than before), store and manager agree, good bundles stay, nothing expired is served while nothing fails, the process always comes back |
| `cert_expired` | on disk, no loop, 1 kill | violated: a boot installs an expired certificate |
| `memory_store` | 2 paths, 2 watchers, 2 Puts, 1 Get | the store is a map, updates arrive in order, whatever callers write to their buffers |
| `memory_panic` | 1 path, 2 watchers | violated: Put after a watcher has gone panics |
| `requests` | 2 handlers, every way to carry out a command, a module missing and one under another's id, 2 boots, 1 loss of the bus, fair | types, a 200 means done, commands in order, early answers do nothing, every request is answered unless it waits for the bus or ZFS |
| `requests_refused` | policy on | violated: a write answered 403 is carried out |
| `requests_exec` | an exec request | violated: it reaches the route of container actions |
| `sensors` | 2 requests, 2 readings, cap 1, 1 fault, 1 kill, fair | types and cap, what is in memory is on disk once a save went through, requests end |
| `host` | 2 interfaces; 2 zones, 1 service, 1 port; 2 containers, 2 images; 2 units, a tail of 2 lines, 1 row of the dashboard; 2 pools, 1 dataset; 1 device, 2 viewers, 1 format; 3 provisions, 2 names, 1 fault; 3 bundles, 1 kill; 2 or 3 changes of the host per request | pages show what was so while they were made, formats spare boot devices, tunnels survive overlapping provisions, reloads keep pairs whole |

Why the bounds are enough. A cap of two rows and three operations overflow the
list while operations are running; two writers and two listers give every pair
that can interfere, since each interaction is between one row, its writer and one
lister. Two faults and two kills let a repair fail and be repaired again; three
days pass a lifetime of two. Two Puts fill a channel and overflow it. Requests of the
pipeline meet only in the process and the bus, so two of them show what a kill or a
loss does to handlers in different places; two boots and one loss give each order of
the two. One fault and one kill of the sensors module leave a broken file that a later
save must mend. In `host` the modules share no state and no step, so one moves
at a time and their state spaces add up; two changes of the host fall before and
after any call, two of each thing let one change while the other is read; three
provisions of two names give a pair that overlaps and a third that comes before,
between or after. The proofs below remove the bounds for the safety properties they
state.

`CHECK_DEADLOCK FALSE`: in `zfs_tasks` the system really stops (the hang, and the
end of the bounded clock); the certificate models end with their days, the
store with its Puts, the pipeline with its requests and boots, and `host` with the
requests of the module that was chosen.

Fairness. `ZFSTasks!FairSpec`: a runnable goroutine runs (weak fairness of each
unlocked step), a command ends because each has a deadline, and `sync.Mutex` serves
a starving waiter, which is strong fairness of each critical section. Requests
have none. `EventStream!StreamFairSpec` adds that a stream runs whenever it can and
gets the mutex like any lister, and that TCP learns at last of a client that has gone;
nobody has to open a stream, read from it or leave. `CertLifecycle!FairSpec`: weak fairness of the manager and of the
restart by systemd; kills, faults and days have none, and are finite in number.
`RequestPipeline!FairSpec`: a handler runs and local writes end; a child process ends
by its deadline (this assumes that no grandchild keeps its output pipe open, which
`CombinedOutput` would wait for); godbus fails pending calls when the connection
closes. `Sensors!FairSpec`: saves run, and
the mutex serves a starving snapshot. Services on the bus and ZFS commands have none: no deadline reaches the
former, and the latter may hang (`zfs_hang`).

## Proofs

TLAPS checks the eight proof modules. They assume nothing but the named assumption of
each component about its constants.

`ZFSTasksProofs`. `TypeInv` adds to the types that a listing holds the mutex from
copy to return (`Ownership`); it is what makes listings match the list, and why
the lister's `UpdateTask` never happens. `RowsTellTheOutcome` is inductive with
`ReportsAreTrue`, that a writer about to report has recorded that outcome. Both go by
the id and hold with any clock (`OutcomesById`), but say of a row what became of *its*
operation only if ids differ; so `OutcomesAreTold` supposes `ClockAdvances` and states
`IdsNameOneOperation` with it. The bookkeeping invariant `Book` adds `Ids`: ids of
rows and of running operations are below `now`, those of rows are distinct, those of
running operations too, and a row with the id of a running operation is that
operation's. With it, updating by id is updating one's own row. `TaskListIsALog` maps each step to
`Open`, `Settle` or a stutter. The hang of finding 1 is proved of every behaviour that
reaches it: by `Ownership` the listing that is at `UpdateTask` holds the mutex it waits for, so
no step changes the mutex, the list, a listing or an operation that still has to lock
(`HangStep`); it lasts for ever, takes the write operations with it, and refutes
`ListingsReturn` under any fairness. `NoScrubNoHang` is the converse: by `OnlyOffered`, rows
are of operations that somebody called, and only the row of a scrub leads to the hang.

`EventStreamProofs`. `StreamStep` shows that each step of a stream or its client is one of
`ZFSTasks` or leaves its variables alone, so `StreamsImplementTasks` carries every safety
theorem of `ZFSTasksProofs` over to a server with streams. `StreamsListToRender` is inductive
with the types: a stream lists only between `StreamList` and `StreamReturn`. With `Ownership` it
follows that no stream holds the mutex while it sends or waits.

`CertLifecycleProofs`. `ServingInv` says where in a round the process is, that the
half already read is the stored one, and that what is installed is a pair;
`HandshakesGetAPair` alone is not inductive because `ReadKey` compares with a half
read one step earlier. `StoreInv` adds what two Puts in a row leave while nothing
has failed. `FreshInv` says of a process that nothing has disturbed that it boots from an
empty store and installs what it issued the same day. `MemoryInstallsUnexpired` is that for
the memory store, which a kill does not disturb because nothing of it survives: the expired
certificate of `cert_expired` needs the disk. `NothingExpiredIsServed` adds the renewal loop:
`TickInTime` says that the next tick comes at most a period after the issue of what is
served. `LifecycleIsAnOffer` maps each step to one of `CertOffer`. Its floor is
`OldestToCome`: the stored certificate, or, if what a failed Put left of it does not decrypt,
the one that is written or issued next. `FloorStep` proves that it never falls, and `OfferStep`
that what is installed is not below it at the moment it is installed. `CertificatesGetNoOlder` reads off it what a client sees.
`PoolFollows`, that the trust pool is the served certificate, needs that no loop
renews; it is proved only, since the runs have the loop.

`RequestPipelineProofs`. The three invariants hold of each request by itself, so
`IInv` is the types and `AllSound`: the predicate `Sound` of the place, status,
command and effects of one request. `OneMoves` reduces a step of one handler to
that request, and `Untouched` carries the others; `Kill` and `BusDrops`
change only places. `Sound` says that the commands before the current one are done
or lenient and that a handler which has not started has had no effect. It holds
for any routes called, any registry and any modules installed. `EveryStepMoves` says how a
step can move the status of a request, and `VerdictKept` that a handler at work carries the
verdict of the policy; from these, `StatusTellsTheTruth`: 200 only for what the policy
allows, 403 only for what it refuses. It is the other half of finding 4: the answer is
right and the effect is not. `NothingIsOkWithoutClaims` is its case of authentication
switched off, where nobody is in a group. `ExecNeverRuns` is finding 5 for every request and
configuration: `FirstRoute` computes that container actions come first in the concatenated
route tables, `ExecIsRefused` that they match an exec request and refuse its last segment.
It uses that a path is a sequence of strings, which `ConstantsAssumption` says of `Calls`.

`SensorsProofs`. `RestartKeepsMemory` is not inductive: `WriteFails` would break it if
another request could have saved while this one was writing. `MutexInv` adds that
whoever saves holds the mutex, and that `saved` is false during a write.
`ReadingsAreOfThePast` holds of memory and file together, since each becomes the other
(`Exchange`). `OneSnapshotKeepsOrder` has a behaviour as its hypothesis, not a constant: while
no two snapshots are between reading the clock and taking the mutex, the one that waits has
the latest time (`OrderInv`), so the history is in order, also after restarts. TLC finds the
disorder as soon as two of them overlap there.

`MemoryStoreProofs`. `BuffersInv` says who holds which buffer: what is stored or in a
channel is in nobody's hands and nowhere else, and what is in a channel is newer than
what its watcher has received. Without it neither the map nor the order survives
`Overwrite`. From it the store implements `SecretMap` by the data its buffers hold. Two
theorems say exactly when a Put panics (finding 3): only if some path has a watcher whose
channel is closed (`OnlyAClosedWatcherPanics`), and always if its own path has one, which it
then has for ever (`AClosedWatcherDoomsItsPath`).

`PagesProofs`. Each invariant says what the page has so far, in terms of how far the
request has come: of an interface that stayed down, that it is yet to be read or has a
row that switches networking off (`RowsOfDown`); of a port, that it is where the page has
it or has moved (`PortsWhereTheyAre`); of a service or dataset that stayed, that its zone or
pool is yet to come or it is on the page (`ServicesSoFar`, `ZFSRowsSoFar`); of a container,
that its image is still there or it was removed (`ImagesSoFar`); of a failure, that its
line is no further back than it is counted (`FailuresSoFar`). The final property alone
says nothing before the answer, so it is not inductive.

`HostProofs`. A boot device has passed the check only unread, and still is one when it is
formatted (`CheckHeld`). A tunnel has a container or a request that is yet to run one
(`ContainerOrRequest`); while requests follow one another, the config file is of the
request that has passed `write` (`OneAfterTheOther`). What a reload has read is of the
whole bundle in the files unless there was none or these changed (`ReadOfOneBundle`). What a page falls back to is
empty or a snapshot (`ShownWasTaken`). The types of the store over a directory need that a
process which has passed boot has something of each file (`StoreIsFilled`); with
`ReloadInv`, the certificate it serves has its own key (`HasPairAndPool`). Nothing is
claimed of the rest of a chain or of a CA file then: only `TornOnlyByReplacement`
says when they are whole.
`FilesAreAnOffer`: this store implements `CertOffer` as well. Its floor is what this
reload has read, what it is about to install, or, when none is under way, what was last
written; `NothingIsOlder` says that what was read or installed is
not newer than what was written. That files never go back is the model of the
operator's tool (`SetFile`): the code does not look.

`HostComposes` shows that a behaviour of `host` is one of each of its components: one of
them moves, and the others' variables do not. So the theorems about a component, which are of its
own specification, are theorems about the whole, and `HostTypes` follows from those about
the types of each.

Only model-checked: liveness (`OperationsReturn`, `ListingsReturn`, `StreamsEnd`,
`ComesBack`, `RequestsAnswer`, `RequestsEnd`), which is out of the prover's reach. Every safety
property and every refinement of a passing run is a theorem.

## Findings

1. `modules/zfs/zfs.go:512`: a listing that finds a scrub finished locks the mutex
   it holds and hangs, and with it every later ZFS request (`zfs_hang`).
2. `certmanager/lifecycle.go:71`: boot installs an expired certificate
   (`cert_expired`).
3. `secrets/memory.go:98`: a Put after a watcher's context ended panics
   (`memory_panic`).
4. `server/router.go:1059`: a refused write is answered 403 and carried out
   (`requests_refused`).
5. `server/router.go:255`: the exec route is behind a more general one and never
   reached (`requests_exec`).

Read in the code while modelling, and part of the models, without a run of their own:

- nobody starts the renewal loop (`app/app.go:71`), so a certificate also expires while
  it is served;
- a Put drops the newest value when a watcher's channel is full (`secrets/memory.go:56`);
- modules on the bus say they are well after their only connection was lost
  (`modules/network/network.go:48`);
- a threshold of NaN stops every later save of the sensors without a word
  (`modules/sensors/sensors.go:288`);
- `secrets/filesystem.go:100` says a reload never leaves a torn state; the certificate
  and the key indeed match or are refused, but the CA pool is read afterwards and may be
  of another bundle than the pair, and a chain or a CA file of several certificates that
  is cut after one of them is installed as it is (`FileStore!TornOnlyByReplacement` says
  when neither happens);
- a dashboard shows failed units without the journal lines that explain them: it takes
  none of the captured journal (`server/router.go:1556-1574`);
- `modules/storage/storage.go:106` says the snapshot is cached; the code fetches first
  and returns the cache only when that fails;
- a container of LUKS whose cleartext device holds the root file system passes
  `CheckNotBootDevice`, which looks at the mount points of the device itself
  (`dbus/udisks2/client_write_linux.go`);
- a failed listing of tunnels is shown as an empty one; podman and the sensors show a
  note where others show an error.

## What is not modelled

Components: templates, view data, CSS and static files (no state); configuration
(constants of the models); the age, Vault and cert-manager backends (stubs that return
`ErrNotImplemented`); the test PKI; packaging.

Parts of modelled components: parsers of sizes, percentages and ETAs, whose result is only
formatted; logs and inspections of one container or tunnel, one read each; the listener
and the adoption of systemd's socket; read routes of the pipeline, each of which is one
of the pages; functions that nothing calls (`rolledUpBadge`, `networkOverview`,
`placeholderFor`, `moduleOverview`, and `FormatDevice` and `UnlockDevice` of the storage module).

Not checked, though listed as a hazard:

- two operations that read the same instant, or a clock that steps back, make two tasks
  share an id, and the wrong row is updated: the run and the theorems about rows suppose
  a clock that advances;
- a command that failed or was killed may have taken effect, of ZFS as of podman: both
  models let it, and no property compares a failed row or a 400 with the host, which the
  code does not ask;
- a transient error of the secret store makes boot replace a good bundle: in the model,
  and what the code does; `BootKeepsAGoodBundle` is of boots while nothing has failed;
- a failed capture leaves the dashboard with the made-up service of its stub: in the
  model, and what the code does;
- history points may be stored out of time order, which is in the model of the sensors
  and contradicts nothing the code says (that only overlapping snapshots do it is
  `OneSnapshotKeepsOrder`);
- every module keeps the mode it probed at boot: this is what the code means to do;
- a listing takes a tracked scrub for finished when the scan line says anything but in
  progress, so also one that another tool has paused, or that a resilver replaced: a row
  of `ZFSTasks` knows a scrub that runs or has ended.

## Plan

Done: `ZFSTasks`, `CertLifecycle`, `MemoryStore`, `RequestPipeline`, `Sensors`, `EventStream`,
`FileStore`, `Storage`, `Tunnels`, the pages and `Diagnostics`.

1. `HostWrites`, an abstract specification of a write (refused, or its effects, then
   one answer), implemented by `RequestPipeline` with the policy repaired.
2. The listener: one socket from systemd, or its own.
3. Proofs: that `RequestPipeline` implements `HostWrites`; that nothing a handler
   sent on the bus before a kill (`cut`) changes the answer of another.
