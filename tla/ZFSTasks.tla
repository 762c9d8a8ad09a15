------------------------------ MODULE ZFSTasks ------------------------------
(***************************************************************************)
(* The tracked operations of the ZFS module (internal/modules/zfs/zfs.go): *)
(* one mutex, one list of at most MaxTasks task records, the goroutines    *)
(* that serve the write routes (each runs one host command, or two, per    *)
(* call) and the goroutines inside RecentTasks, which serve the task list, *)
(* the ZFS page and the event stream.                                      *)
(*                                                                         *)
(* A critical section that cannot block is one step.  RecentTasks is the   *)
(* exception: it keeps the mutex while it asks ZFS about every running     *)
(* scrub, and calls taskDone, which takes the same mutex, for a scrub that *)
(* ZFS no longer reports.  sync.Mutex is not reentrant, so that call waits *)
(* for its own caller; UpdateTask below has the code's guard and no more.  *)
(***************************************************************************)
EXTENDS Integers, Sequences, FiniteSets

CONSTANTS
  Workers,     \* goroutines that serve the write routes
  Listers,     \* goroutines that call RecentTasks
  Pools,       \* pool names (a dataset to snapshot counts as its pool)
  Offered,     \* the write operations the environment calls, a subset of Actions
  MaxTasks,    \* the cap on the task list, 200 in the code
  Limit,       \* the number of rows a listing asks for
  ClockSteps,  \* how far the wall clock may move from one reading to the next, back too
  MaxClock,    \* bound of the model: no operation starts at this time or later
  NoHolder     \* the value of mu while nobody holds the mutex

Actions == {"create-pool", "destroy-pool", "scrub-start", "scrub-stop", "snapshot"}

ASSUME ConstantsAssumption ==
  /\ Workers \cap Listers = {}
  /\ NoHolder \notin Workers \cup Listers
  /\ Offered \subseteq Actions
  /\ MaxTasks \in Nat \ {0}
  /\ Limit \in Nat \ {0}
  /\ ClockSteps \subseteq Int
  /\ MaxClock \in Nat

VARIABLES
  mu,       \* who holds Module.mu, or NoHolder
  tasks,    \* Module.tasks, oldest first
  now,      \* the wall clock, in nanoseconds since some instant
  worker,   \* worker[w]: the write operation w is serving
  lister,   \* lister[l]: the RecentTasks call l is serving
  host,     \* host[p]: what ZFS knows of pool p
  outcome   \* history: <<id, state>> once an operation's commands have ended

vars == <<mu, tasks, now, worker, lister, host, outcome>>

States   == {"running", "done", "failed"}
Task     == [id : Int, action : Actions, target : Pools, state : States]

\* A write operation: between the clock reading and taskStart's critical
\* section, in its command, in the second command of create-pool, or before
\* the critical section of updateTask, which will write "state".
Call     == [pc : {"start", "command", "compress", "update"},
             id : Int, action : Actions, target : Pools, state : States]

\* A listing: the copied rows and the row enrichTasks looks at; at "update" it
\* has called taskDone for that row.
Listing  == [pc : {"enrich", "update"}, view : Seq(Task), at : Nat \ {0}]

Idle     == [pc |-> "idle"]
PoolFact == [present : BOOLEAN, scanning : BOOLEAN]

TypeOK ==
  /\ mu \in Listers \cup {NoHolder}
  /\ tasks \in Seq(Task)
  /\ Len(tasks) <= MaxTasks
  /\ now \in Int
  /\ worker \in [Workers -> Call \cup {Idle}]
  /\ lister \in [Listers -> Listing \cup {Idle}]
  /\ host \in [Pools -> PoolFact]
  /\ outcome \subseteq Int \X States

-----------------------------------------------------------------------------
(* Helpers *)

\* Mutants: no cap, and a cap that is off by one.
TrimNever(s) == s
TrimEarly(s) ==
  IF Len(s) >= MaxTasks THEN SubSeq(s, Len(s) - MaxTasks + 2, Len(s)) ELSE s

\* taskStart's trim: the last MaxTasks rows of s.
Trim(s) ==
  IF Len(s) > MaxTasks THEN SubSeq(s, Len(s) - MaxTasks + 1, Len(s)) ELSE s

\* The rows RecentTasks copies: the newest min(Limit, Len) tasks, newest first.
NewestFirst ==
  [k \in 1 .. (IF Len(tasks) < Limit THEN Len(tasks) ELSE Limit) |->
     tasks[Len(tasks) + 1 - k]]

\* Mutant: the newest row changes, whatever its id.
WithStateLast(id, state) ==
  [i \in DOMAIN tasks |->
     IF i = Len(tasks) THEN [tasks[i] EXCEPT !.state = state] ELSE tasks[i]]

\* updateTask's loop: the newest row with that id changes, no other does, and
\* an id that the trim has dropped changes nothing.
WithState(id, state) ==
  [i \in DOMAIN tasks |->
     IF tasks[i].id = id /\ \A j \in DOMAIN tasks : j > i => tasks[j].id # id
     THEN [tasks[i] EXCEPT !.state = state]
     ELSE tasks[i]]

\* Mutant: every running row is taken for a scrub.
IsTrackedScrubAny(t) == t.state = "running"

\* The rows enrichTasks asks ZFS about.
IsTrackedScrub(t) == t.action = "scrub-start" /\ t.state = "running"

\* What ZFS requires of pool p before the command of action a can take effect,
\* and the effect.
CanApply(a, p) ==
  CASE a = "create-pool"  -> ~host[p].present
    [] a = "destroy-pool" -> host[p].present
    [] a = "scrub-start"  -> host[p].present /\ ~host[p].scanning
    [] a = "scrub-stop"   -> host[p].present /\ host[p].scanning
    [] a = "snapshot"     -> host[p].present

Applied(a, p) ==
  CASE a = "create-pool"  -> [host EXCEPT ![p] = [present |-> TRUE, scanning |-> FALSE]]
    [] a = "destroy-pool" -> [host EXCEPT ![p] = [present |-> FALSE, scanning |-> FALSE]]
    [] a = "scrub-start"  -> [host EXCEPT ![p].scanning = TRUE]
    [] a = "scrub-stop"   -> [host EXCEPT ![p].scanning = FALSE]
    [] a = "snapshot"     -> host

-----------------------------------------------------------------------------
Init ==
  /\ mu = NoHolder
  /\ tasks = <<>>
  /\ now = 0
  /\ worker = [w \in Workers |-> Idle]
  /\ lister = [l \in Listers |-> Idle]
  /\ host \in [Pools -> {f \in PoolFact : f.scanning => f.present}]
  /\ outcome = {}

(***************************************************************************)
(* The write operations.  A call that fails validation (module in fake     *)
(* mode, blank name, no devices) returns before taskStart and changes      *)
(* nothing, so only valid calls appear.                                    *)
(***************************************************************************)

\* Mutant: the id is no reading of a clock that moves.
StartSameInstant(w, a, p) ==
  /\ worker[w] = Idle
  /\ now < MaxClock
  /\ worker' = [worker EXCEPT ![w] = [pc |-> "start", id |-> now, action |-> a,
                                      target |-> p, state |-> "running"]]
  /\ UNCHANGED <<mu, tasks, now, lister, host, outcome>>

\* taskStart reads the clock before it takes the mutex; the reading is the id.
Start(w, a, p) ==
  /\ worker[w] = Idle
  /\ now < MaxClock
  /\ \E step \in ClockSteps : now' = now + step
  /\ worker' = [worker EXCEPT ![w] = [pc |-> "start", id |-> now, action |-> a,
                                      target |-> p, state |-> "running"]]
  /\ UNCHANGED <<mu, tasks, lister, host, outcome>>

\* The row taskStart makes for the call w is serving.
RowOf(w) == [id |-> worker[w].id, action |-> worker[w].action,
             target |-> worker[w].target, state |-> "running"]

\* taskStart's critical section: append the row, keep the last MaxTasks rows.
Track(w) ==
  /\ worker[w].pc = "start"
  /\ mu = NoHolder
  /\ tasks' = Trim(Append(tasks, RowOf(w)))
  /\ worker' = [worker EXCEPT ![w].pc = "command"]
  /\ UNCHANGED <<mu, now, lister, host, outcome>>

\* The commands of w have ended and state is what it will report of them.
Report(w, state) ==
  /\ worker' = [worker EXCEPT ![w].pc = "update", ![w].state = state]
  /\ outcome' = outcome \cup {<<worker[w].id, state>>}

\* The command of w succeeds.  create-pool goes on to set the compression
\* property, a scrub that was started stays "running".
CommandSucceeds(w) ==
  /\ worker[w].pc = "command"
  /\ CanApply(worker[w].action, worker[w].target)
  /\ host' = Applied(worker[w].action, worker[w].target)
  /\ IF worker[w].action = "create-pool"
       THEN /\ worker' = [worker EXCEPT ![w].pc = "compress"]
            /\ UNCHANGED outcome
       ELSE Report(w, IF worker[w].action = "scrub-start" THEN "running" ELSE "done")
  /\ UNCHANGED <<mu, tasks, now, lister>>

\* The command of w fails: refused by ZFS, or killed by its timeout before or
\* after ZFS carried it out.
CommandFails(w) ==
  /\ worker[w].pc = "command"
  /\ \/ UNCHANGED host
     \/ /\ CanApply(worker[w].action, worker[w].target)
        /\ host' = Applied(worker[w].action, worker[w].target)
  /\ Report(w, "failed")
  /\ UNCHANGED <<mu, tasks, now, lister>>

\* Mutant: the error path of zfs set returns without taskFail.
CompressForgets(w) ==
  /\ worker[w].pc = "compress"
  /\ \/ /\ host[worker[w].target].present
        /\ Report(w, "done")
     \/ /\ worker' = [worker EXCEPT ![w] = Idle]
        /\ UNCHANGED outcome
  /\ UNCHANGED <<mu, tasks, now, lister, host>>

\* CreatePool's zfs set compression: it fails, and so does the task, although
\* the pool was created.
Compress(w) ==
  /\ worker[w].pc = "compress"
  /\ \/ /\ host[worker[w].target].present
        /\ Report(w, "done")
     \/ Report(w, "failed")
  /\ UNCHANGED <<mu, tasks, now, lister, host>>

-----------------------------------------------------------------------------
(* RecentTasks *)

\* Mutant: the mutex covers the copy only.
ListUnlocked(l) ==
  /\ lister[l] = Idle
  /\ mu = NoHolder
  /\ tasks # <<>>
  /\ lister' = [lister EXCEPT ![l] = [pc |-> "enrich", view |-> NewestFirst, at |-> 1]]
  /\ UNCHANGED <<mu, tasks, now, worker, host, outcome>>

\* Take the mutex and copy the newest rows.  An empty list returns at once,
\* which changes nothing.
List(l) ==
  /\ lister[l] = Idle
  /\ mu = NoHolder
  /\ tasks # <<>>
  /\ mu' = l
  /\ lister' = [lister EXCEPT ![l] = [pc |-> "enrich", view |-> NewestFirst, at |-> 1]]
  /\ UNCHANGED <<tasks, now, worker, host, outcome>>

Row(l) == lister[l].view[lister[l].at]

\* enrichTasks leaves the row: it is no running scrub, zpool status failed (a
\* pool that is gone, the timeout), or ZFS is still scrubbing (the percentage
\* and the ETA it then copies from ZFS are not modelled).
Leave(l) ==
  /\ lister[l].pc = "enrich"
  /\ lister[l].at <= Len(lister[l].view)
  /\ lister' = [lister EXCEPT ![l].at = @ + 1]
  /\ UNCHANGED <<mu, tasks, now, worker, host, outcome>>

DoneAt(view, i) == [view EXCEPT ![i] = [@ EXCEPT !.state = "done"]]

\* zpool status reports no scrub in progress for a running scrub: the row of
\* the view becomes done, and enrichTasks calls taskDone for it.
Finished(l) ==
  /\ lister[l].pc = "enrich"
  /\ lister[l].at <= Len(lister[l].view)
  /\ IsTrackedScrub(Row(l))
  /\ host[Row(l).target].present
  /\ ~host[Row(l).target].scanning
  /\ lister' = [lister EXCEPT ![l] = [@ EXCEPT !.pc = "update",
                                               !.view = DoneAt(lister[l].view, lister[l].at)]]
  /\ UNCHANGED <<mu, tasks, now, worker, host, outcome>>

\* Mutant: a return that leaves the mutex locked.
ReturnLocked(l) ==
  /\ lister[l].pc = "enrich"
  /\ lister[l].at > Len(lister[l].view)
  /\ lister' = [lister EXCEPT ![l] = Idle]
  /\ UNCHANGED <<mu, tasks, now, worker, host, outcome>>

\* Every row has been looked at: unlock and return the view.
Return(l) ==
  /\ lister[l].pc = "enrich"
  /\ lister[l].at > Len(lister[l].view)
  /\ mu' = NoHolder
  /\ lister' = [lister EXCEPT ![l] = Idle]
  /\ UNCHANGED <<tasks, now, worker, host, outcome>>

-----------------------------------------------------------------------------
(* updateTask, which both kinds of goroutine call *)

UpdateTask(g) ==
  /\ mu = NoHolder
  /\ \/ /\ g \in Workers
        /\ worker[g].pc = "update"
        /\ tasks' = WithState(worker[g].id, worker[g].state)
        /\ worker' = [worker EXCEPT ![g] = Idle]
        /\ UNCHANGED lister
     \/ /\ g \in Listers
        /\ lister[g].pc = "update"
        /\ tasks' = WithState(Row(g).id, "done")
        /\ lister' = [lister EXCEPT ![g].pc = "enrich", ![g].at = @ + 1]
        /\ UNCHANGED worker
  /\ UNCHANGED <<mu, now, host, outcome>>

\* ZFS finishes a scrub by itself.
ScrubEnds(p) ==
  /\ host[p].scanning
  /\ host' = [host EXCEPT ![p].scanning = FALSE]
  /\ UNCHANGED <<mu, tasks, now, worker, lister, outcome>>

-----------------------------------------------------------------------------
Next ==
  \/ \E w \in Workers, a \in Offered, p \in Pools : Start(w, a, p)
  \/ \E w \in Workers : \/ Track(w)
                        \/ CommandSucceeds(w)
                        \/ CommandFails(w)
                        \/ Compress(w)
  \/ \E l \in Listers : List(l) \/ Leave(l) \/ Finished(l) \/ Return(l)
  \/ \E g \in Workers \cup Listers : UpdateTask(g)
  \/ \E p \in Pools : ScrubEnds(p)

Spec == Init /\ [][Next]_vars

(***************************************************************************)
(* Fairness: the Go scheduler runs a runnable goroutine, every command has *)
(* a deadline, and sync.Mutex hands itself to a starving waiter, which is  *)
(* strong fairness of each Lock.  Requests owe nobody anything: Start and  *)
(* List have none.                                                         *)
(***************************************************************************)
FairSpec ==
  /\ Spec
  /\ \A w \in Workers :
       /\ SF_vars(Track(w))
       /\ WF_vars(CommandSucceeds(w) \/ CommandFails(w) \/ Compress(w))
       /\ SF_vars(UpdateTask(w))
  /\ \A l \in Listers :
       /\ WF_vars(Leave(l) \/ Finished(l) \/ Return(l))
       /\ SF_vars(UpdateTask(l))

-----------------------------------------------------------------------------
(* Properties *)

\* w has a row in the list, unless the trim has dropped it.
Tracked(w) == worker[w].pc \in {"command", "compress", "update"}

\* A row is running only while its operation is, or because its scrub was
\* started: no error path of a write operation leaves its row running.
RunningIsAccountedFor ==
  \A i \in DOMAIN tasks : tasks[i].state = "running" =>
    \/ \E w \in Workers : Tracked(w) /\ worker[w].id = tasks[i].id
    \/ tasks[i].action = "scrub-start" /\ <<tasks[i].id, "running">> \in outcome

\* An operation that has not reported yet finds its own row, still running,
\* unless MaxTasks later rows have pushed it out (taskStart, updateTask).
OperationsFindTheirRow ==
  \A w \in Workers : Tracked(w) =>
    \/ \E i \in DOMAIN tasks : tasks[i] = RowOf(w)
    \/ /\ Len(tasks) = MaxTasks
       /\ \A i \in DOMAIN tasks : tasks[i].id # worker[w].id

\* A row says done or failed only when the commands of an operation with its id
\* ended so, however many operations report at the same time (updateTask).  With
\* a clock that advances from one reading to the next that is the row's own.
RowsTellTheOutcome ==
  \A i \in DOMAIN tasks :
    tasks[i].state # "running" => <<tasks[i].id, tasks[i].state>> \in outcome

\* From the copy to the return, a listing shows the newest rows of the list as
\* it is, but for the scrubs it found finished; so no row changes under it.
ListingsMatchTheList ==
  \A l \in Listers : lister[l] # Idle =>
    /\ Len(lister[l].view) = Len(NewestFirst)
    /\ \A k \in DOMAIN NewestFirst :
         \/ lister[l].view[k] = NewestFirst[k]
         \/ /\ k <= lister[l].at
            /\ IsTrackedScrub(NewestFirst[k])
            /\ lister[l].view[k] = [NewestFirst[k] EXCEPT !.state = "done"]

\* The task list is a TaskLog: concurrent operations never share a row, settle
\* one twice, reopen one, or drop one that is not the oldest.
Log ==
  INSTANCE TaskLog WITH Ids <- 0 .. MaxClock, Kinds <- Actions, Targets <- Pools,
                        Capacity <- MaxTasks, log <- tasks

ImplementsTaskLog == Log!Spec

\* Every write operation that was called returns to its caller.
OperationsReturn == \A w \in Workers : worker[w] # Idle ~> worker[w] = Idle

\* "RecentTasks returns newest-first tracked operations" (zfs.go:421): every
\* listing that was called returns.
ListingsReturn == \A l \in Listers : lister[l] # Idle ~> lister[l] = Idle
=============================================================================
