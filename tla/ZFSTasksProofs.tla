--------------------------- MODULE ZFSTasksProofs ---------------------------
(* What TLAPS proves of ZFSTasks, for any goroutines, pools, cap and limit. *)
EXTENDS ZFSTasks, SequenceTheorems, TLAPS

USE ConstantsAssumption DEF ConstantsAssumption

-----------------------------------------------------------------------------
(* The operators on the task list *)

\* Trim returns the newest rows, at most MaxTasks of them (taskStart).
LEMMA TrimType ==
  ASSUME NEW s \in Seq(Task)
  PROVE  /\ Trim(s) \in Seq(Task)
         /\ Len(Trim(s)) <= MaxTasks
         /\ \E d \in Nat : /\ Len(s) = Len(Trim(s)) + d
                           /\ \A i \in DOMAIN Trim(s) : Trim(s)[i] = s[i + d]
  <1>1. CASE Len(s) <= MaxTasks
    <2>1. Trim(s) = s
      BY <1>1 DEF Trim
    <2>2. Len(s) = Len(Trim(s)) + 0 /\ \A i \in DOMAIN Trim(s) : Trim(s)[i] = s[i + 0]
      BY <2>1
    <2>3. QED
      BY <1>1, <2>1, <2>2
  <1>2. CASE Len(s) > MaxTasks
    <2> DEFINE d == Len(s) - MaxTasks
    <2>1. d \in Nat /\ d + 1 \in 1 .. Len(s) + 1
      BY <1>2
    <2>2. Trim(s) = SubSeq(s, d + 1, Len(s))
      BY <1>2 DEF Trim
    <2>3. /\ Trim(s) \in Seq(Task)
          /\ Len(Trim(s)) = MaxTasks
          /\ \A i \in 1 .. MaxTasks : Trim(s)[i] = s[i + d]
      BY <2>1, <2>2, <1>2
    <2>4. DOMAIN Trim(s) = 1 .. MaxTasks
      BY <2>3
    <2>5. /\ Len(s) = Len(Trim(s)) + d
          /\ \A i \in DOMAIN Trim(s) : Trim(s)[i] = s[i + d]
      BY <2>1, <2>3, <2>4
    <2> HIDE DEF d
    <2>6. QED
      BY <2>1, <2>3, <2>5
  <1>3. QED
    BY <1>1, <1>2

\* WithState rewrites the state of rows with that id and nothing else
\* (updateTask).
LEMMA WithStateType ==
  ASSUME tasks \in Seq(Task), NEW id \in Int, NEW st \in States
  PROVE  /\ WithState(id, st) \in Seq(Task)
         /\ Len(WithState(id, st)) = Len(tasks)
         /\ DOMAIN WithState(id, st) = DOMAIN tasks
         /\ \A i \in DOMAIN tasks :
              \/ WithState(id, st)[i] = tasks[i]
              \/ /\ tasks[i].id = id
                 /\ WithState(id, st)[i] = [tasks[i] EXCEPT !.state = st]
  <1>1. \A i \in DOMAIN tasks : tasks[i] \in Task
    OBVIOUS
  <1>2. \A i \in DOMAIN tasks : [tasks[i] EXCEPT !.state = st] \in Task
    BY <1>1 DEF Task
  <1>3. WithState(id, st) \in [1 .. Len(tasks) -> Task]
    BY <1>1, <1>2 DEF WithState
  <1>4. QED
    BY <1>3 DEF WithState

\* The copied rows are rows (RecentTasks).
LEMMA NewestFirstType ==
  ASSUME tasks \in Seq(Task)
  PROVE  NewestFirst \in Seq(Task)
  <1> DEFINE n == IF Len(tasks) < Limit THEN Len(tasks) ELSE Limit
  <1>1. n \in Nat /\ n <= Len(tasks)
    OBVIOUS
  <1>2. \A k \in 1 .. n : tasks[Len(tasks) + 1 - k] \in Task
    BY <1>1
  <1>3. NewestFirst \in [1 .. n -> Task]
    BY <1>2 DEF NewestFirst
  <1>4. QED
    BY <1>1, <1>3

-----------------------------------------------------------------------------
(***************************************************************************)
(* Types and the mutex.  A listing holds the mutex from its copy to its    *)
(* return, so the step by which a listing would itself take the mutex, in  *)
(* taskDone, is never enabled: that is the hang, and it is also why the    *)
(* type of the task list depends on who holds the mutex.                   *)
(***************************************************************************)

Ownership == \A l \in Listers : lister[l] # Idle <=> mu = l

TypeInv == TypeOK /\ Ownership

\* A writer that is not idle is in a call.
LEMMA CallFacts ==
  ASSUME TypeOK, NEW w \in Workers, worker[w].pc # "idle"
  PROVE  worker[w] \in Call
  BY DEF TypeOK, Idle

\* A lister that is not idle is in a listing.
LEMMA ListingFacts ==
  ASSUME TypeOK, NEW l \in Listers, lister[l].pc # "idle"
  PROVE  lister[l] \in Listing /\ lister[l] # Idle
  BY DEF TypeOK, Idle

\* Report changes the worker and the history, within their types.
LEMMA ReportType ==
  ASSUME TypeOK, NEW w \in Workers, worker[w].pc # "idle", NEW st \in States,
         Report(w, st)
  PROVE  /\ worker' \in [Workers -> Call \cup {Idle}]
         /\ outcome' \subseteq Int \X States
  <1>1. worker[w] \in Call
    BY CallFacts
  <1>2. [worker[w] EXCEPT !.pc = "update", !.state = st] \in Call
    BY <1>1 DEF Call
  <1>3. worker' = [worker EXCEPT ![w] = [worker[w] EXCEPT !.pc = "update", !.state = st]]
    BY DEF Report, TypeOK
  <1>4. worker[w].id \in Int
    BY <1>1 DEF Call
  <1>5. QED
    BY <1>2, <1>3, <1>4 DEF TypeOK, Report

\* Every step preserves the types and the ownership of the mutex.
LEMMA TypeStep == TypeInv /\ [Next]_vars => TypeInv'
  <1> SUFFICES ASSUME TypeInv, [Next]_vars PROVE TypeInv'
    OBVIOUS
  <1> USE DEF TypeInv
  <1>1. ASSUME NEW w \in Workers, NEW a \in Offered, NEW p \in Pools, Start(w, a, p)
        PROVE  TypeInv'
    <2>1. [pc |-> "start", id |-> now, action |-> a, target |-> p, state |-> "running"] \in Call
      BY <1>1 DEF Call, States, TypeOK
    <2>2. now' \in Int
      BY <1>1 DEF Start, TypeOK
    <2>3. TypeOK'
      BY <1>1, <2>1, <2>2 DEF Start, TypeOK
    <2>4. QED
      BY <1>1, <2>3 DEF Start, Ownership
  <1>2. ASSUME NEW w \in Workers, Track(w)
        PROVE  TypeInv'
    <2> DEFINE row == RowOf(w)
    <2>1. worker[w] \in Call
      BY <1>2, CallFacts DEF Track
    <2>2. row \in Task
      BY <2>1 DEF Call, Task, States, RowOf
    <2>3. Append(tasks, row) \in Seq(Task)
      BY <2>2 DEF TypeOK
    <2>4. tasks' \in Seq(Task) /\ Len(tasks') <= MaxTasks
      BY <1>2, <2>3, TrimType DEF Track
    <2>5. [worker[w] EXCEPT !.pc = "command"] \in Call
      BY <2>1 DEF Call
    <2>6. worker' \in [Workers -> Call \cup {Idle}]
      BY <1>2, <2>5 DEF Track, TypeOK
    <2>7. QED
      BY <1>2, <2>4, <2>6 DEF Track, TypeOK, Ownership
  <1>3. ASSUME NEW w \in Workers, CommandSucceeds(w) \/ CommandFails(w) \/ Compress(w)
        PROVE  TypeInv'
    <2>1. worker[w] \in Call /\ worker[w].pc # "idle"
      BY <1>3, CallFacts DEF CommandSucceeds, CommandFails, Compress
    <2>2. worker[w].action \in Actions /\ worker[w].target \in Pools
      BY <2>1 DEF Call
    <2>3. Applied(worker[w].action, worker[w].target) \in [Pools -> PoolFact]
      BY <2>2 DEF Applied, Actions, TypeOK, PoolFact
    <2>4. host' \in [Pools -> PoolFact]
      BY <1>3, <2>3 DEF CommandSucceeds, CommandFails, Compress, TypeOK
    <2>5. [worker[w] EXCEPT !.pc = "compress"] \in Call
      BY <2>1 DEF Call
    <2>6. /\ worker' \in [Workers -> Call \cup {Idle}]
          /\ outcome' \subseteq Int \X States
      <3>1. CASE \E st \in States : Report(w, st)
        BY <3>1, <2>1, ReportType
      <3>2. CASE worker' = [worker EXCEPT ![w].pc = "compress"] /\ UNCHANGED outcome
        BY <3>2, <2>5 DEF TypeOK
      <3>3. QED
        BY <1>3, <3>1, <3>2 DEF CommandSucceeds, CommandFails, Compress, States
    <2>7. UNCHANGED <<mu, tasks, now, lister>>
      BY <1>3 DEF CommandSucceeds, CommandFails, Compress
    <2>8. QED
      BY <2>4, <2>6, <2>7 DEF TypeOK, Ownership
  <1>4. ASSUME NEW l \in Listers, List(l)
        PROVE  TypeInv'
    <2> DEFINE new == [pc |-> "enrich", view |-> NewestFirst, at |-> 1]
    <2>1. new \in Listing
      BY NewestFirstType DEF Listing, TypeOK
    <2>2. new # Idle
      BY DEF Idle
    <2>3. lister' = [lister EXCEPT ![l] = new]
      BY <1>4 DEF List
    <2> HIDE DEF new
    <2>4. TypeOK'
      BY <1>4, <2>1, <2>3 DEF List, TypeOK
    <2>5. QED
      BY <1>4, <2>2, <2>3, <2>4 DEF List, TypeOK, Ownership
  <1>5. ASSUME NEW l \in Listers, Leave(l)
        PROVE  TypeInv'
    <2>1. lister[l] \in Listing /\ lister[l] # Idle
      BY <1>5, ListingFacts DEF Leave
    <2> DEFINE new == [lister[l] EXCEPT !.at = @ + 1]
    <2>2. new \in Listing /\ new # Idle
      BY <2>1 DEF Listing, Idle
    <2>3. lister' = [lister EXCEPT ![l] = new]
      BY <1>5 DEF Leave, TypeOK
    <2> HIDE DEF new
    <2>4. QED
      BY <1>5, <2>1, <2>2, <2>3 DEF Leave, TypeOK, Ownership
  <1>6. ASSUME NEW l \in Listers, Finished(l)
        PROVE  TypeInv'
    <2>1. lister[l] \in Listing /\ lister[l] # Idle
      BY <1>6, ListingFacts DEF Finished
    <2> DEFINE at   == lister[l].at
               row  == [lister[l].view[at] EXCEPT !.state = "done"]
               view == DoneAt(lister[l].view, at)
               new  == [lister[l] EXCEPT !.pc = "update", !.view = view]
    <2>2. at \in 1 .. Len(lister[l].view) /\ lister[l].view \in Seq(Task)
      BY <1>6, <2>1 DEF Finished, Listing
    <2>3. row \in Task
      <3>1. lister[l].view[at] \in Task
        BY <2>2
      <3>2. QED
        BY <3>1 DEF Task, States
    <2>4. view \in Seq(Task)
      BY <2>2, <2>3 DEF DoneAt
    <2>5. lister' = [lister EXCEPT ![l] = new]
      BY <1>6, <2>1 DEF Finished, TypeOK
    <2> HIDE DEF view
    <2>6. new \in Listing /\ new # Idle
      BY <2>1, <2>4 DEF Listing, Idle
    <2> HIDE DEF new
    <2>7. QED
      BY <1>6, <2>1, <2>5, <2>6 DEF Finished, TypeOK, Ownership
  <1>7. ASSUME NEW l \in Listers, Return(l)
        PROVE  TypeInv'
    <2>1. lister[l] # Idle
      BY <1>7, ListingFacts DEF Return
    <2>2. QED
      BY <1>7, <2>1 DEF Return, TypeOK, Ownership
  <1>8. ASSUME NEW w \in Workers, UpdateTask(w)
        PROVE  TypeInv'
    <2>1. /\ worker[w].pc = "update"
          /\ tasks' = WithState(worker[w].id, worker[w].state)
          /\ worker' = [worker EXCEPT ![w] = Idle]
          /\ UNCHANGED <<mu, now, lister, host, outcome>>
      BY <1>8 DEF UpdateTask
    <2>2. worker[w] \in Call
      BY <2>1, CallFacts
    <2>3. tasks' \in Seq(Task) /\ Len(tasks') = Len(tasks)
      BY <2>1, <2>2, WithStateType DEF Call, TypeOK
    <2>4. QED
      BY <2>1, <2>3 DEF TypeOK, Ownership
  <1>9. ASSUME NEW l \in Listers, UpdateTask(l)
        PROVE  TypeInv'
    <2>1. mu = NoHolder /\ lister[l].pc = "update"
      BY <1>9 DEF UpdateTask
    <2>2. mu = l
      BY <2>1, ListingFacts DEF Ownership
    <2>3. QED
      BY <2>1, <2>2
  <1>10. ASSUME NEW p \in Pools, ScrubEnds(p)
         PROVE  TypeInv'
    BY <1>10 DEF ScrubEnds, TypeOK, PoolFact, Ownership
  <1>11. CASE UNCHANGED vars
    BY <1>11 DEF vars, TypeOK, Ownership
  <1>12. QED
    BY <1>1, <1>2, <1>3, <1>4, <1>5, <1>6, <1>7, <1>8, <1>9, <1>10, <1>11 DEF Next

\* The type invariant holds for every number of goroutines, pools and rows.
THEOREM TypeCorrect == Spec => []TypeOK
  <1>1. Init => TypeInv
    BY DEF Init, TypeInv, TypeOK, Ownership, PoolFact
  <1>2. QED
    BY <1>1, TypeStep, PTL DEF Spec, TypeInv

\* Types and the ownership of the mutex hold in every state.
LEMMA TypeInvariant == Spec => []TypeInv
  <1>1. Init => TypeInv
    BY DEF Init, TypeInv, TypeOK, Ownership, PoolFact
  <1>2. QED
    BY <1>1, TypeStep, PTL DEF Spec

-----------------------------------------------------------------------------
(***************************************************************************)
(* Rows tell an outcome reported under their id, whatever the clock does.  *)
(* The strengthening: what a goroutine is about to report is what its      *)
(* commands did.  Whose id it is needs a clock that advances, see below.   *)
(***************************************************************************)

ReportsAreTrue ==
  \A w \in Workers : worker[w].pc = "update" =>
    <<worker[w].id, worker[w].state>> \in outcome

\* Every step keeps the rows true to the outcomes.
LEMMA OutcomeStep ==
  TypeInv /\ RowsTellTheOutcome /\ ReportsAreTrue /\ [Next]_vars
    => (RowsTellTheOutcome /\ ReportsAreTrue)'
  <1> SUFFICES ASSUME TypeInv, RowsTellTheOutcome, ReportsAreTrue, [Next]_vars
               PROVE  (RowsTellTheOutcome /\ ReportsAreTrue)'
    OBVIOUS
  <1> USE DEF TypeInv
  <1>1. ASSUME NEW w \in Workers, NEW a \in Offered, NEW p \in Pools, Start(w, a, p)
        PROVE  (RowsTellTheOutcome /\ ReportsAreTrue)'
    BY <1>1 DEF Start, TypeOK, RowsTellTheOutcome, ReportsAreTrue
  <1>2. ASSUME NEW w \in Workers, Track(w)
        PROVE  (RowsTellTheOutcome /\ ReportsAreTrue)'
    <2> DEFINE row == RowOf(w)
               all == Append(tasks, row)
    <2>1. worker[w] \in Call
      BY <1>2, CallFacts DEF Track
    <2>2. row \in Task /\ row.state = "running"
      BY <2>1 DEF Call, Task, States, RowOf
    <2> HIDE DEF row
    <2>3. /\ all \in Seq(Task)
          /\ \A i \in DOMAIN all : all[i] = row \/ (i \in DOMAIN tasks /\ all[i] = tasks[i])
      BY <2>2 DEF TypeOK
    <2> HIDE DEF all
    <2>4. PICK d \in Nat : /\ Len(all) = Len(Trim(all)) + d
                          /\ \A i \in DOMAIN Trim(all) : Trim(all)[i] = all[i + d]
      BY <2>3, TrimType
    <2>5. Trim(all) \in Seq(Task)
      BY <2>3, TrimType
    <2>6. \A i \in DOMAIN Trim(all) : i + d \in DOMAIN all
      BY <2>3, <2>4, <2>5
    <2>7. tasks' = Trim(all) /\ UNCHANGED outcome
      BY <1>2 DEF Track, all, row
    <2>8. RowsTellTheOutcome'
      BY <2>2, <2>3, <2>4, <2>6, <2>7 DEF RowsTellTheOutcome
    <2>9. ReportsAreTrue'
      BY <1>2 DEF Track, TypeOK, ReportsAreTrue
    <2>10. QED
      BY <2>8, <2>9
  <1>3. ASSUME NEW w \in Workers, CommandSucceeds(w) \/ CommandFails(w) \/ Compress(w)
        PROVE  (RowsTellTheOutcome /\ ReportsAreTrue)'
    <2>1. worker[w] \in Call
      BY <1>3, CallFacts DEF CommandSucceeds, CommandFails, Compress
    <2>2. UNCHANGED tasks
      BY <1>3 DEF CommandSucceeds, CommandFails, Compress
    <2>3. CASE \E st \in States : Report(w, st)
      BY <2>1, <2>2, <2>3 DEF Report, TypeOK, Call, RowsTellTheOutcome, ReportsAreTrue
    <2>4. CASE worker' = [worker EXCEPT ![w].pc = "compress"] /\ UNCHANGED outcome
      BY <2>1, <2>2, <2>4 DEF TypeOK, Call, RowsTellTheOutcome, ReportsAreTrue
    <2>5. QED
      BY <1>3, <2>3, <2>4 DEF CommandSucceeds, CommandFails, Compress, States
  <1>4. ASSUME NEW w \in Workers, UpdateTask(w)
        PROVE  (RowsTellTheOutcome /\ ReportsAreTrue)'
    <2>1. /\ worker[w].pc = "update"
          /\ tasks' = WithState(worker[w].id, worker[w].state)
          /\ worker' = [worker EXCEPT ![w] = Idle]
          /\ UNCHANGED outcome
      BY <1>4 DEF UpdateTask
    <2>2. worker[w] \in Call
      BY <2>1, CallFacts
    <2>3. /\ DOMAIN tasks' = DOMAIN tasks
          /\ \A i \in DOMAIN tasks :
               \/ tasks'[i] = tasks[i]
               \/ /\ tasks[i].id = worker[w].id
                  /\ tasks'[i] = [tasks[i] EXCEPT !.state = worker[w].state]
      BY <2>1, <2>2, WithStateType DEF Call, TypeOK
    <2>4. \A i \in DOMAIN tasks : tasks[i] \in Task
      BY DEF TypeOK
    <2>5. RowsTellTheOutcome'
      BY <2>1, <2>3, <2>4 DEF RowsTellTheOutcome, ReportsAreTrue, Task
    <2>6. ReportsAreTrue'
      BY <2>1 DEF ReportsAreTrue, TypeOK, Idle
    <2>7. QED
      BY <2>5, <2>6
  <1>5. ASSUME NEW l \in Listers, UpdateTask(l)
        PROVE  FALSE
    <2>1. mu = NoHolder /\ lister[l].pc = "update"
      BY <1>5 DEF UpdateTask
    <2>2. QED
      BY <2>1, ListingFacts DEF Ownership
  <1>6. CASE UNCHANGED <<tasks, worker, outcome>>
    BY <1>6 DEF RowsTellTheOutcome, ReportsAreTrue
  <1>7. QED
    BY <1>1, <1>2, <1>3, <1>4, <1>5, <1>6
    DEF Next, vars, List, Leave, Finished, Return, ScrubEnds

\* What a settled row says was reported under its id.  Of which operation, this
\* does not say: two that share a reading of the clock share the id.
LEMMA OutcomesById == Spec => []RowsTellTheOutcome
  <1>1. Init => RowsTellTheOutcome /\ ReportsAreTrue
    BY DEF Init, RowsTellTheOutcome, ReportsAreTrue, Idle
  <1>2. QED
    BY <1>1, OutcomeStep, TypeInvariant, PTL DEF Spec

-----------------------------------------------------------------------------
(***************************************************************************)
(* The bookkeeping, for a clock that is later at every reading.            *)
(* Ids is the strengthening: ids are unique among the rows and among the   *)
(* calls, and a row with the id of an unreported call is that call's row.  *)
(***************************************************************************)

ClockAdvances == ClockSteps \subseteq Nat \ {0}

Ids ==
  /\ now \in Nat
  /\ \A i \in DOMAIN tasks : tasks[i].id \in 0 .. MaxClock /\ tasks[i].id < now
  /\ \A w \in Workers : worker[w].pc # "idle" => worker[w].id \in 0 .. MaxClock /\ worker[w].id < now
  /\ \A i, j \in DOMAIN tasks : tasks[i].id = tasks[j].id => i = j
  /\ \A v, w \in Workers :
       worker[v].pc # "idle" /\ worker[w].pc # "idle" /\ worker[v].id = worker[w].id => v = w
  /\ \A w \in Workers, i \in DOMAIN tasks :
       worker[w].pc # "idle" /\ tasks[i].id = worker[w].id
         => worker[w].pc # "start" /\ tasks[i] = RowOf(w)

StartsOnly ==
  \A w \in Workers : worker[w].pc = "update" /\ worker[w].state = "running"
    => worker[w].action = "scrub-start"

Book == Ids /\ StartsOnly /\ OperationsFindTheirRow /\ RunningIsAccountedFor

\* taskStart's critical section, row by row: the log gains the new row at its
\* young end and, when it was full, loses the one at its old end.
LEMMA TrackRows ==
  ASSUME TypeInv, NEW w \in Workers, Track(w)
  PROVE  /\ RowOf(w) \in Task
         /\ tasks' = Append(IF Len(tasks) = MaxTasks THEN Tail(tasks) ELSE tasks, RowOf(w))
  <1> DEFINE all == Append(tasks, RowOf(w))
  <1>1. worker[w] \in Call
    BY CallFacts DEF Track, TypeInv
  <1>2. RowOf(w) \in Task
    BY <1>1 DEF Call, Task, States, RowOf
  <1>3. tasks \in Seq(Task) /\ Len(tasks) \in Nat /\ Len(tasks) <= MaxTasks
    BY DEF TypeInv, TypeOK
  <1>4. all \in Seq(Task) /\ Len(all) = Len(tasks) + 1
    BY <1>2, <1>3
  <1>5. tasks' = Trim(all)
    BY DEF Track, RowOf
  <1>6. CASE Len(tasks) = MaxTasks
    <2>1. tasks' = SubSeq(all, 2, Len(all))
      BY <1>3, <1>4, <1>5, <1>6 DEF Trim
    <2>2. tasks # <<>> /\ Tail(tasks) \in Seq(Task) /\ Len(Tail(tasks)) = MaxTasks - 1
      BY <1>3, <1>6
    <2>3. tasks' \in Seq(Task) /\ Len(tasks') = MaxTasks
      BY <1>3, <1>4, <1>6, <2>1
    <2>4. \A i \in 1 .. MaxTasks : tasks'[i] = all[i + 1]
      BY <1>3, <1>4, <1>6, <2>1
    <2>5. \A i \in 1 .. MaxTasks : Append(Tail(tasks), RowOf(w))[i] = all[i + 1]
      BY <1>2, <1>3, <1>6, <2>2
    <2>6. Append(Tail(tasks), RowOf(w)) \in Seq(Task) /\ Len(Append(Tail(tasks), RowOf(w))) = MaxTasks
      BY <1>2, <2>2
    <2>7. tasks' = Append(Tail(tasks), RowOf(w))
      BY <2>3, <2>4, <2>5, <2>6
    <2>8. QED
      BY <1>2, <1>6, <2>7
  <1>7. CASE Len(tasks) < MaxTasks
    <2>1. tasks' = all
      BY <1>3, <1>4, <1>5, <1>7 DEF Trim
    <2>2. Len(tasks) # MaxTasks
      BY <1>3, <1>7
    <2>3. QED
      BY <1>2, <2>1, <2>2
  <1>8. QED
    BY <1>3, <1>6, <1>7

\* The rows after Track, by index.
LEMMA TrackIndex ==
  ASSUME TypeInv, NEW w \in Workers, Track(w)
  PROVE  /\ Len(tasks') \in 1 .. MaxTasks
         /\ tasks'[Len(tasks')] = RowOf(w)
         /\ \E d \in {0, 1} :
              /\ d = 1 => Len(tasks') = MaxTasks
              /\ Len(tasks') = Len(tasks) + 1 - d
              /\ \A i \in 1 .. Len(tasks') - 1 : i + d \in DOMAIN tasks /\ tasks'[i] = tasks[i + d]
  <1>1. tasks \in Seq(Task) /\ Len(tasks) \in Nat /\ Len(tasks) <= MaxTasks
    BY DEF TypeInv, TypeOK
  <1>2. RowOf(w) \in Task
    BY TrackRows
  <1>3. CASE Len(tasks) = MaxTasks
    <2>1. tasks' = Append(Tail(tasks), RowOf(w))
      BY <1>3, TrackRows
    <2>2. tasks # <<>> /\ Tail(tasks) \in Seq(Task) /\ Len(Tail(tasks)) = MaxTasks - 1
      BY <1>1, <1>3
    <2>3. Len(tasks') = MaxTasks /\ tasks'[MaxTasks] = RowOf(w)
      BY <1>2, <2>1, <2>2
    <2>4. \A i \in 1 .. MaxTasks - 1 : i + 1 \in DOMAIN tasks /\ tasks'[i] = tasks[i + 1]
      BY <1>1, <1>2, <1>3, <2>1, <2>2
    <2>5. QED
      BY <1>3, <2>3, <2>4
  <1>4. CASE Len(tasks) < MaxTasks
    <2>1. tasks' = Append(tasks, RowOf(w))
      BY <1>1, <1>4, TrackRows
    <2>2. Len(tasks') = Len(tasks) + 1 /\ tasks'[Len(tasks) + 1] = RowOf(w)
      BY <1>1, <1>2, <2>1
    <2>3. \A i \in 1 .. Len(tasks') - 1 : i + 0 \in DOMAIN tasks /\ tasks'[i] = tasks[i + 0]
      BY <1>1, <1>2, <2>1, <2>2
    <2>4. QED
      BY <1>1, <1>4, <2>2, <2>3
  <1>5. QED
    BY <1>1, <1>3, <1>4

\* updateTask under unique ids: the row of w, if the list still has it, settles
\* in place, and every other row stays.
LEMMA UpdateRows ==
  ASSUME TypeInv, Ids, NEW w \in Workers, UpdateTask(w)
  PROVE  /\ worker[w] \in Call
         /\ DOMAIN tasks' = DOMAIN tasks
         /\ \A i \in DOMAIN tasks :
              IF tasks[i].id = worker[w].id
              THEN tasks[i] = RowOf(w) /\ tasks'[i] = [tasks[i] EXCEPT !.state = worker[w].state]
              ELSE tasks'[i] = tasks[i]
  <1>1. worker[w].pc = "update" /\ tasks' = WithState(worker[w].id, worker[w].state)
    BY DEF UpdateTask
  <1>2. worker[w] \in Call
    BY <1>1, CallFacts DEF TypeInv
  <1>3. \A i \in DOMAIN tasks : tasks[i].id = worker[w].id => tasks[i] = RowOf(w)
    BY <1>1 DEF Ids
  <1>4. \A i, j \in DOMAIN tasks : tasks[i].id = tasks[j].id => i = j
    BY DEF Ids
  <1>5. tasks \in Seq(Task)
    BY DEF TypeInv, TypeOK
  <1>6. \A i, j \in DOMAIN tasks : tasks[i].id = worker[w].id /\ j > i => tasks[j].id # worker[w].id
    BY <1>4, <1>5
  <1>7. QED
    BY <1>1, <1>2, <1>3, <1>5, <1>6 DEF WithState

\* Steps that leave the rows alone and track nobody new.
LEMMA BookFrame ==
  ASSUME OperationsFindTheirRow, RunningIsAccountedFor, tasks' = tasks, outcome \subseteq outcome',
         \A v \in Workers : Tracked(v)' <=> Tracked(v),
         \A v \in Workers : Tracked(v) => RowOf(v)' = RowOf(v) /\ worker'[v].id = worker[v].id
  PROVE  OperationsFindTheirRow' /\ RunningIsAccountedFor'
  <1>1. OperationsFindTheirRow'
    <2> SUFFICES ASSUME NEW v \in Workers, Tracked(v)'
                 PROVE  \/ \E i \in DOMAIN tasks' : tasks'[i] = RowOf(v)'
                        \/ /\ Len(tasks') = MaxTasks
                           /\ \A i \in DOMAIN tasks' : tasks'[i].id # worker'[v].id
      BY DEF OperationsFindTheirRow
    <2>1. Tracked(v) /\ RowOf(v)' = RowOf(v) /\ worker'[v].id = worker[v].id
      OBVIOUS
    <2>2. QED
      BY <2>1 DEF OperationsFindTheirRow
  <1>2. RunningIsAccountedFor'
    <2> SUFFICES ASSUME NEW i \in DOMAIN tasks', tasks'[i].state = "running"
                 PROVE  \/ \E v \in Workers : Tracked(v)' /\ worker'[v].id = tasks'[i].id
                        \/ tasks'[i].action = "scrub-start" /\ <<tasks'[i].id, "running">> \in outcome'
      BY DEF RunningIsAccountedFor
    <2>1. CASE \E v \in Workers : Tracked(v) /\ worker[v].id = tasks[i].id
      BY <2>1
    <2>2. CASE tasks[i].action = "scrub-start" /\ <<tasks[i].id, "running">> \in outcome
      BY <2>2
    <2>3. QED
      BY <2>1, <2>2 DEF RunningIsAccountedFor
  <1>3. QED
    BY <1>1, <1>2

\* Every step keeps the bookkeeping of rows and running operations.
LEMMA BookStep ==
  ASSUME ClockAdvances, TypeInv, ReportsAreTrue, Book, [Next]_vars
  PROVE  Book'
  <1> USE DEF TypeInv
  <1>0. /\ now \in Nat
        /\ \A i \in DOMAIN tasks : tasks[i] \in Task
        /\ tasks \in Seq(Task)
        /\ \A w \in Workers : worker[w] \in Call \cup {Idle}
        /\ \A w \in Workers : worker[w].pc # "idle" => worker[w] \in Call
    BY CallFacts DEF TypeOK, Book, Ids
  <1>1. ASSUME NEW w \in Workers, NEW a \in Offered, NEW p \in Pools, Start(w, a, p)
        PROVE  Book'
    <2> DEFINE new == [pc |-> "start", id |-> now, action |-> a, target |-> p, state |-> "running"]
    <2>1. /\ worker' = [worker EXCEPT ![w] = new]
          /\ now' \in Nat /\ now' > now /\ now < MaxClock
          /\ UNCHANGED <<tasks, outcome>>
          /\ worker[w] = Idle
      BY <1>0, <1>1 DEF Start, ClockAdvances
    <2>2. worker'[w] = new /\ \A v \in Workers : v # w => worker'[v] = worker[v]
      BY <2>1 DEF TypeOK
    <2>3. /\ new.pc = "start" /\ new.id = now
          /\ worker[w].pc = "idle"
      BY <2>1 DEF Idle
    <2> HIDE DEF new
    <2>4. \A i \in DOMAIN tasks : tasks[i].id \in 0 .. MaxClock /\ tasks[i].id < now
      BY <1>0 DEF Book, Ids, Task
    <2>5. \A v \in Workers : worker[v].pc # "idle" => worker[v].id \in 0 .. MaxClock /\ worker[v].id < now
      BY <1>0 DEF Book, Ids, Call
    <2>6. \A v \in Workers : v # w => RowOf(v)' = RowOf(v)
      BY <2>2 DEF RowOf
    <2>7. Ids'
      BY <1>0, <2>1, <2>2, <2>3, <2>4, <2>5, <2>6 DEF Book, Ids
    <2>8. \A v \in Workers : /\ Tracked(v)' <=> Tracked(v)
                             /\ Tracked(v) => worker'[v] = worker[v]
      BY <2>2, <2>3 DEF Tracked
    <2>9. StartsOnly'
      BY <2>2, <2>3 DEF Book, StartsOnly
    <2>10. \A v \in Workers : Tracked(v) => RowOf(v)' = RowOf(v) /\ worker'[v].id = worker[v].id
      BY <2>8 DEF RowOf
    <2>11. OperationsFindTheirRow' /\ RunningIsAccountedFor'
      BY <2>1, <2>8, <2>10, BookFrame DEF Book
    <2>12. QED
      BY <2>7, <2>9, <2>11 DEF Book
  <1>2. ASSUME NEW w \in Workers, Track(w)
        PROVE  Book'
    <2>1. /\ worker[w].pc = "start"
          /\ worker' = [worker EXCEPT ![w].pc = "command"]
          /\ UNCHANGED <<now, outcome>>
      BY <1>2 DEF Track
    <2>2. worker[w] \in Call
      BY <1>0, <2>1
    <2>3. /\ worker'[w] = [worker[w] EXCEPT !.pc = "command"]
          /\ \A v \in Workers : v # w => worker'[v] = worker[v]
      BY <2>1 DEF TypeOK
    <2>4. /\ worker'[w].pc = "command"
          /\ worker'[w].id = worker[w].id
          /\ \A v \in Workers : worker'[v].id = worker[v].id /\ RowOf(v)' = RowOf(v)
          /\ \A v \in Workers : v # w => worker'[v].pc = worker[v].pc
      BY <2>2, <2>3 DEF Call, RowOf
    <2>5. PICK d \in {0, 1} :
            /\ Len(tasks') \in 1 .. MaxTasks
            /\ tasks'[Len(tasks')] = RowOf(w)
            /\ d = 1 => Len(tasks') = MaxTasks
            /\ Len(tasks') = Len(tasks) + 1 - d
            /\ \A i \in 1 .. Len(tasks') - 1 : i + d \in DOMAIN tasks /\ tasks'[i] = tasks[i + d]
      BY <1>2, TrackIndex
    <2>6. tasks' \in Seq(Task) /\ DOMAIN tasks' = 1 .. Len(tasks')
      BY <1>2, TypeStep DEF TypeOK, Next
    <2>7. \A i \in DOMAIN tasks' :
            \/ i = Len(tasks') /\ tasks'[i] = RowOf(w)
            \/ i # Len(tasks') /\ i + d \in DOMAIN tasks /\ tasks'[i] = tasks[i + d]
      BY <2>5, <2>6
    <2>8. RowOf(w).id = worker[w].id /\ RowOf(w).state = "running"
      BY DEF RowOf
    <2>9. \A i \in DOMAIN tasks : tasks[i].id # worker[w].id
      BY <2>1 DEF Book, Ids
    <2>10. \A v \in Workers : v # w /\ worker[v].pc # "idle" => worker[v].id # worker[w].id
      BY <2>1 DEF Book, Ids
    <2>11. Ids'
      <3>1. \A i \in DOMAIN tasks' : tasks'[i].id \in 0 .. MaxClock /\ tasks'[i].id < now'
        BY <2>1, <2>7, <2>8 DEF Book, Ids
      <3>2. \A v \in Workers : worker'[v].pc # "idle" => worker'[v].id \in 0 .. MaxClock /\ worker'[v].id < now'
        BY <2>1, <2>4 DEF Book, Ids
      <3>3. \A i, j \in DOMAIN tasks' : tasks'[i].id = tasks'[j].id => i = j
        BY <2>6, <2>7, <2>8, <2>9 DEF Book, Ids
      <3>4. \A v, u \in Workers :
              worker'[v].pc # "idle" /\ worker'[u].pc # "idle" /\ worker'[v].id = worker'[u].id => v = u
        BY <2>1, <2>4 DEF Book, Ids
      <3>5. \A v \in Workers, i \in DOMAIN tasks' :
              worker'[v].pc # "idle" /\ tasks'[i].id = worker'[v].id
                => worker'[v].pc # "start" /\ tasks'[i] = RowOf(v)'
        BY <2>1, <2>4, <2>7, <2>8, <2>9, <2>10 DEF Book, Ids
      <3>6. QED
        BY <1>0, <2>1, <3>1, <3>2, <3>3, <3>4, <3>5 DEF Ids
    <2>12. StartsOnly'
      BY <2>3, <2>4 DEF Book, StartsOnly
    <2>13. OperationsFindTheirRow'
      <3> SUFFICES ASSUME NEW v \in Workers, Tracked(v)'
                   PROVE  \/ \E i \in DOMAIN tasks' : tasks'[i] = RowOf(v)'
                          \/ /\ Len(tasks') = MaxTasks
                             /\ \A i \in DOMAIN tasks' : tasks'[i].id # worker'[v].id
        BY DEF OperationsFindTheirRow
      <3>1. CASE v = w
        BY <3>1, <2>4, <2>5, <2>6
      <3>2. CASE v # w
        <4>1. Tracked(v)
          BY <3>2, <2>4 DEF Tracked
        <4>2. CASE \E i \in DOMAIN tasks : tasks[i] = RowOf(v)
          <5>1. PICK i \in DOMAIN tasks : tasks[i] = RowOf(v)
            BY <4>2
          <5>2. CASE i - d >= 1
            <6>1. i - d \in DOMAIN tasks' /\ i - d # Len(tasks') /\ (i - d) + d = i
              BY <1>0, <2>5, <2>6, <5>2
            <6>2. tasks'[i - d] = RowOf(v)'
              BY <2>4, <2>7, <5>1, <6>1
            <6>3. QED
              BY <6>1, <6>2
          <5>3. CASE i - d < 1
            <6>1. i = 1 /\ d = 1 /\ Len(tasks') = MaxTasks
              BY <1>0, <2>5, <5>3
            <6>2. \A j \in DOMAIN tasks : j # 1 => tasks[j].id # RowOf(v).id
              BY <5>1, <6>1 DEF Book, Ids
            <6>3. RowOf(v).id = worker'[v].id /\ worker'[v].id # RowOf(w).id
              BY <2>4, <2>8, <2>10, <3>2, <4>1 DEF RowOf, Tracked
            <6>4. \A j \in DOMAIN tasks' : tasks'[j].id # worker'[v].id
              BY <2>6, <2>7, <6>1, <6>2, <6>3
            <6>5. QED
              BY <6>1, <6>4
          <5>4. QED
            BY <1>0, <5>2, <5>3
        <4>3. CASE /\ Len(tasks) = MaxTasks
                   /\ \A i \in DOMAIN tasks : tasks[i].id # worker[v].id
          <5>1. Len(tasks') = MaxTasks
            BY <2>5, <4>3
          <5>2. \A j \in DOMAIN tasks' : tasks'[j].id # worker'[v].id
            BY <2>4, <2>7, <2>8, <2>10, <3>2, <4>1, <4>3 DEF Tracked
          <5>3. QED
            BY <5>1, <5>2
        <4>4. QED
          BY <4>1, <4>2, <4>3 DEF Book, OperationsFindTheirRow, RowOf
      <3>3. QED
        BY <3>1, <3>2
    <2>14. RunningIsAccountedFor'
      <3>1. \A v \in Workers : Tracked(v) => Tracked(v)'
        BY <2>1, <2>4 DEF Tracked
      <3>2. Tracked(w)'
        BY <2>4 DEF Tracked
      <3>3. QED
        BY <2>1, <2>4, <2>7, <2>8, <3>1, <3>2 DEF Book, RunningIsAccountedFor
    <2>15. QED
      BY <2>11, <2>12, <2>13, <2>14 DEF Book
  <1>3. ASSUME NEW w \in Workers, CommandSucceeds(w) \/ CommandFails(w) \/ Compress(w)
        PROVE  Book'
    <2>1. worker[w] \in Call /\ worker[w].pc \in {"command", "compress"}
      BY <1>0, <1>3 DEF CommandSucceeds, CommandFails, Compress
    <2>2. UNCHANGED <<tasks, now>> /\ outcome \subseteq outcome'
      BY <1>3 DEF CommandSucceeds, CommandFails, Compress, Report
    <2>3. /\ worker'[w].pc \in {"command", "compress", "update"}
          /\ worker'[w].id = worker[w].id /\ RowOf(w)' = RowOf(w)
          /\ worker'[w].action = worker[w].action
          /\ \A v \in Workers : v # w => worker'[v] = worker[v]
      BY <1>3, <2>1 DEF CommandSucceeds, CommandFails, Compress, Report, TypeOK, Call, RowOf
    <2>4. worker'[w].pc = "update" /\ worker'[w].state = "running" => worker'[w].action = "scrub-start"
      BY <1>3, <2>1 DEF CommandSucceeds, CommandFails, Compress, Report, TypeOK, Call
    <2>5. \A v \in Workers : /\ RowOf(v)' = RowOf(v) /\ worker'[v].id = worker[v].id
                             /\ worker'[v].pc # "idle" => worker[v].pc # "idle"
                             /\ worker'[v].pc = "start" => worker[v].pc = "start"
                             /\ Tracked(v)' <=> Tracked(v)
      BY <2>1, <2>3 DEF RowOf, Tracked
    <2>6. Ids'
      BY <2>2, <2>5, <2>1, <2>3 DEF Book, Ids
    <2>7. StartsOnly'
      BY <2>3, <2>4 DEF Book, StartsOnly
    <2>8. OperationsFindTheirRow' /\ RunningIsAccountedFor'
      BY <2>2, <2>5, BookFrame DEF Book
    <2>9. QED
      BY <2>6, <2>7, <2>8 DEF Book
  <1>4. ASSUME NEW w \in Workers, UpdateTask(w)
        PROVE  Book'
    <2>1. /\ worker[w].pc = "update"
          /\ worker' = [worker EXCEPT ![w] = Idle]
          /\ UNCHANGED <<now, outcome>>
      BY <1>4 DEF UpdateTask
    <2>2. /\ worker'[w].pc = "idle"
          /\ \A v \in Workers : v # w => worker'[v] = worker[v]
      BY <2>1 DEF TypeOK, Idle
    <2>3. /\ worker[w] \in Call
          /\ DOMAIN tasks' = DOMAIN tasks
          /\ \A i \in DOMAIN tasks :
               IF tasks[i].id = worker[w].id
               THEN tasks[i] = RowOf(w) /\ tasks'[i] = [tasks[i] EXCEPT !.state = worker[w].state]
               ELSE tasks'[i] = tasks[i]
      BY <1>4, UpdateRows DEF Book
    <2>4. \A i \in DOMAIN tasks : /\ tasks'[i].id = tasks[i].id
                                  /\ tasks'[i].action = tasks[i].action
                                  /\ tasks[i].id = worker[w].id => tasks'[i].state = worker[w].state
                                  /\ tasks[i].id # worker[w].id => tasks'[i] = tasks[i]
      BY <1>0, <2>3 DEF Task
    <2>5. \A v \in Workers : worker'[v].pc # "idle" => v # w /\ worker[v].pc # "idle"
      BY <2>2
    <2>6. \A v \in Workers : v # w /\ worker[v].pc # "idle" => worker[v].id # worker[w].id
      BY <2>1 DEF Book, Ids
    <2>7. \A v \in Workers : v # w => RowOf(v)' = RowOf(v) /\ (Tracked(v)' <=> Tracked(v))
      BY <2>2 DEF RowOf, Tracked
    <2>8. Ids'
      BY <2>1, <2>2, <2>3, <2>4, <2>5, <2>6, <2>7 DEF Book, Ids
    <2>9. StartsOnly'
      BY <2>2 DEF Book, StartsOnly
    <2>10. OperationsFindTheirRow'
      <3> SUFFICES ASSUME NEW v \in Workers, Tracked(v)'
                   PROVE  \/ \E i \in DOMAIN tasks' : tasks'[i] = RowOf(v)'
                          \/ /\ Len(tasks') = MaxTasks
                             /\ \A i \in DOMAIN tasks' : tasks'[i].id # worker'[v].id
        BY DEF OperationsFindTheirRow
      <3>1. /\ v # w /\ Tracked(v) /\ RowOf(v)' = RowOf(v)
            /\ worker'[v].id = worker[v].id
            /\ worker[v].id # worker[w].id
        BY <2>2, <2>6, <2>7 DEF Tracked
      <3>2. RowOf(v).id = worker[v].id
        BY DEF RowOf
      <3>3. tasks' \in Seq(Task) /\ Len(tasks') = Len(tasks)
        BY <1>0, <1>4, <2>3, TypeStep DEF TypeOK, Next
      <3>4. CASE \E i \in DOMAIN tasks : tasks[i] = RowOf(v)
        BY <2>3, <2>4, <3>1, <3>2, <3>4
      <3>5. CASE Len(tasks) = MaxTasks /\ \A i \in DOMAIN tasks : tasks[i].id # worker[v].id
        BY <2>3, <2>4, <3>1, <3>3, <3>5
      <3>6. QED
        BY <3>1, <3>4, <3>5 DEF Book, OperationsFindTheirRow, RowOf
    <2>11. RunningIsAccountedFor'
      <3> SUFFICES ASSUME NEW i \in DOMAIN tasks', tasks'[i].state = "running"
                   PROVE  \/ \E v \in Workers : Tracked(v)' /\ worker'[v].id = tasks'[i].id
                          \/ tasks'[i].action = "scrub-start" /\ <<tasks'[i].id, "running">> \in outcome'
        BY DEF RunningIsAccountedFor
      <3>1. CASE tasks[i].id = worker[w].id
        <4>1. worker[w].state = "running" /\ tasks[i] = RowOf(w)
          BY <2>3, <2>4, <3>1
        <4>2. worker[w].action = "scrub-start" /\ <<worker[w].id, "running">> \in outcome
          BY <2>1, <4>1 DEF Book, StartsOnly, ReportsAreTrue
        <4>3. tasks'[i].action = "scrub-start"
          BY <2>3, <2>4, <4>1, <4>2 DEF RowOf
        <4>4. QED
          BY <2>1, <2>3, <2>4, <3>1, <4>2, <4>3
      <3>2. CASE tasks[i].id # worker[w].id
        BY <2>1, <2>2, <2>3, <2>4, <2>7, <3>2 DEF Book, RunningIsAccountedFor
      <3>3. QED
        BY <3>1, <3>2
    <2>12. QED
      BY <2>8, <2>9, <2>10, <2>11 DEF Book
  <1>5. ASSUME NEW l \in Listers, UpdateTask(l)
        PROVE  FALSE
    <2>1. mu = NoHolder /\ lister[l].pc = "update"
      BY <1>5 DEF UpdateTask
    <2>2. QED
      BY <2>1, ListingFacts DEF Ownership
  <1>6. CASE UNCHANGED <<tasks, now, worker, outcome>>
    BY <1>6 DEF Book, Ids, RowOf, StartsOnly, OperationsFindTheirRow, RunningIsAccountedFor, Tracked
  <1>7. QED
    BY <1>1, <1>2, <1>3, <1>4, <1>5, <1>6
    DEF Next, vars, List, Leave, Finished, Return, ScrubEnds

\* The bookkeeping holds in every state.
LEMMA Bookkeeping ==
  ClockAdvances /\ Spec => [](TypeInv /\ ReportsAreTrue /\ Book)
  <1> SUFFICES ASSUME ClockAdvances
               PROVE  Spec => [](TypeInv /\ ReportsAreTrue /\ Book)
    OBVIOUS
  <1>1. Init => TypeInv /\ ReportsAreTrue /\ RowsTellTheOutcome /\ Book
    BY DEF Init, TypeInv, TypeOK, Ownership, PoolFact, ReportsAreTrue, RowsTellTheOutcome,
           Book, Ids, StartsOnly, OperationsFindTheirRow, RunningIsAccountedFor, Tracked, Idle
  <1>2. TypeInv /\ ReportsAreTrue /\ Book /\ [Next]_vars => Book'
    BY BookStep
  <1>3. QED
    BY <1>1, <1>2, OutcomeStep, TypeStep, PTL DEF Spec

\* However many operations run at once, one that has not reported finds its own
\* row, still running, unless MaxTasks later rows have pushed it out.
THEOREM RowsAreFound == ClockAdvances /\ Spec => []OperationsFindTheirRow
  <1> SUFFICES ASSUME ClockAdvances PROVE Spec => []OperationsFindTheirRow
    OBVIOUS
  <1>1. Spec => [](TypeInv /\ ReportsAreTrue /\ Book)
    BY Bookkeeping
  <1>2. Book => OperationsFindTheirRow
    BY DEF Book
  <1>3. QED
    BY <1>1, <1>2, PTL

\* No path through a write operation leaves a row running for good, but for the
\* scrubs that were started.
THEOREM RunningRowsAreAccountedFor == ClockAdvances /\ Spec => []RunningIsAccountedFor
  <1> SUFFICES ASSUME ClockAdvances PROVE Spec => []RunningIsAccountedFor
    OBVIOUS
  <1>1. Spec => [](TypeInv /\ ReportsAreTrue /\ Book)
    BY Bookkeeping
  <1>2. Book => RunningIsAccountedFor
    BY DEF Book
  <1>3. QED
    BY <1>1, <1>2, PTL

\* An id names one operation: of two rows, of two running operations, and of a
\* row and a running operation it is the same one's; and one operation reports
\* one outcome under it, when its commands have ended.
IdsNameOneOperation ==
  /\ \A i, j \in DOMAIN tasks : tasks[i].id = tasks[j].id => i = j
  /\ \A v, w \in Workers :
       worker[v].pc # "idle" /\ worker[w].pc # "idle" /\ worker[v].id = worker[w].id => v = w
  /\ \A w \in Workers, i \in DOMAIN tasks :
       worker[w].pc # "idle" /\ tasks[i].id = worker[w].id => tasks[i] = RowOf(w)
  /\ \A o, q \in outcome : o[1] = q[1] => o = q
  /\ \A w \in Workers, o \in outcome :
       worker[w].pc \in {"start", "command", "compress"} => o[1] # worker[w].id

\* What has been reported was reported under an earlier reading, once.
ReportedOnce ==
  /\ \A o \in outcome : o[1] < now
  /\ \A o, q \in outcome : o[1] = q[1] => o = q
  /\ \A w \in Workers, o \in outcome :
       worker[w].pc \in {"start", "command", "compress"} => o[1] # worker[w].id

\* Every step reports at most one outcome, under an id that has none.
LEMMA ReportedOnceStep ==
  ASSUME ClockAdvances, TypeInv, Book, ReportedOnce, [Next]_vars
  PROVE  ReportedOnce'
  <1> USE DEF TypeInv
  <1>0. /\ now \in Nat
        /\ \A o \in outcome : o[1] \in Int
        /\ \A w \in Workers : worker[w].pc # "idle" => worker[w] \in Call
    BY CallFacts DEF TypeOK, Book, Ids
  <1>1. ASSUME NEW w \in Workers, NEW a \in Offered, NEW p \in Pools, Start(w, a, p)
        PROVE  ReportedOnce'
    <2>1. /\ worker'[w].id = now
          /\ \A v \in Workers : v # w => worker'[v] = worker[v]
          /\ now' \in Nat /\ now' > now
          /\ UNCHANGED outcome
      BY <1>0, <1>1 DEF Start, ClockAdvances, TypeOK
    <2>2. \A o \in outcome : o[1] < now'
      BY <1>0, <2>1 DEF ReportedOnce
    <2>3. \A o \in outcome : o[1] # worker'[w].id
      BY <1>0, <2>1 DEF ReportedOnce
    <2>4. QED
      BY <2>1, <2>2, <2>3 DEF ReportedOnce
  <1>2. ASSUME NEW w \in Workers, CommandSucceeds(w) \/ CommandFails(w) \/ Compress(w)
        PROVE  ReportedOnce'
    <2>1. worker[w] \in Call /\ worker[w].pc \in {"command", "compress"} /\ now' = now
      BY <1>0, <1>2 DEF CommandSucceeds, CommandFails, Compress
    <2>2. worker[w].id < now /\ \A o \in outcome : o[1] # worker[w].id
      BY <2>1 DEF Book, Ids, ReportedOnce
    <2>3. CASE \E st \in States : Report(w, st)
      <3>1. PICK st \in States : outcome' = outcome \cup {<<worker[w].id, st>>}
        BY <2>3 DEF Report
      <3>2. worker'[w].pc = "update" /\ \A v \in Workers : v # w => worker'[v] = worker[v]
        BY <2>1, <2>3 DEF Report, TypeOK, Call
      <3>3. \A v \in Workers : v # w /\ worker[v].pc # "idle" => worker[v].id # worker[w].id
        BY <2>1 DEF Book, Ids
      <3>4. QED
        BY <2>1, <2>2, <3>1, <3>2, <3>3 DEF ReportedOnce
    <2>4. CASE worker' = [worker EXCEPT ![w].pc = "compress"] /\ UNCHANGED outcome
      <3>1. /\ worker'[w].id = worker[w].id
            /\ \A v \in Workers : v # w => worker'[v] = worker[v]
        BY <2>1, <2>4 DEF TypeOK, Call
      <3>2. QED
        BY <2>1, <2>2, <2>4, <3>1 DEF ReportedOnce
    <2>5. QED
      BY <1>2, <2>3, <2>4 DEF CommandSucceeds, CommandFails, Compress, States
  <1>3. ASSUME NEW w \in Workers, Track(w)
        PROVE  ReportedOnce'
    <2>1. /\ worker[w].pc = "start" /\ worker[w] \in Call
          /\ worker' = [worker EXCEPT ![w].pc = "command"]
          /\ UNCHANGED <<now, outcome>>
      BY <1>0, <1>3 DEF Track
    <2>2. worker'[w].id = worker[w].id /\ \A v \in Workers : v # w => worker'[v] = worker[v]
      BY <2>1 DEF TypeOK, Call
    <2>3. QED
      BY <2>1, <2>2 DEF ReportedOnce
  <1>4. ASSUME NEW w \in Workers, UpdateTask(w)
        PROVE  ReportedOnce'
    <2>1. worker' = [worker EXCEPT ![w] = Idle] /\ UNCHANGED <<now, outcome>>
      BY <1>4 DEF UpdateTask
    <2>2. worker'[w].pc = "idle" /\ \A v \in Workers : v # w => worker'[v] = worker[v]
      BY <2>1 DEF TypeOK, Idle
    <2>3. QED
      BY <2>1, <2>2 DEF ReportedOnce
  <1>5. ASSUME NEW l \in Listers, UpdateTask(l)
        PROVE  FALSE
    <2>1. mu = NoHolder /\ lister[l].pc = "update"
      BY <1>5 DEF UpdateTask
    <2>2. QED
      BY <2>1, ListingFacts DEF Ownership
  <1>6. CASE UNCHANGED <<now, worker, outcome>>
    BY <1>6 DEF ReportedOnce
  <1>7. QED
    BY <1>1, <1>2, <1>3, <1>4, <1>5, <1>6
    DEF Next, vars, List, Leave, Finished, Return, ScrubEnds

\* With a clock that advances at every reading, a settled row says how the
\* commands of its own operation ended: that was reported under the row's id,
\* nothing else was, and no other operation has that id (taskStart, updateTask).
THEOREM OutcomesAreTold ==
  ClockAdvances /\ Spec => [](RowsTellTheOutcome /\ IdsNameOneOperation)
  <1> SUFFICES ASSUME ClockAdvances
               PROVE  Spec => [](RowsTellTheOutcome /\ IdsNameOneOperation)
    OBVIOUS
  <1>1. Init => ReportedOnce
    BY DEF Init, ReportedOnce
  <1>2. TypeInv /\ Book /\ ReportedOnce /\ [Next]_vars => ReportedOnce'
    BY ReportedOnceStep
  <1>3. Spec => [](TypeInv /\ ReportsAreTrue /\ Book)
    BY Bookkeeping
  <1>4. Book /\ ReportedOnce => IdsNameOneOperation
    BY DEF Book, Ids, ReportedOnce, IdsNameOneOperation
  <1>5. QED
    BY <1>1, <1>2, <1>3, <1>4, OutcomesById, PTL DEF Spec

-----------------------------------------------------------------------------
(* The task list implements TaskLog *)

\* Every step of the module is a step of the log or leaves it alone.
LEMMA RefinementStep ==
  ASSUME TypeInv, Book, [Next]_vars
  PROVE  [Log!Next]_tasks
  <1>0. tasks \in Seq(Task) /\ Len(tasks) <= MaxTasks
    BY DEF TypeInv, TypeOK
  <1>1. ASSUME NEW w \in Workers, Track(w)
        PROVE  Log!Next
    <2>1. RowOf(w) \in Task /\ worker[w].pc = "start"
      BY <1>1, TrackRows DEF Track
    <2>2. /\ worker[w].id \in 0 .. MaxClock
          /\ worker[w].action \in Actions
          /\ worker[w].target \in Pools
      BY <2>1 DEF Task, RowOf, Book, Ids
    <2>3. \A i \in DOMAIN tasks : tasks[i].id # worker[w].id
      BY <2>1 DEF Book, Ids
    <2>4. tasks' = Append(IF Len(tasks) = MaxTasks THEN Tail(tasks) ELSE tasks, RowOf(w))
      BY <1>1, TrackRows
    <2>5. Log!Open(worker[w].id, worker[w].action, worker[w].target)
      BY <2>3, <2>4 DEF Log!Open, RowOf
    <2>6. QED
      BY <2>2, <2>5 DEF Log!Next
  <1>2. ASSUME NEW w \in Workers, UpdateTask(w)
        PROVE  [Log!Next]_tasks
    <2>1. /\ worker[w] \in Call
          /\ DOMAIN tasks' = DOMAIN tasks
          /\ \A i \in DOMAIN tasks :
               IF tasks[i].id = worker[w].id
               THEN tasks[i] = RowOf(w) /\ tasks'[i] = [tasks[i] EXCEPT !.state = worker[w].state]
               ELSE tasks'[i] = tasks[i]
      BY <1>2, UpdateRows DEF Book
    <2>2. tasks' \in Seq(Task)
      BY <1>2, TypeStep DEF TypeInv, TypeOK, Next
    <2>3. CASE \A i \in DOMAIN tasks : tasks[i].id # worker[w].id
      BY <1>0, <2>1, <2>2, <2>3
    <2>4. CASE \E i \in DOMAIN tasks : tasks[i].id = worker[w].id
      <3>1. PICK i \in DOMAIN tasks : tasks[i].id = worker[w].id
        BY <2>4
      <3>2. tasks[i] = RowOf(w) /\ tasks[i].state = "running" /\ tasks[i] \in Task
        BY <1>0, <2>1, <3>1 DEF RowOf
      <3>3. \A j \in DOMAIN tasks : j # i => tasks[j].id # worker[w].id
        BY <3>1 DEF Book, Ids
      <3>4. tasks' = [tasks EXCEPT ![i] = [tasks[i] EXCEPT !.state = worker[w].state]]
        BY <1>0, <2>1, <2>2, <3>1, <3>3
      <3>5. tasks' = [tasks EXCEPT ![i].state = worker[w].state]
        BY <3>4
      <3>6. CASE worker[w].state = "running"
        <4>1. [tasks[i] EXCEPT !.state = worker[w].state] = tasks[i]
          BY <3>2, <3>6 DEF Task
        <4>2. tasks' = tasks
          BY <1>0, <3>1, <3>4, <4>1
        <4>3. QED
          BY <4>2
      <3>7. CASE worker[w].state \in {"done", "failed"}
        <4>1. Log!Settle(i, worker[w].state)
          BY <3>2, <3>5 DEF Log!Settle
        <4>2. QED
          BY <3>1, <3>7, <4>1 DEF Log!Next
      <3>8. QED
        BY <2>1, <3>6, <3>7 DEF Call, States
    <2>5. QED
      BY <2>3, <2>4
  <1>3. ASSUME NEW l \in Listers, UpdateTask(l)
        PROVE  FALSE
    <2>1. mu = NoHolder /\ lister[l].pc = "update"
      BY <1>3 DEF UpdateTask
    <2>2. QED
      BY <2>1, ListingFacts DEF Ownership, TypeInv
  <1>4. CASE UNCHANGED tasks
    BY <1>4
  <1>5. QED
    BY <1>1, <1>2, <1>3, <1>4
    DEF Next, vars, Start, CommandSucceeds, CommandFails, Compress,
        List, Leave, Finished, Return, ScrubEnds

\* Concurrent operations on the list are those of a TaskLog, for any number of
\* goroutines and any cap.
THEOREM TaskListIsALog == ClockAdvances /\ Spec => ImplementsTaskLog
  <1> SUFFICES ASSUME ClockAdvances PROVE Spec => Log!Spec
    BY DEF ImplementsTaskLog
  <1>1. Init => Log!Init
    BY DEF Init, Log!Init
  <1>2. TypeInv /\ Book /\ [Next]_vars => [Log!Next]_tasks
    BY RefinementStep
  <1>3. Spec => [](TypeInv /\ ReportsAreTrue /\ Book)
    BY Bookkeeping
  <1>4. QED
    BY <1>1, <1>2, <1>3, PTL DEF Spec, Log!Spec

-----------------------------------------------------------------------------
(* Listings *)

\* Every step keeps the listings equal to the list.
LEMMA ListingStep ==
  ASSUME TypeInv, ListingsMatchTheList, [Next]_vars
  PROVE  ListingsMatchTheList'
  <1> USE DEF TypeInv
  <1> DEFINE Matches(l) ==
        /\ Len(lister[l].view) = Len(NewestFirst)
        /\ \A k \in DOMAIN NewestFirst :
             \/ lister[l].view[k] = NewestFirst[k]
             \/ /\ k <= lister[l].at
                /\ IsTrackedScrub(NewestFirst[k])
                /\ lister[l].view[k] = [NewestFirst[k] EXCEPT !.state = "done"]
  <1>1. ListingsMatchTheList <=> \A l \in Listers : lister[l] # Idle => Matches(l)
    BY DEF ListingsMatchTheList
  <1>2. ListingsMatchTheList' <=> \A l \in Listers : lister'[l] # Idle => Matches(l)'
    BY DEF ListingsMatchTheList
  <1>3. tasks \in Seq(Task) /\ NewestFirst \in Seq(Task)
    BY NewestFirstType DEF TypeOK
  <1>4. tasks' = tasks => NewestFirst' = NewestFirst
    BY DEF NewestFirst
  <1>5. ASSUME NEW w \in Workers, Track(w) \/ UpdateTask(w)
        PROVE  ListingsMatchTheList'
    <2>1. mu = NoHolder /\ UNCHANGED lister
      BY <1>5 DEF Track, UpdateTask
    <2>2. \A l \in Listers : lister[l] = Idle
      BY <2>1 DEF Ownership
    <2>3. QED
      BY <1>2, <2>1, <2>2
  <1>6. ASSUME NEW l \in Listers, List(l)
        PROVE  ListingsMatchTheList'
    <2>1. /\ lister' = [lister EXCEPT ![l] = [pc |-> "enrich", view |-> NewestFirst, at |-> 1]]
          /\ tasks' = tasks
          /\ mu = NoHolder
      BY <1>6 DEF List
    <2>2. lister'[l].view = NewestFirst /\ \A m \in Listers : m # l => lister'[m] = Idle
      BY <2>1 DEF TypeOK, Ownership
    <2>3. QED
      BY <1>2, <1>4, <2>1, <2>2
  <1>7. ASSUME NEW l \in Listers, Leave(l) \/ Finished(l)
        PROVE  ListingsMatchTheList'
    <2>1. lister[l] \in Listing /\ lister[l] # Idle
      BY <1>7, ListingFacts DEF Leave, Finished
    <2>2. tasks' = tasks /\ mu = l /\ NewestFirst' = NewestFirst
      BY <1>4, <1>7, <2>1 DEF Leave, Finished, Ownership
    <2>3. Matches(l)
      BY <1>1, <2>1
    <2>4. \A m \in Listers : m # l => lister'[m] = Idle
      BY <1>7, <2>2 DEF Leave, Finished, TypeOK, Ownership
    <2>5. lister[l].view \in Seq(Task) /\ lister[l].at \in Nat
      BY <2>1 DEF Listing
    <2>6. CASE Leave(l)
      <3>1. lister'[l].view = lister[l].view /\ lister'[l].at = lister[l].at + 1
        BY <2>1, <2>6 DEF Leave, TypeOK, Listing
      <3>2. Matches(l)'
        BY <1>3, <2>2, <2>3, <2>5, <3>1
      <3>3. QED
        BY <1>2, <2>4, <3>2
    <2>7. CASE Finished(l)
      <3> DEFINE i == lister[l].at
      <3>1. /\ lister'[l].view = DoneAt(lister[l].view, i)
            /\ lister'[l].at = i
            /\ i \in DOMAIN lister[l].view
            /\ IsTrackedScrub(lister[l].view[i])
        BY <2>1, <2>5, <2>7 DEF Finished, TypeOK, Listing, Row
      <3>2. /\ Len(DoneAt(lister[l].view, i)) = Len(lister[l].view)
            /\ DoneAt(lister[l].view, i)[i] = [lister[l].view[i] EXCEPT !.state = "done"]
            /\ \A k \in DOMAIN lister[l].view : k # i => DoneAt(lister[l].view, i)[k] = lister[l].view[k]
        BY <2>5, <3>1 DEF DoneAt
      <3>3. DOMAIN NewestFirst = DOMAIN lister[l].view
        BY <1>3, <2>3, <2>5
      <3>4. lister[l].view[i] = NewestFirst[i]
        <4>1. NewestFirst[i] \in Task
          BY <1>3, <3>1, <3>3
        <4>2. [NewestFirst[i] EXCEPT !.state = "done"].state = "done"
          BY <4>1 DEF Task
        <4>3. QED
          BY <2>3, <3>1, <3>3, <4>2 DEF IsTrackedScrub
      <3>5. Matches(l)'
        BY <2>2, <2>3, <2>5, <3>1, <3>2, <3>3, <3>4
      <3>6. QED
        BY <1>2, <2>4, <3>5
    <2>8. QED
      BY <1>7, <2>6, <2>7
  <1>8. ASSUME NEW l \in Listers, Return(l)
        PROVE  ListingsMatchTheList'
    <2>1. lister[l] # Idle /\ lister' = [lister EXCEPT ![l] = Idle]
      BY <1>8, ListingFacts DEF Return
    <2>2. \A m \in Listers : lister'[m] = Idle
      BY <2>1 DEF TypeOK, Ownership
    <2>3. QED
      BY <1>2, <2>2
  <1>9. ASSUME NEW l \in Listers, UpdateTask(l)
        PROVE  FALSE
    <2>1. mu = NoHolder /\ lister[l].pc = "update"
      BY <1>9 DEF UpdateTask
    <2>2. QED
      BY <2>1, ListingFacts DEF Ownership
  <1>10. CASE UNCHANGED <<tasks, lister>>
    BY <1>1, <1>2, <1>4, <1>10
  <1>11. QED
    BY <1>5, <1>6, <1>7, <1>8, <1>9, <1>10
    DEF Next, vars, Start, CommandSucceeds, CommandFails, Compress, ScrubEnds

\* A listing shows the newest rows of the list as it is, from the copy to the
\* return, whatever the write operations do meanwhile.
THEOREM ListingsAreConsistent == Spec => []ListingsMatchTheList
  <1>1. Init => ListingsMatchTheList
    BY DEF Init, ListingsMatchTheList
  <1>2. TypeInv /\ ListingsMatchTheList /\ [Next]_vars => ListingsMatchTheList'
    BY ListingStep
  <1>3. QED
    BY <1>1, <1>2, TypeInvariant, PTL DEF Spec

-----------------------------------------------------------------------------
(***************************************************************************)
(* The hang.  A listing that has called taskDone under the mutex it holds  *)
(* is waiting for itself, and by Ownership nobody else can let it go on.   *)
(***************************************************************************)

Hung(l) == lister[l].pc = "update"

\* w has still to take the mutex, in taskStart or in updateTask.
WaitsForTheMutex(w) == worker[w].pc \in {"start", "update"}

\* While a listing hangs, no step touches the mutex, the task list, a listing,
\* or an operation that has still to take the mutex.
LEMMA HangStep ==
  ASSUME TypeInv, NEW l \in Listers, Hung(l), [Next]_vars
  PROVE  /\ UNCHANGED <<mu, tasks, lister>>
         /\ \A w \in Workers : WaitsForTheMutex(w) => worker'[w] = worker[w]
  <1> USE DEF TypeInv
  <1>1. mu = l /\ mu # NoHolder /\ \A m \in Listers : m # l => lister[m] = Idle
    <2>1. lister[l] # Idle
      BY ListingFacts DEF Hung
    <2>2. QED
      BY <2>1 DEF Ownership
  <1>2. \A m \in Listers : lister[m].pc # "enrich"
    BY <1>1 DEF Hung, Idle
  <1>3. ASSUME NEW w \in Workers, NEW a \in Offered, NEW p \in Pools, Start(w, a, p)
        PROVE  /\ UNCHANGED <<mu, tasks, lister>>
               /\ \A v \in Workers : WaitsForTheMutex(v) => worker'[v] = worker[v]
    BY <1>3 DEF Start, TypeOK, WaitsForTheMutex, Idle
  <1>4. ASSUME NEW w \in Workers, CommandSucceeds(w) \/ CommandFails(w) \/ Compress(w)
        PROVE  /\ UNCHANGED <<mu, tasks, lister>>
               /\ \A v \in Workers : WaitsForTheMutex(v) => worker'[v] = worker[v]
    <2>1. worker[w].pc \in {"command", "compress"} /\ UNCHANGED <<mu, tasks, lister>>
      BY <1>4 DEF CommandSucceeds, CommandFails, Compress
    <2>2. \A v \in Workers : v # w => worker'[v] = worker[v]
      BY <1>4 DEF CommandSucceeds, CommandFails, Compress, Report, TypeOK
    <2>3. QED
      BY <2>1, <2>2 DEF WaitsForTheMutex
  <1>5. ASSUME NEW w \in Workers
        PROVE  ~Track(w)
    BY <1>1 DEF Track
  <1>6. ASSUME NEW m \in Listers
        PROVE  ~List(m) /\ ~Leave(m) /\ ~Finished(m) /\ ~Return(m)
    BY <1>1, <1>2 DEF List, Leave, Finished, Return
  <1>7. ASSUME NEW g \in Workers \cup Listers
        PROVE  ~UpdateTask(g)
    BY <1>1 DEF UpdateTask
  <1>8. CASE UNCHANGED <<mu, tasks, lister, worker>>
    BY <1>8
  <1>9. QED
    BY <1>3, <1>4, <1>5, <1>6, <1>7, <1>8 DEF Next, vars, ScrubEnds

\* Once a listing hangs, the mutex is never released, the task list never
\* changes and no listing moves again (RecentTasks, enrichTasks, taskDone).
THEOREM TheHangFreezesTheList ==
  ASSUME NEW l \in Listers
  PROVE  Spec => [][Hung(l) => UNCHANGED <<mu, tasks, lister>>]_vars
  <1>1. TypeInv /\ [Next]_vars => [Hung(l) => UNCHANGED <<mu, tasks, lister>>]_vars
    BY HangStep
  <1>2. QED
    BY <1>1, TypeInvariant, PTL DEF Spec

\* A listing that hangs hangs for ever.
THEOREM TheHangIsForEver ==
  ASSUME NEW l \in Listers
  PROVE  Spec => [](Hung(l) => []Hung(l))
  <1>1. TypeInv /\ Hung(l) /\ [Next]_vars => Hung(l)'
    BY HangStep DEF Hung
  <1>2. QED
    BY <1>1, TypeInvariant, PTL DEF Spec

\* And so does every write operation that has still to take the mutex: no
\* deadline of a command ends it, since it waits for a Lock.
THEOREM TheHangTakesTheWriters ==
  ASSUME NEW l \in Listers, NEW w \in Workers
  PROVE  Spec => [](Hung(l) /\ WaitsForTheMutex(w) => []WaitsForTheMutex(w))
  <1>1. TypeInv /\ (Hung(l) /\ WaitsForTheMutex(w)) /\ [Next]_vars
          => (Hung(l) /\ WaitsForTheMutex(w))'
    BY HangStep DEF Hung, WaitsForTheMutex
  <1>2. QED
    BY <1>1, TypeInvariant, PTL DEF Spec

\* So one hang is enough to break the promise of RecentTasks that a listing
\* which was called returns, whatever the scheduler does.
THEOREM AHangRefutesListingsReturn ==
  ASSUME NEW l \in Listers
  PROVE  Spec /\ <>Hung(l) => ~ListingsReturn
  <1>1. Hung(l) => lister[l] # Idle /\ ~(lister[l] = Idle)
    BY DEF Hung, Idle
  <1>2. ListingsReturn => (lister[l] # Idle ~> lister[l] = Idle)
    BY DEF ListingsReturn
  <1>3. Spec => [](Hung(l) => []Hung(l))
    BY TheHangIsForEver
  <1>4. QED
    BY <1>1, <1>2, <1>3, PTL

-----------------------------------------------------------------------------
(***************************************************************************)
(* Where the hang comes from.  Rows keep the operation they were opened    *)
(* for, so where nobody starts a scrub no row is ever taken for one.       *)
(***************************************************************************)

OnlyOffered ==
  /\ \A w \in Workers : worker[w].pc # "idle" => worker[w].action \in Offered
  /\ \A i \in DOMAIN tasks : tasks[i].action \in Offered

\* Every step keeps the operations and the rows among those the environment
\* calls.
LEMMA OfferedStep ==
  ASSUME TypeInv, OnlyOffered, [Next]_vars
  PROVE  OnlyOffered'
  <1> USE DEF TypeInv
  <1>1. ASSUME NEW w \in Workers, NEW a \in Offered, NEW p \in Pools, Start(w, a, p)
        PROVE  OnlyOffered'
    BY <1>1 DEF Start, TypeOK, OnlyOffered
  <1>2. ASSUME NEW w \in Workers, Track(w)
        PROVE  OnlyOffered'
    <2> DEFINE row == RowOf(w)
               all == Append(tasks, row)
    <2>1. worker[w] \in Call /\ worker[w].action \in Offered
      BY <1>2, CallFacts DEF Track, OnlyOffered
    <2>2. row \in Task /\ row.action \in Offered
      BY <2>1 DEF Call, Task, States, RowOf
    <2> HIDE DEF row
    <2>3. /\ all \in Seq(Task)
          /\ \A i \in DOMAIN all : all[i] = row \/ (i \in DOMAIN tasks /\ all[i] = tasks[i])
      BY <2>2 DEF TypeOK
    <2> HIDE DEF all
    <2>4. PICK d \in Nat : /\ Len(all) = Len(Trim(all)) + d
                          /\ \A i \in DOMAIN Trim(all) : Trim(all)[i] = all[i + d]
      BY <2>3, TrimType
    <2>5. Trim(all) \in Seq(Task)
      BY <2>3, TrimType
    <2>6. \A i \in DOMAIN Trim(all) : i + d \in DOMAIN all
      BY <2>3, <2>4, <2>5
    <2>7. tasks' = Trim(all)
      BY <1>2 DEF Track, all, row
    <2>8. \A i \in DOMAIN tasks' : tasks'[i].action \in Offered
      BY <2>2, <2>3, <2>4, <2>6, <2>7 DEF OnlyOffered
    <2>9. \A v \in Workers : worker'[v].pc # "idle" => worker'[v].action \in Offered
      BY <1>2, <2>1 DEF Track, TypeOK, OnlyOffered, Call
    <2>10. QED
      BY <2>8, <2>9 DEF OnlyOffered
  <1>3. ASSUME NEW w \in Workers, CommandSucceeds(w) \/ CommandFails(w) \/ Compress(w)
        PROVE  OnlyOffered'
    <2>1. worker[w] \in Call /\ worker[w].action \in Offered
      BY <1>3, CallFacts DEF CommandSucceeds, CommandFails, Compress, OnlyOffered
    <2>2. UNCHANGED tasks
      BY <1>3 DEF CommandSucceeds, CommandFails, Compress
    <2>3. CASE \E st \in States : Report(w, st)
      BY <2>1, <2>2, <2>3 DEF Report, TypeOK, Call, OnlyOffered
    <2>4. CASE worker' = [worker EXCEPT ![w].pc = "compress"]
      BY <2>1, <2>2, <2>4 DEF TypeOK, Call, OnlyOffered
    <2>5. QED
      BY <1>3, <2>3, <2>4 DEF CommandSucceeds, CommandFails, Compress, States
  <1>4. ASSUME NEW w \in Workers, UpdateTask(w)
        PROVE  OnlyOffered'
    <2>1. /\ worker[w].pc = "update"
          /\ tasks' = WithState(worker[w].id, worker[w].state)
          /\ worker' = [worker EXCEPT ![w] = Idle]
      BY <1>4 DEF UpdateTask
    <2>2. worker[w] \in Call
      BY <2>1, CallFacts
    <2>3. /\ DOMAIN tasks' = DOMAIN tasks
          /\ \A i \in DOMAIN tasks :
               \/ tasks'[i] = tasks[i]
               \/ tasks'[i] = [tasks[i] EXCEPT !.state = worker[w].state]
      BY <2>1, <2>2, WithStateType DEF Call, TypeOK
    <2>4. \A i \in DOMAIN tasks : tasks[i] \in Task
      BY DEF TypeOK
    <2>5. \A i \in DOMAIN tasks : tasks'[i].action = tasks[i].action
      BY <2>3, <2>4 DEF Task
    <2>6. QED
      BY <2>1, <2>3, <2>5 DEF OnlyOffered, TypeOK, Idle
  <1>5. ASSUME NEW l \in Listers, UpdateTask(l)
        PROVE  FALSE
    <2>1. mu = NoHolder /\ lister[l].pc = "update"
      BY <1>5 DEF UpdateTask
    <2>2. QED
      BY <2>1, ListingFacts DEF Ownership
  <1>6. CASE UNCHANGED <<tasks, worker>>
    BY <1>6 DEF OnlyOffered
  <1>7. QED
    BY <1>1, <1>2, <1>3, <1>4, <1>5, <1>6
    DEF Next, vars, List, Leave, Finished, Return, ScrubEnds

\* Where nobody starts a scrub, no listing ever hangs, however many operations
\* and listings run at once: the tracked scrub is the only way into the hang
\* (enrichTasks).
THEOREM NoScrubNoHang ==
  "scrub-start" \notin Offered /\ Spec => [](\A l \in Listers : ~Hung(l))
  <1> SUFFICES ASSUME "scrub-start" \notin Offered
               PROVE  Spec => [](\A l \in Listers : ~Hung(l))
    OBVIOUS
  <1> DEFINE NoHang == \A l \in Listers : ~Hung(l)
  <1>1. Init => OnlyOffered /\ NoHang
    BY DEF Init, OnlyOffered, Hung, Idle
  <1>2. TypeInv /\ OnlyOffered /\ [Next]_vars => OnlyOffered'
    BY OfferedStep
  <1>3. ASSUME TypeInv, OnlyOffered, ListingsMatchTheList, NEW l \in Listers
        PROVE  ~Finished(l)
    <2> SUFFICES ASSUME Finished(l) PROVE FALSE
      OBVIOUS
    <2>1. lister[l] \in Listing /\ lister[l] # Idle
      BY <1>3, ListingFacts DEF Finished, TypeInv
    <2>2. tasks \in Seq(Task) /\ NewestFirst \in Seq(Task)
      BY <1>3, NewestFirstType DEF TypeInv, TypeOK
    <2> DEFINE at == lister[l].at
    <2>3. at \in DOMAIN NewestFirst /\ at \in 1 .. Len(NewestFirst)
      BY <1>3, <2>1, <2>2 DEF Finished, Listing, ListingsMatchTheList
    <2>4. Row(l).action = NewestFirst[at].action
      <3>1. NewestFirst[at] \in Task
        BY <2>2, <2>3
      <3>2. \/ Row(l) = NewestFirst[at]
            \/ Row(l) = [NewestFirst[at] EXCEPT !.state = "done"]
        BY <1>3, <2>1, <2>3 DEF ListingsMatchTheList, Row
      <3>3. QED
        BY <3>1, <3>2 DEF Task
    <2>5. NewestFirst[at].action \in Offered
      <3>1. at \in 1 .. (IF Len(tasks) < Limit THEN Len(tasks) ELSE Limit)
        BY <2>3 DEF NewestFirst
      <3>2. Len(tasks) + 1 - at \in DOMAIN tasks
        BY <2>2, <3>1
      <3>3. NewestFirst[at] = tasks[Len(tasks) + 1 - at]
        BY <3>1 DEF NewestFirst
      <3>4. QED
        BY <1>3, <3>2, <3>3 DEF OnlyOffered
    <2>6. QED
      BY <2>4, <2>5 DEF Finished, IsTrackedScrub
  <1>4. TypeInv /\ OnlyOffered /\ ListingsMatchTheList /\ NoHang /\ [Next]_vars => NoHang'
    <2> SUFFICES ASSUME TypeInv, OnlyOffered, ListingsMatchTheList, NoHang, [Next]_vars,
                        NEW l \in Listers, Hung(l)'
                 PROVE  FALSE
      BY DEF Hung
    <2>1. lister[l].pc # "update" /\ lister'[l].pc = "update"
      BY DEF Hung
    <2>2. ASSUME NEW m \in Listers, List(m) \/ Leave(m) \/ Return(m)
          PROVE  FALSE
      <3>1. \A k \in Listers : k # m => lister'[k] = lister[k]
        BY <2>2 DEF List, Leave, Return, TypeInv, TypeOK
      <3>2. m = l
        BY <2>1, <3>1
      <3>3. CASE List(l)
        BY <2>1, <3>3 DEF List, TypeInv, TypeOK
      <3>4. CASE Leave(l)
        <4>1. lister[l].pc = "enrich" /\ lister[l] \in Listing
          BY <3>4, ListingFacts DEF Leave, TypeInv
        <4>2. lister'[l] = [lister[l] EXCEPT !.at = @ + 1]
          BY <3>4 DEF Leave, TypeInv, TypeOK
        <4>3. QED
          BY <2>1, <4>1, <4>2 DEF Listing
      <3>5. CASE Return(l)
        BY <2>1, <3>5 DEF Return, Idle, TypeInv, TypeOK
      <3>6. QED
        BY <2>2, <3>2, <3>3, <3>4, <3>5
    <2>3. ASSUME NEW m \in Listers
          PROVE  ~Finished(m) /\ ~UpdateTask(m)
      BY <1>3 DEF NoHang, Hung, UpdateTask
    <2>4. CASE UNCHANGED lister
      BY <2>1, <2>4
    <2>5. QED
      BY <2>2, <2>3, <2>4
      DEF Next, vars, Start, Track, CommandSucceeds, CommandFails, Compress, UpdateTask, ScrubEnds
  <1>5. QED
    BY <1>1, <1>2, <1>4, ListingsAreConsistent, TypeInvariant, PTL DEF Spec
=============================================================================
