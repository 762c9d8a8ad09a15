-------------------------- MODULE EventStreamProofs --------------------------
(* What TLAPS proves of the event streams over the tracked operations. *)
EXTENDS EventStream, ZFSTasksProofs

USE StreamsAssumption

-----------------------------------------------------------------------------
(***************************************************************************)
(* The composition implements its component: whatever a stream or its      *)
(* client does is a step of the tracked operations, or none of theirs.     *)
(***************************************************************************)

\* What a step of a stream or of a client does to the tracked operations: the
\* first or the last step of a listing, or nothing.
LEMMA StreamStepFacts ==
  ASSUME NEW s \in Streams,
         \/ Open(s) \/ RenderEvents(s) \/ SendEvents(s) \/ StreamList(s)
         \/ RenderNone(s) \/ StreamReturn(s) \/ SendTasks(s) \/ Tick(s)
         \/ Stall(s) \/ Resume(s) \/ GoAway(s) \/ Reset(s)
  PROVE  List(s) \/ Return(s) \/ UNCHANGED vars
  BY DEF Open, RenderEvents, SendEvents, SendTasks, Send, StreamList, RenderNone,
         StreamReturn, Tick, Stall, Resume, GoAway, Reset, tasksVars

\* Every step of the composed system is a step of ZFSTasks or a stutter.
LEMMA StreamStep == [StreamNext]_streamVars => [Next]_vars
  <1> SUFFICES ASSUME [StreamNext]_streamVars PROVE [Next]_vars
    OBVIOUS
  <1>1. CASE TasksStep
    BY <1>1 DEF TasksStep, Next
  <1>2. ASSUME NEW s \in Streams,
               \/ Open(s) \/ RenderEvents(s) \/ SendEvents(s) \/ StreamList(s)
               \/ RenderNone(s) \/ StreamReturn(s) \/ SendTasks(s) \/ Tick(s)
               \/ Stall(s) \/ Resume(s) \/ GoAway(s) \/ Reset(s)
        PROVE  [Next]_vars
    <2>1. s \in Listers
      OBVIOUS
    <2>2. List(s) \/ Return(s) \/ UNCHANGED vars
      BY <1>2, StreamStepFacts
    <2>3. QED
      BY <2>1, <2>2 DEF Next
  <1>3. CASE UNCHANGED streamVars
    BY <1>3 DEF streamVars, tasksVars
  <1>4. QED
    BY <1>1, <1>2, <1>3 DEF StreamNext

\* The streams and their clients, whatever they do, leave the tracked
\* operations a behaviour of ZFSTasks: every theorem about it is one about them.
THEOREM StreamsImplementTasks == StreamSpec => Spec
  <1>1. StreamInit => Init
    BY DEF StreamInit
  <1>2. QED
    BY <1>1, StreamStep, PTL DEF StreamSpec, Spec

\* In particular, with a clock that advances, the rows still tell the outcome of
\* their own operation, and a listing, by a stream or not, shows the list as it is.
THEOREM StreamedRowsAreTrue ==
  ClockAdvances /\ StreamSpec
    => [](RowsTellTheOutcome /\ IdsNameOneOperation /\ ListingsMatchTheList)
  BY StreamsImplementTasks, OutcomesAreTold, ListingsAreConsistent, PTL

-----------------------------------------------------------------------------
(***************************************************************************)
(* Streams, their clients and the mutex.                                   *)
(***************************************************************************)

\* Whoever the mutex is with, it is no stream that sends or waits: a client
\* that reads nothing keeps nobody else from the task list.
SendersHoldNothing == \A s \in Streams : mu = s => stream[s] = "tasks"

\* A step of the tracked operations by anybody else starts no listing of a
\* stream.
LEMMA TasksStepFacts ==
  ASSUME TypeInv, TasksStep, NEW s \in Streams, lister[s] = Idle
  PROVE  lister'[s] = Idle
  <1> USE DEF TypeInv, TypeOK
  <1>1. ASSUME NEW l \in Listers, lister[l].pc # "idle"
        PROVE  l # s
    BY <1>1 DEF Idle
  <1>2. ASSUME NEW l \in Listers \ Streams, List(l) \/ Return(l)
        PROVE  lister'[s] = Idle
    BY <1>2 DEF List, Return
  <1>3. ASSUME NEW l \in Listers, Leave(l) \/ Finished(l)
        PROVE  lister'[s] = Idle
    BY <1>3, <1>1 DEF Leave, Finished
  <1>4. ASSUME NEW g \in Workers \cup Listers, UpdateTask(g)
        PROVE  lister'[s] = Idle
    BY <1>4, <1>1 DEF UpdateTask
  <1>5. CASE UNCHANGED lister
    BY <1>5
  <1>6. QED
    BY <1>2, <1>3, <1>4, <1>5
    DEF TasksStep, Start, Track, CommandSucceeds, CommandFails, Compress, ScrubEnds

\* Every step keeps listings to the streams that render.
LEMMA RenderStep ==
  TypeInv /\ StreamsListToRender /\ [StreamNext]_streamVars => StreamsListToRender'
  <1> SUFFICES ASSUME TypeInv, StreamsListToRender, [StreamNext]_streamVars
               PROVE  StreamsListToRender'
    OBVIOUS
  <1> USE DEF StreamsListToRender, StreamSteps, Clients, GoTo
  <1>1. CASE TasksStep /\ UNCHANGED <<stream, client>>
    BY <1>1, TasksStepFacts
  <1>2. ASSUME NEW s \in Streams, Open(s)
        PROVE  StreamsListToRender'
    BY <1>2 DEF Open, tasksVars, vars
  <1>3. ASSUME NEW s \in Streams, RenderEvents(s) \/ Tick(s) \/ RenderNone(s)
        PROVE  StreamsListToRender'
    BY <1>3 DEF RenderEvents, Tick, RenderNone, tasksVars, vars
  <1>4. ASSUME NEW s \in Streams, SendEvents(s)
        PROVE  StreamsListToRender'
    BY <1>4 DEF SendEvents, Send, Close, tasksVars, vars
  <1>5. ASSUME NEW s \in Streams, SendTasks(s)
        PROVE  StreamsListToRender'
    BY <1>5 DEF SendTasks, Send, Close, tasksVars, vars
  <1>6. ASSUME NEW s \in Streams, StreamList(s)
        PROVE  StreamsListToRender'
    BY <1>6 DEF StreamList, List, TypeInv, TypeOK
  <1>7. ASSUME NEW s \in Streams, StreamReturn(s)
        PROVE  StreamsListToRender'
    <2>1. lister[s] # Idle /\ lister' = [lister EXCEPT ![s] = Idle]
      BY <1>7, ListingFacts DEF StreamReturn, Return, TypeInv
    <2>2. stream[s] = "tasks"
      BY <2>1
    <2>3. QED
      BY <1>7, <2>1, <2>2 DEF StreamReturn, TypeInv, TypeOK
  <1>8. ASSUME NEW s \in Streams, Stall(s) \/ Resume(s) \/ GoAway(s) \/ Reset(s)
        PROVE  StreamsListToRender'
    BY <1>8 DEF Stall, Resume, GoAway, Reset, tasksVars, vars
  <1>9. CASE UNCHANGED streamVars
    BY <1>9 DEF streamVars, tasksVars, vars
  <1>10. QED
    BY <1>1, <1>2, <1>3, <1>4, <1>5, <1>6, <1>7, <1>8, <1>9 DEF StreamNext

\* A stream lists while it renders the tasks, and never while it sends.
THEOREM StreamsRenderOnly == StreamSpec => []StreamsListToRender
  <1>1. StreamInit => StreamsListToRender
    BY DEF StreamInit, Init, StreamsListToRender, StreamSteps, Clients
  <1>2. StreamSpec => []TypeInv
    BY StreamsImplementTasks, TypeInvariant, PTL
  <1>3. QED
    BY <1>1, <1>2, RenderStep, PTL DEF StreamSpec

\* No stream holds the mutex of the task list while it sends or waits, however
\* many streams there are and whatever their clients do.
THEOREM SendingHoldsNoMutex == StreamSpec => []SendersHoldNothing
  <1>1. TypeInv /\ StreamsListToRender => SendersHoldNothing
    BY DEF TypeInv, Ownership, StreamsListToRender, SendersHoldNothing
  <1>2. StreamSpec => []TypeInv
    BY StreamsImplementTasks, TypeInvariant, PTL
  <1>3. QED
    BY <1>1, <1>2, StreamsRenderOnly, PTL
=============================================================================
