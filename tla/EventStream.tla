---------------------------- MODULE EventStream ----------------------------
(***************************************************************************)
(* The server-sent events of the ZFS page (internal/server/router.go, GET  *)
(* /api/zfs/stream) over the tracked operations of ZFSTasks.  A stream is  *)
(* one more lister: a goroutine that, at once and then every five seconds, *)
(* reads the pool events, sends them, lists the tasks, sends them, and     *)
(* ends only when a send fails.  It renders with a background context, and *)
(* requestCtx.Done, which fasthttp closes when the server is shut down,    *)
(* never fires: nothing shuts the server down.                             *)
(*                                                                         *)
(* A client may stop reading for as long as it likes, which blocks a send, *)
(* and it may go away, which the next send learns only after TCP does.     *)
(***************************************************************************)
EXTENDS ZFSTasks

CONSTANT Streams   \* the listers that are event streams

ASSUME StreamsAssumption == Streams \subseteq Listers

VARIABLES
  stream,   \* stream[s]: what the goroutine does next, or "closed"
  client    \* client[s]: the other end of the connection of s

tasksVars  == vars
streamVars == <<tasksVars, stream, client>>

StreamSteps == {"closed", "events", "sendEvents", "tasks", "sendTasks", "wait"}

\* "stalled": it does not read and every buffer on the way is full.  "gone":
\* it has closed the connection; "reset": and the server's TCP knows.
Clients == {"none", "reading", "stalled", "gone", "reset"}

\* A stream lists while it renders the tasks, and never while it sends: no
\* client can make it keep the mutex.
StreamsListToRender ==
  /\ stream \in [Streams -> StreamSteps]
  /\ client \in [Streams -> Clients]
  /\ \A s \in Streams :
       /\ lister[s] # Idle => stream[s] = "tasks"
       /\ stream[s] = "closed" <=> client[s] = "none"

-----------------------------------------------------------------------------
StreamInit ==
  /\ Init
  /\ stream = [s \in Streams |-> "closed"]
  /\ client = [s \in Streams |-> "none"]

GoTo(s, step) == stream' = [stream EXCEPT ![s] = step]

\* A browser opens the page: the handler answers with the stream writer, which
\* starts on its first snapshot.
Open(s) ==
  /\ stream[s] = "closed"
  /\ GoTo(s, "events")
  /\ client' = [client EXCEPT ![s] = "reading"]
  /\ UNCHANGED tasksVars

\* The writer returns: the connection and its goroutine are gone.
Close(s) ==
  /\ GoTo(s, "closed")
  /\ client' = [client EXCEPT ![s] = "none"]

\* RecentEvents: a zpool events with a deadline, off the mutex.  An error is
\* rendered in place of the lines, so it always goes on to a send.
RenderEvents(s) ==
  /\ stream[s] = "events"
  /\ GoTo(s, "sendEvents")
  /\ UNCHANGED <<tasksVars, client>>

\* Mutant: a failed send does not end the stream.
SendUnchecked(s, here, next) ==
  /\ stream[s] = here
  /\ client[s] # "stalled"
  /\ GoTo(s, next)
  /\ UNCHANGED <<tasksVars, client>>

\* writeSSEEvent, and Flush after the tasks: it blocks on a client that has
\* stalled, fails once TCP knows that the client is gone, and not before.
Send(s, here, next) ==
  /\ stream[s] = here
  /\ \/ /\ client[s] \in {"reading", "gone"}
        /\ GoTo(s, next)
        /\ UNCHANGED client
     \/ /\ client[s] = "reset"
        /\ Close(s)
  /\ UNCHANGED tasksVars

SendEvents(s) == Send(s, "sendEvents", "tasks")
SendTasks(s)  == Send(s, "sendTasks", "wait")

\* Five seconds later, the next snapshot.
Tick(s) ==
  /\ stream[s] = "wait"
  /\ GoTo(s, "events")
  /\ UNCHANGED <<tasksVars, client>>

\* renderZFSTasksHTML finds no task: RecentTasks returns at once.
RenderNone(s) ==
  /\ stream[s] = "tasks"
  /\ lister[s] = Idle
  /\ mu = NoHolder
  /\ tasks = <<>>
  /\ GoTo(s, "sendTasks")
  /\ UNCHANGED <<tasksVars, client>>

\* RecentTasks of the stream takes the mutex.
StreamList(s) ==
  /\ stream[s] = "tasks"
  /\ List(s)
  /\ UNCHANGED <<stream, client>>

\* Mutant: rows are sent while RecentTasks still holds the mutex.
StreamReturnSends(s) ==
  \/ /\ lister[s].pc = "enrich"
     /\ stream[s] = "tasks"
     /\ GoTo(s, "sendTasks")
     /\ UNCHANGED <<tasksVars, client>>
  \/ /\ stream[s] = "wait"
     /\ Return(s)
     /\ UNCHANGED <<stream, client>>

\* RecentTasks returns, and the rows are rendered.
StreamReturn(s) ==
  /\ Return(s)
  /\ GoTo(s, "sendTasks")
  /\ UNCHANGED client

-----------------------------------------------------------------------------
(* The client *)

Stall(s) ==
  /\ client[s] = "reading"
  /\ client' = [client EXCEPT ![s] = "stalled"]
  /\ UNCHANGED <<tasksVars, stream>>

Resume(s) ==
  /\ client[s] = "stalled"
  /\ client' = [client EXCEPT ![s] = "reading"]
  /\ UNCHANGED <<tasksVars, stream>>

GoAway(s) ==
  /\ client[s] \in {"reading", "stalled"}
  /\ client' = [client EXCEPT ![s] = "gone"]
  /\ UNCHANGED <<tasksVars, stream>>

\* A reset arrives, or retransmission gives up.
Reset(s) ==
  /\ client[s] = "gone"
  /\ client' = [client EXCEPT ![s] = "reset"]
  /\ UNCHANGED <<tasksVars, stream>>

-----------------------------------------------------------------------------
\* A step of ZFSTasks that is no listing's first or last step by a stream.
TasksStep ==
  \/ \E w \in Workers, a \in Offered, p \in Pools : Start(w, a, p)
  \/ \E w \in Workers : \/ Track(w)
                        \/ CommandSucceeds(w)
                        \/ CommandFails(w)
                        \/ Compress(w)
  \/ \E l \in Listers \ Streams : List(l) \/ Return(l)
  \/ \E l \in Listers : Leave(l) \/ Finished(l)
  \/ \E g \in Workers \cup Listers : UpdateTask(g)
  \/ \E p \in Pools : ScrubEnds(p)

StreamNext ==
  \/ TasksStep /\ UNCHANGED <<stream, client>>
  \/ \E s \in Streams : \/ Open(s)
                        \/ RenderEvents(s)
                        \/ SendEvents(s)
                        \/ StreamList(s)
                        \/ RenderNone(s)
                        \/ StreamReturn(s)
                        \/ SendTasks(s)
                        \/ Tick(s)
  \/ \E s \in Streams : Stall(s) \/ Resume(s) \/ GoAway(s) \/ Reset(s)

StreamSpec == StreamInit /\ [][StreamNext]_streamVars

(***************************************************************************)
(* Fairness: that of ZFSTasks for the calls under way; every stream runs   *)
(* whenever it can, and gets the mutex; TCP learns of a client that is     *)
(* gone.  Nobody has to open a stream, to read from it or to leave it.     *)
(***************************************************************************)
StreamFairSpec ==
  /\ StreamSpec
  /\ \A w \in Workers :
       /\ SF_streamVars(Track(w) /\ UNCHANGED <<stream, client>>)
       /\ WF_streamVars(/\ CommandSucceeds(w) \/ CommandFails(w) \/ Compress(w)
                        /\ UNCHANGED <<stream, client>>)
       /\ SF_streamVars(UpdateTask(w) /\ UNCHANGED <<stream, client>>)
  /\ \A l \in Listers \ Streams :
       WF_streamVars(/\ Leave(l) \/ Finished(l) \/ Return(l)
                     /\ UNCHANGED <<stream, client>>)
  /\ \A s \in Streams :
       /\ WF_streamVars(\/ (Leave(s) \/ Finished(s)) /\ UNCHANGED <<stream, client>>
                        \/ StreamReturn(s) \/ RenderEvents(s) \/ SendEvents(s)
                        \/ SendTasks(s) \/ Tick(s))
       /\ SF_streamVars(StreamList(s) \/ RenderNone(s))
       /\ WF_streamVars(Reset(s))

-----------------------------------------------------------------------------
(* Properties *)

\* The stream of a client that has gone away ends, although nothing but a
\* failed send ends it, and it waits for the mutex like everybody else.
StreamsEnd == \A s \in Streams : client[s] \in {"gone", "reset"} ~> stream[s] = "closed"
=============================================================================
