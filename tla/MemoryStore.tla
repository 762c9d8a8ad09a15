---------------------------- MODULE MemoryStore -----------------------------
(***************************************************************************)
(* The in-memory secret store (internal/secrets/memory.go): the secrets,   *)
(* the watchers' channels, and the buffers that hold secret data, because  *)
(* what the store promises is that nobody shares a buffer with it.         *)
(*                                                                         *)
(* Every method is one critical section of the store's RWMutex.  Closing a *)
(* watcher's channel is not: a goroutine per Watch call does it when the   *)
(* caller's context ends.  A Put that comes later sends on that channel,   *)
(* which panics; nothing in the program recovers, so the process is gone.  *)
(***************************************************************************)
EXTENDS Integers, Sequences

CONSTANTS
  Paths,     \* secret paths
  Watchers,  \* Watch calls
  MaxPuts,   \* bound: how many Puts
  MaxGets    \* bound: how many Gets

ASSUME ConstantsAssumption ==
  /\ MaxPuts \in Nat
  /\ MaxGets \in Nat

VARIABLES
  heap,      \* heap[b]: the data in buffer b, the number of the Put that wrote it
  values,    \* MemoryStore.values: the buffer of each secret, or None
  watchers,  \* MemoryStore.watchers: the Watch calls of each path, in order
  channel,   \* channel[w]: the buffers in the channel of w, which has room for one
  context,   \* context[w]: how far the Watch call w is
  hands,     \* the buffers that callers hold and may write to
  seen,      \* history: the data w received last, or 0
  puts,      \* how many Puts there have been
  gets,      \* how many Gets there have been
  panicked   \* whether a Put has panicked

vars == <<heap, values, watchers, channel, context, hands, seen, puts, gets, panicked>>

None        == 0
Overwritten == -1    \* the data of a buffer that a caller has written to

Buffers == 1 .. Len(heap)

TypeOK ==
  /\ heap \in Seq(Nat \cup {Overwritten})
  /\ values \in [Paths -> Buffers \cup {None}]
  /\ watchers \in [Paths -> Seq(Watchers)]
  /\ channel \in [Watchers -> Seq(Buffers)]
  /\ \A w \in Watchers : Len(channel[w]) <= 1
  /\ context \in [Watchers -> {"unused", "open", "done", "closed"}]
  /\ hands \subseteq Buffers
  /\ seen \in [Watchers -> Nat \cup {Overwritten}]
  /\ puts \in 0 .. MaxPuts
  /\ gets \in 0 .. MaxGets
  /\ panicked \in BOOLEAN

Init ==
  /\ heap = <<>>
  /\ values = [p \in Paths |-> None]
  /\ watchers = [p \in Paths |-> <<>>]
  /\ channel = [w \in Watchers |-> <<>>]
  /\ context = [w \in Watchers |-> "unused"]
  /\ hands = {}
  /\ seen = [w \in Watchers |-> 0]
  /\ puts = 0
  /\ gets = 0
  /\ panicked = FALSE

-----------------------------------------------------------------------------
\* The loop of Put sends to these watchers of p, given by their position: those
\* before the first closed channel.
Reached(p) ==
  {i \in DOMAIN watchers[p] : \A j \in 1 .. i : context[watchers[p][j]] # "closed"}

\* The buffers Put works with: the caller's, the stored copy, and a copy for the
\* watcher at position i (made even when the channel has no room for it).
CallersBuffer == Len(heap) + 1

\* Mutant: the caller's buffer is stored.
StoredCopyIsCallers == Len(heap) + 1

StoredCopy == Len(heap) + 2

\* Mutant: the caller's buffer is sent.
CopyIsCallers(i) == Len(heap) + 1

Copy(i) == Len(heap) + 2 + i

\* Mutant: the send does not look for room.
SendAnyway(p) ==
  [w \in Watchers |->
     IF \E i \in Reached(p) : watchers[p][i] = w
     THEN Append(channel[w], Copy(CHOOSE i \in Reached(p) : watchers[p][i] = w))
     ELSE channel[w]]

\* The channels after Put's sends, which take place only where there is room.
Send(p) ==
  [w \in Watchers |->
     IF channel[w] = <<>> /\ \E i \in Reached(p) : watchers[p][i] = w
     THEN <<Copy(CHOOSE i \in Reached(p) : watchers[p][i] = w)>>
     ELSE channel[w]]

\* A caller fills a new buffer and Puts it at p.
Put(p) ==
  /\ ~panicked
  /\ puts < MaxPuts
  /\ puts' = puts + 1
  /\ heap' = heap \o [b \in 1 .. 2 + Len(watchers[p]) |-> puts + 1]
  /\ values' = [values EXCEPT ![p] = StoredCopy]
  /\ channel' = Send(p)
  /\ panicked' = (Reached(p) # DOMAIN watchers[p])
  /\ hands' = hands \cup {CallersBuffer}
  /\ UNCHANGED <<watchers, context, seen, gets>>

\* Get hands out a copy.  A secret that is not there is an error, which changes
\* nothing, and List reads only.
Get(p) ==
  /\ ~panicked
  /\ gets < MaxGets
  /\ gets' = gets + 1
  /\ values[p] # None
  /\ heap' = Append(heap, heap[values[p]])
  /\ hands' = hands \cup {Len(heap) + 1}
  /\ UNCHANGED <<values, watchers, channel, context, seen, puts, panicked>>

\* Watchers hear nothing of it.
Delete(p) ==
  /\ ~panicked
  /\ values' = [values EXCEPT ![p] = None]
  /\ UNCHANGED <<heap, watchers, channel, context, hands, seen, puts, gets, panicked>>

Watch(w, p) ==
  /\ ~panicked
  /\ context[w] = "unused"
  /\ context' = [context EXCEPT ![w] = "open"]
  /\ watchers' = [watchers EXCEPT ![p] = Append(@, w)]
  /\ UNCHANGED <<heap, values, channel, hands, seen, puts, gets, panicked>>

-----------------------------------------------------------------------------
(* The callers, and the goroutine of a Watch call *)

\* The context that was given to Watch ends.
Cancel(w) ==
  /\ ~panicked
  /\ context[w] = "open"
  /\ context' = [context EXCEPT ![w] = "done"]
  /\ UNCHANGED <<heap, values, watchers, channel, hands, seen, puts, gets, panicked>>

\* The goroutine closes the channel; the watcher stays registered.
Close(w) ==
  /\ ~panicked
  /\ context[w] = "done"
  /\ context' = [context EXCEPT ![w] = "closed"]
  /\ UNCHANGED <<heap, values, watchers, channel, hands, seen, puts, gets, panicked>>

Receive(w) ==
  /\ ~panicked
  /\ channel[w] # <<>>
  /\ channel' = [channel EXCEPT ![w] = <<>>]
  /\ hands' = hands \cup {channel[w][1]}
  /\ seen' = [seen EXCEPT ![w] = heap[channel[w][1]]]
  /\ UNCHANGED <<heap, values, watchers, context, puts, gets, panicked>>

\* A caller writes to a buffer it holds.
Overwrite(b) ==
  /\ ~panicked
  /\ heap' = [heap EXCEPT ![b] = Overwritten]
  /\ UNCHANGED <<values, watchers, channel, context, hands, seen, puts, gets, panicked>>

Next ==
  \/ \E p \in Paths : \/ Put(p) \/ Get(p) \/ Delete(p)
                      \/ \E w \in Watchers : Watch(w, p)
  \/ \E w \in Watchers : Cancel(w) \/ Close(w) \/ Receive(w)
  \/ \E b \in hands : Overwrite(b)

Spec == Init /\ [][Next]_vars

-----------------------------------------------------------------------------
(* Properties *)

Content == [p \in Paths |-> IF values[p] = None THEN 0 ELSE heap[values[p]]]

Secrets == INSTANCE SecretMap WITH content <- Content

\* The store is a map that only Put and Delete change, whatever callers do to
\* the buffers they put, got or received (Get, Put, cloneSecretValue).
ImplementsSecretMap == Secrets!Spec

\* A watcher receives what was put, each Put at most once and in the order of
\* the Puts, whatever the caller of Put does to its buffer meanwhile.
ReceivedInOrder == [][\A w \in Watchers : seen'[w] = seen[w] \/ seen'[w] > seen[w]]_seen

\* "Put writes the secret" (memory.go:42), also when a watcher has gone: it does
\* not panic.
PutsReturn == ~panicked
=============================================================================
