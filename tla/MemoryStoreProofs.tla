-------------------------- MODULE MemoryStoreProofs --------------------------
(***************************************************************************)
(* The in-memory store keeps its buffers to itself, for any paths,         *)
(* watchers and numbers of Puts and Gets: it is a map that only Put and    *)
(* Delete change, and watchers receive in the order of the Puts.           *)
(***************************************************************************)
EXTENDS MemoryStore, SequenceTheorems, TLAPS

-----------------------------------------------------------------------------
(* Sequences of buffers. *)

\* A heap that grows by n buffers of one content.
LEMMA HeapGrows ==
  ASSUME NEW S, NEW h \in Seq(S), NEW n \in Nat, NEW c \in S, NEW g,
         g = h \o [b \in 1 .. n |-> c]
  PROVE  /\ g \in Seq(S) /\ Len(g) = Len(h) + n
         /\ \A b \in 1 .. Len(h) : g[b] = h[b]
         /\ \A b \in Len(h) + 1 .. Len(h) + n : g[b] = c
  <1> DEFINE new == [b \in 1 .. n |-> c]
  <1>1. new \in Seq(S) /\ Len(new) = n
    OBVIOUS
  <1> HIDE DEF new
  <1>2. g \in Seq(S) /\ Len(g) = Len(h) + n
    BY <1>1, ConcatProperties DEF new
  <1>3. \A b \in 1 .. Len(h) + n : g[b] = IF b <= Len(h) THEN h[b] ELSE new[b - Len(h)]
    BY <1>1, ConcatProperties DEF new
  <1>4. QED
    BY <1>1, <1>2, <1>3 DEF new

\* A sequence over a set is one over any larger set.
LEMMA SeqWider ==
  ASSUME NEW S, NEW T, S \subseteq T, NEW s \in Seq(S)
  PROVE  s \in Seq(T)
  <1>1. Len(s) \in Nat /\ s = [i \in 1 .. Len(s) |-> s[i]] /\ \A i \in 1 .. Len(s) : s[i] \in T
    OBVIOUS
  <1>2. QED
    BY <1>1

\* Where the copy for a watcher comes from: from its own place in the list.
PlaceOf(p, w) == CHOOSE i \in Reached(p) : watchers[p][i] = w
IsReached(p, w) == \E i \in Reached(p) : watchers[p][i] = w

LEMMA PlacesDiffer ==
  ASSUME NEW p \in Paths, watchers \in [Paths -> Seq(Watchers)],
         NEW w \in Watchers, IsReached(p, w)
  PROVE  /\ PlaceOf(p, w) \in 1 .. Len(watchers[p])
         /\ watchers[p][PlaceOf(p, w)] = w
  BY DEF PlaceOf, IsReached, Reached

-----------------------------------------------------------------------------
(* Who holds which buffer. *)

\* A stored buffer is in nobody's hands and holds the data of a Put.
StoreKeepsItsBuffers ==
  \A p \in Paths : values[p] # None =>
    /\ values[p] \notin hands
    /\ heap[values[p]] \in 1 .. puts

\* A buffer in a channel is not stored, in nobody's hands and in no other
\* channel, and newer than what its watcher has received.
ChannelsKeepTheirs ==
  /\ \A w \in Watchers : seen[w] \in 0 .. puts
  /\ \A w \in Watchers : channel[w] # <<>> =>
       /\ channel[w][1] \in Buffers \ hands
       /\ \A p \in Paths : values[p] # channel[w][1]
       /\ \A v \in Watchers \ {w} : channel[v] # <<>> => channel[v][1] # channel[w][1]
       /\ heap[channel[w][1]] \in 1 .. puts
       /\ seen[w] < heap[channel[w][1]]

BuffersInv == TypeOK /\ StoreKeepsItsBuffers /\ ChannelsKeepTheirs

LEMMA BuffersInit == Init => BuffersInv
  <1> SUFFICES ASSUME Init PROVE BuffersInv
    OBVIOUS
  <1>1. TypeOK
    <2>1. /\ heap \in Seq(Nat \cup {Overwritten}) /\ seen \in [Watchers -> Nat \cup {Overwritten}]
          /\ puts \in 0 .. MaxPuts /\ gets \in 0 .. MaxGets
      BY ConstantsAssumption DEF Init
    <2>2. /\ channel \in [Watchers -> Seq(Buffers)] /\ watchers \in [Paths -> Seq(Watchers)]
          /\ \A w \in Watchers : Len(channel[w]) <= 1
      BY DEF Init
    <2>3. values \in [Paths -> Buffers \cup {None}] /\ hands \subseteq Buffers
      BY DEF Init
    <2>4. context \in [Watchers -> {"unused", "open", "done", "closed"}] /\ panicked \in BOOLEAN
      BY DEF Init
    <2>5. QED
      BY <2>1, <2>2, <2>3, <2>4 DEF TypeOK
  <1>2. QED
    BY <1>1 DEF Init, BuffersInv, StoreKeepsItsBuffers, ChannelsKeepTheirs, None

\* A Put stores, sends and hands out new buffers only.
LEMMA PutKeeps ==
  ASSUME NEW p \in Paths, BuffersInv, Put(p)
  PROVE  BuffersInv'
  <1> DEFINE old == Len(heap)
             n == Len(watchers[p])
  <1>0. /\ n \in Nat /\ old \in Nat /\ puts \in Nat /\ puts + 1 \in Nat \cup {Overwritten}
        /\ heap \in Seq(Nat \cup {Overwritten}) /\ Buffers = 1 .. old
        /\ watchers \in [Paths -> Seq(Watchers)] /\ channel \in [Watchers -> Seq(1 .. old)]
        /\ values \in [Paths -> 1 .. old \cup {None}] /\ hands \subseteq 1 .. old
        /\ \A w \in Watchers : Len(channel[w]) <= 1
    BY DEF BuffersInv, TypeOK, Buffers
  <1>1. /\ heap' \in Seq(Nat \cup {Overwritten}) /\ Len(heap') = old + (2 + n)
        /\ \A b \in 1 .. old : heap'[b] = heap[b]
        /\ \A b \in old + 1 .. old + (2 + n) : heap'[b] = puts + 1
    <2>1. heap' = heap \o [b \in 1 .. 2 + n |-> puts + 1] /\ 2 + n \in Nat
      BY <1>0 DEF Put
    <2> HIDE DEF n
    <2>2. QED
      BY <1>0, <2>1, HeapGrows
  <1>2. values' = [values EXCEPT ![p] = old + 2] /\ hands' = hands \cup {old + 1}
    BY DEF Put, StoredCopy, CallersBuffer
  <1>3. UNCHANGED <<watchers, context, seen, gets>> /\ puts' = puts + 1 /\ puts < MaxPuts
    BY DEF Put
  <1>4. ASSUME NEW w \in Watchers
        PROVE  \/ channel'[w] = channel[w]
               \/ /\ channel[w] = <<>> /\ IsReached(p, w)
                  /\ channel'[w] = <<old + 2 + PlaceOf(p, w)>>
    BY <1>0 DEF Put, Send, Copy, IsReached, PlaceOf
  <1>5. ASSUME NEW w \in Watchers, IsReached(p, w)
        PROVE  PlaceOf(p, w) \in 1 .. n /\ watchers[p][PlaceOf(p, w)] = w
    BY <1>0, <1>5, PlacesDiffer
  <1>b. Buffers' = 1 .. old + (2 + n)
    BY <1>1 DEF Buffers
  <1> HIDE DEF old, n
  <1>6. TypeOK'
    <2>1. channel' \in [Watchers -> Seq(Buffers')] /\ \A w \in Watchers : Len(channel'[w]) <= 1
      <3>1. channel' = [w \in Watchers |-> channel'[w]]
        BY DEF Put, Send
      <3>2. ASSUME NEW w \in Watchers PROVE channel'[w] \in Seq(Buffers') /\ Len(channel'[w]) <= 1
        <4>1. CASE channel'[w] = channel[w]
          <5>1. channel[w] \in Seq(1 .. old) /\ Len(channel[w]) <= 1
            BY <1>0
          <5>2. 1 .. old \subseteq Buffers'
            BY <1>0, <1>b
          <5>3. QED
            BY <4>1, <5>1, <5>2, SeqWider
        <4>2. CASE IsReached(p, w) /\ channel'[w] = <<old + 2 + PlaceOf(p, w)>>
          <5>1. old + 2 + PlaceOf(p, w) \in Buffers'
            BY <4>2, <1>0, <1>b, <1>5
          <5>2. QED
            BY <4>2, <5>1
        <4>3. QED
          BY <1>4, <4>1, <4>2
      <3>3. QED
        BY <3>1, <3>2
    <2>2. values' \in [Paths -> Buffers' \cup {None}] /\ hands' \subseteq Buffers'
      <3>1. old + 1 \in Buffers' /\ old + 2 \in Buffers' /\ 1 .. old \subseteq Buffers'
        BY <1>0, <1>b
      <3>2. QED
        BY <1>0, <1>2, <3>1
    <2>3. puts' \in 0 .. MaxPuts
      BY <1>0, <1>3, ConstantsAssumption
    <2>4. panicked' \in BOOLEAN
      BY DEF Put
    <2>5. QED
      BY <1>1, <1>3, <2>1, <2>2, <2>3, <2>4 DEF BuffersInv, TypeOK
  <1>7. StoreKeepsItsBuffers'
    <2> SUFFICES ASSUME NEW q \in Paths, values'[q] # None
                 PROVE  values'[q] \notin hands' /\ heap'[values'[q]] \in 1 .. puts'
      BY DEF StoreKeepsItsBuffers
    <2>1. CASE q = p
      <3>1. values'[q] = old + 2
        BY <1>0, <1>2, <2>1
      <3>2. old + 2 \notin hands' /\ heap'[old + 2] = puts + 1
        BY <1>0, <1>1, <1>2
      <3>3. QED
        BY <1>0, <1>3, <3>1, <3>2
    <2>2. CASE q # p
      <3>1. values'[q] = values[q] /\ values[q] \in 1 .. old
        BY <1>0, <1>2, <2>2 DEF None
      <3>2. values[q] \notin hands /\ heap[values[q]] \in 1 .. puts
        BY <3>1, <2>2 DEF BuffersInv, StoreKeepsItsBuffers
      <3>3. QED
        BY <1>0, <1>1, <1>2, <1>3, <3>1, <3>2
    <2>3. QED
      BY <2>1, <2>2
  <1>8. ChannelsKeepTheirs'
    <2>1. \A w \in Watchers : seen'[w] \in 0 .. puts'
      BY <1>0, <1>3 DEF BuffersInv, ChannelsKeepTheirs
    <2>2. ASSUME NEW w \in Watchers, channel'[w] # <<>>
          PROVE  \/ /\ channel[w] # <<>> /\ channel'[w][1] = channel[w][1]
                    /\ channel[w][1] \in 1 .. old
                 \/ /\ IsReached(p, w) /\ channel'[w][1] = old + 2 + PlaceOf(p, w)
                    /\ channel'[w][1] \in old + 3 .. old + (2 + n)
      BY <1>0, <1>1, <1>4, <1>5, <2>2 DEF BuffersInv, ChannelsKeepTheirs
    <2>3. ASSUME NEW w \in Watchers, channel'[w] # <<>>
          PROVE  /\ channel'[w][1] \in (1 .. old + (2 + n)) \ hands'
                 /\ \A q \in Paths : values'[q] # channel'[w][1]
                 /\ heap'[channel'[w][1]] \in 1 .. puts'
                 /\ seen'[w] < heap'[channel'[w][1]]
      <3>1. CASE channel[w] # <<>> /\ channel'[w][1] = channel[w][1] /\ channel[w][1] \in 1 .. old
        <4>1. /\ channel[w][1] \notin hands /\ \A q \in Paths : values[q] # channel[w][1]
              /\ heap[channel[w][1]] \in 1 .. puts /\ seen[w] < heap[channel[w][1]]
          BY <3>1 DEF BuffersInv, ChannelsKeepTheirs
        <4>2. QED
          BY <1>0, <1>1, <1>2, <1>3, <3>1, <4>1
      <3>2. CASE channel'[w][1] \in old + 3 .. old + (2 + n)
        <4>1. seen[w] \in 0 .. puts
          BY DEF BuffersInv, ChannelsKeepTheirs
        <4> DEFINE c == channel'[w][1]
        <4> HIDE DEF c
        <4>2. c \in old + 3 .. old + (2 + n)
          BY <3>2 DEF c
        <4>3. c \in old + 1 .. old + (2 + n) /\ c # old + 1 /\ c # old + 2 /\ c \notin 1 .. old /\ c # None
          BY <1>0, <4>2 DEF None
        <4>4. heap'[c] = puts + 1
          BY <1>1, <4>3
        <4>5. c \notin hands' /\ \A q \in Paths : values'[q] # c
          BY <1>0, <1>2, <4>3
        <4>6. seen'[w] < heap'[c] /\ heap'[c] \in 1 .. puts'
          BY <1>0, <1>3, <4>1, <4>4
        <4>7. QED
          BY <1>0, <4>3, <4>5, <4>6 DEF c
      <3>3. QED
        BY <2>2, <2>3, <3>1, <3>2
    <2>4. ASSUME NEW w \in Watchers, NEW v \in Watchers \ {w}, channel'[w] # <<>>, channel'[v] # <<>>
          PROVE  channel'[v][1] # channel'[w][1]
      <3>1. IsReached(p, w) /\ IsReached(p, v) => PlaceOf(p, w) # PlaceOf(p, v)
        BY <1>5
      <3>2. channel[w] # <<>> /\ channel[v] # <<>> => channel[v][1] # channel[w][1]
        BY DEF BuffersInv, ChannelsKeepTheirs
      <3>3. /\ IsReached(p, w) => PlaceOf(p, w) \in Int
            /\ IsReached(p, v) => PlaceOf(p, v) \in Int
        BY <1>0, <1>5
      <3>4. QED
        BY <1>0, <2>2, <2>4, <3>1, <3>2, <3>3
    <2>5. QED
      BY <1>b, <2>1, <2>3, <2>4 DEF ChannelsKeepTheirs
  <1>9. QED
    BY <1>6, <1>7, <1>8 DEF BuffersInv

\* Get hands out a new buffer.
LEMMA GetKeeps ==
  ASSUME NEW p \in Paths, BuffersInv, Get(p)
  PROVE  BuffersInv'
  <1> USE DEF BuffersInv, TypeOK, Buffers, None, Overwritten
  <1>1. /\ heap' \in Seq(Nat \cup {Overwritten}) /\ Len(heap') = Len(heap) + 1
        /\ \A b \in 1 .. Len(heap) : heap'[b] = heap[b]
    BY DEF Get
  <1>2. /\ hands' = hands \cup {Len(heap) + 1}
        /\ UNCHANGED <<values, watchers, channel, context, seen, puts, panicked>>
    BY DEF Get
  <1>3. TypeOK'
    <2>1. gets' \in 0 .. MaxGets
      BY ConstantsAssumption DEF Get
    <2>2. \A w \in Watchers : channel[w] \in Seq(Buffers')
      <3> TAKE w \in Watchers
      <3>1. channel[w] \in Seq(1 .. Len(heap)) /\ 1 .. Len(heap) \subseteq 1 .. Len(heap')
        BY <1>1
      <3>2. QED
        BY <3>1, SeqWider
    <2>3. values \in [Paths -> Buffers' \cup {None}] /\ hands' \subseteq Buffers'
      <3>1. 1 .. Len(heap) \subseteq Buffers' /\ Len(heap) + 1 \in Buffers'
        BY <1>1
      <3>2. values \in [Paths -> 1 .. Len(heap) \cup {None}] /\ hands \subseteq 1 .. Len(heap)
        OBVIOUS
      <3>3. QED
        BY <1>2, <3>1, <3>2
    <2>4. QED
      BY <1>1, <1>2, <2>1, <2>2, <2>3
  <1>4. StoreKeepsItsBuffers'
    BY <1>1, <1>2 DEF StoreKeepsItsBuffers
  <1>5. ChannelsKeepTheirs'
    BY <1>1, <1>2 DEF ChannelsKeepTheirs
  <1>6. QED
    BY <1>3, <1>4, <1>5

\* A watcher takes the buffer of its channel and holds it from then on.
LEMMA ReceiveKeeps ==
  ASSUME NEW w \in Watchers, BuffersInv, Receive(w)
  PROVE  BuffersInv' /\ seen'[w] > seen[w]
  <1> USE DEF BuffersInv, TypeOK, Buffers, None, Overwritten
  <1>1. /\ channel[w] # <<>> /\ channel' = [channel EXCEPT ![w] = <<>>]
        /\ hands' = hands \cup {channel[w][1]} /\ seen' = [seen EXCEPT ![w] = heap[channel[w][1]]]
        /\ UNCHANGED <<heap, values, watchers, context, puts, gets, panicked>>
    BY DEF Receive
  <1>2. heap[channel[w][1]] \in 1 .. puts /\ seen[w] < heap[channel[w][1]] /\ channel[w][1] \in Buffers
    BY <1>1 DEF ChannelsKeepTheirs
  <1>3. TypeOK'
    <2>1. channel' \in [Watchers -> Seq(Buffers)] /\ \A v \in Watchers : Len(channel'[v]) <= 1
      BY <1>1
    <2>2. heap[channel[w][1]] \in Nat
      BY <1>2, ConstantsAssumption
    <2>3. seen' \in [Watchers -> Nat \cup {Overwritten}]
      BY <1>1, <2>2
    <2>4. hands' \subseteq Buffers
      BY <1>1, <1>2
    <2>5. QED
      BY <1>1, <2>1, <2>3, <2>4
  <1>4. StoreKeepsItsBuffers'
    BY <1>1 DEF StoreKeepsItsBuffers, ChannelsKeepTheirs
  <1>5. ChannelsKeepTheirs'
    BY <1>1, <1>2 DEF ChannelsKeepTheirs
  <1>6. QED
    BY <1>1, <1>2, <1>3, <1>4, <1>5 DEF ChannelsKeepTheirs

\* Callers write only to what they hold.
LEMMA OverwriteKeeps ==
  ASSUME NEW b \in hands, BuffersInv, Overwrite(b)
  PROVE  BuffersInv' /\ \A c \in Buffers \ hands : heap'[c] = heap[c]
  <1> USE DEF BuffersInv, TypeOK, Buffers, None, Overwritten
  <1>1. /\ heap' = [heap EXCEPT ![b] = Overwritten]
        /\ UNCHANGED <<values, watchers, channel, context, hands, seen, puts, gets, panicked>>
    BY DEF Overwrite
  <1>2. heap' \in Seq(Nat \cup {Overwritten}) /\ Len(heap') = Len(heap)
    BY <1>1
  <1>3. \A c \in Buffers \ hands : heap'[c] = heap[c]
    BY <1>1
  <1>4. StoreKeepsItsBuffers'
    BY <1>1, <1>2, <1>3 DEF StoreKeepsItsBuffers
  <1>5. ChannelsKeepTheirs'
    BY <1>1, <1>2, <1>3 DEF ChannelsKeepTheirs
  <1>6. QED
    BY <1>1, <1>2, <1>3, <1>4, <1>5

\* The steps that touch no buffer.
LEMMA OthersKeep ==
  ASSUME BuffersInv,
         \/ \E p \in Paths : Delete(p) \/ \E w \in Watchers : Watch(w, p)
         \/ \E w \in Watchers : Cancel(w) \/ Close(w)
         \/ UNCHANGED vars
  PROVE  BuffersInv' /\ UNCHANGED <<heap, seen>>
  <1> USE DEF BuffersInv, TypeOK, Buffers, None, Overwritten, StoreKeepsItsBuffers, ChannelsKeepTheirs
  <1>1. CASE \E p \in Paths : Delete(p)
    BY <1>1 DEF Delete
  <1>2. CASE \E p \in Paths, w \in Watchers : Watch(w, p)
    BY <1>2 DEF Watch
  <1>3. CASE \E w \in Watchers : Cancel(w) \/ Close(w)
    BY <1>3 DEF Cancel, Close
  <1>4. CASE UNCHANGED vars
    BY <1>4 DEF vars
  <1>5. QED
    BY <1>1, <1>2, <1>3, <1>4

-----------------------------------------------------------------------------
(* The theorems. *)

\* The store and the channels keep their buffers to themselves.
THEOREM BuffersAreKept == Spec => []BuffersInv
  <1>1. BuffersInv /\ [Next]_vars => BuffersInv'
    BY PutKeeps, GetKeeps, ReceiveKeeps, OverwriteKeeps, OthersKeep DEF Next
  <1>2. QED
    BY <1>1, BuffersInit, PTL DEF Spec

\* The types hold.
THEOREM MemoryTypes == Spec => []TypeOK
  BY BuffersAreKept, PTL DEF BuffersInv

\* Watchers receive each Put at most once and in order, whatever callers write
\* to the buffers they put, got or received.
THEOREM UpdatesComeInOrder == Spec => ReceivedInOrder
  <1>1. BuffersInv /\ [Next]_vars =>
          [\A w \in Watchers : seen'[w] = seen[w] \/ seen'[w] > seen[w]]_seen
    <2> SUFFICES ASSUME BuffersInv, Next
                 PROVE  \A w \in Watchers : seen'[w] = seen[w] \/ seen'[w] > seen[w]
      BY DEF vars
    <2>1. CASE UNCHANGED seen
      BY <2>1
    <2>2. ASSUME NEW w \in Watchers, Receive(w)
          PROVE  \A v \in Watchers : seen'[v] = seen[v] \/ seen'[v] > seen[v]
      <3>1. seen'[w] > seen[w]
        BY <2>2, ReceiveKeeps
      <3>2. \A v \in Watchers \ {w} : seen'[v] = seen[v]
        BY <2>2 DEF Receive, BuffersInv, TypeOK
      <3>3. QED
        BY <3>1, <3>2
    <2>3. QED
      BY <2>1, <2>2 DEF Next, Put, Get, Delete, Watch, Cancel, Close, Overwrite
  <1>2. QED
    BY <1>1, BuffersAreKept, PTL DEF Spec, ReceivedInOrder

\* The store implements a map that only Put and Delete change.
THEOREM StoreIsAMap == Spec => ImplementsSecretMap
  <1>1. Init => Secrets!Init
    BY DEF Init, Secrets!Init, Content, None
  <1>2. BuffersInv /\ BuffersInv' /\ [Next]_vars => [Secrets!Next]_<<Content, puts>>
    <2> SUFFICES ASSUME BuffersInv, BuffersInv', Next PROVE [Secrets!Next]_<<Content, puts>>
      BY DEF vars, Content
    <2> USE DEF BuffersInv, TypeOK, Buffers, None, Overwritten
    <2>1. ASSUME NEW p \in Paths, Put(p) PROVE Secrets!Put(p)
      <3> DEFINE n == 2 + Len(watchers[p])
      <3>1. n \in Nat /\ n >= 2 /\ puts + 1 \in Nat \cup {Overwritten} /\ Len(heap) \in Nat
        OBVIOUS
      <3>2. heap' = heap \o [b \in 1 .. n |-> puts + 1]
        BY <2>1 DEF Put
      <3> HIDE DEF n
      <3>3. /\ \A b \in Buffers : heap'[b] = heap[b]
            /\ heap'[Len(heap) + 2] = puts + 1
        BY <3>1, <3>2, HeapGrows
      <3>4. values' = [values EXCEPT ![p] = Len(heap) + 2] /\ puts' = puts + 1
        BY <2>1 DEF Put, StoredCopy
      <3>5. \A q \in Paths : Content'[q] = IF q = p THEN puts + 1 ELSE Content[q]
        BY <3>1, <3>3, <3>4 DEF Content
      <3>6. QED
        BY <3>4, <3>5 DEF Secrets!Put, Content
    <2>2. ASSUME NEW p \in Paths, Delete(p) PROVE Secrets!Delete(p)
      BY <2>2 DEF Delete, Secrets!Delete, Content
    <2>3. ASSUME UNCHANGED <<values, puts>>, \A b \in Buffers \ hands : heap'[b] = heap[b]
          PROVE  UNCHANGED <<Content, puts>>
      <3>1. \A p \in Paths : values[p] # None => values[p] \in Buffers \ hands
        BY DEF StoreKeepsItsBuffers
      <3>2. QED
        BY <2>3, <3>1 DEF Content
    <2>4. ASSUME NEW p \in Paths, Get(p) PROVE UNCHANGED <<Content, puts>>
      <3>1. \A b \in Buffers \ hands : heap'[b] = heap[b]
        BY <2>4 DEF Get
      <3>2. QED
        BY <2>3, <2>4, <3>1 DEF Get
    <2>5. ASSUME NEW b \in hands, Overwrite(b) PROVE UNCHANGED <<Content, puts>>
      BY <2>3, <2>5, OverwriteKeeps DEF Overwrite
    <2>6. CASE UNCHANGED <<heap, values, puts>>
      BY <2>3, <2>6
    <2>7. QED
      BY <2>1, <2>2, <2>4, <2>5, <2>6 DEF Next, Watch, Cancel, Close, Receive, Secrets!Next
  <1>3. QED
    BY <1>1, <1>2, BuffersAreKept, PTL DEF Spec, ImplementsSecretMap, Secrets!Spec

-----------------------------------------------------------------------------
(* When a Put panics. *)

\* A path with a watcher whose channel is closed: the watcher stays in the list.
Doomed(p) == \E i \in DOMAIN watchers[p] : context[watchers[p][i]] = "closed"

\* A Put panics when, and only when, its path has such a watcher.
LEMMA PutPanics ==
  ASSUME NEW p \in Paths, BuffersInv, Put(p)
  PROVE  panicked' <=> Doomed(p)
  <1>1. panicked' <=> Reached(p) # DOMAIN watchers[p]
    BY DEF Put
  <1>2. DOMAIN watchers[p] = 1 .. Len(watchers[p]) /\ Len(watchers[p]) \in Nat
    BY DEF BuffersInv, TypeOK
  <1>3. Doomed(p) => Reached(p) # DOMAIN watchers[p]
    BY <1>2 DEF Doomed, Reached
  <1>4. ~Doomed(p) => Reached(p) = DOMAIN watchers[p]
    BY <1>2 DEF Doomed, Reached
  <1>5. QED
    BY <1>1, <1>3, <1>4

\* No step takes a watcher out of the list or opens a closed channel.
LEMMA DoomIsKept ==
  ASSUME NEW p \in Paths, BuffersInv, Doomed(p), [Next]_vars
  PROVE  Doomed(p)'
  <1> USE DEF BuffersInv, TypeOK, Doomed
  <1>1. PICK i \in DOMAIN watchers[p] : context[watchers[p][i]] = "closed"
    OBVIOUS
  <1>2. watchers[p] \in Seq(Watchers) /\ watchers[p][i] \in Watchers /\ i \in 1 .. Len(watchers[p])
    OBVIOUS
  <1>3. ASSUME NEW w \in Watchers, NEW q \in Paths, Watch(w, q)
        PROVE  Doomed(p)'
    <2>1. context' = [context EXCEPT ![w] = "open"] /\ context[w] = "unused"
          /\ watchers' = [watchers EXCEPT ![q] = Append(watchers[q], w)]
      BY <1>3 DEF Watch
    <2>2. watchers'[p][i] = watchers[p][i] /\ i \in DOMAIN watchers'[p]
      <3>1. CASE q = p
        BY <1>2, <2>1, <3>1, AppendProperties
      <3>2. CASE q # p
        BY <1>2, <2>1, <3>2
      <3>3. QED
        BY <3>1, <3>2
    <2>3. context'[watchers[p][i]] = "closed"
      BY <1>1, <1>2, <2>1
    <2>4. QED
      BY <2>2, <2>3
  <1>4. CASE UNCHANGED watchers /\ \E w \in Watchers : Cancel(w) \/ Close(w)
    BY <1>1, <1>2, <1>4 DEF Cancel, Close
  <1>5. CASE UNCHANGED <<watchers, context>>
    BY <1>1, <1>5
  <1>6. QED
    BY <1>3, <1>4, <1>5 DEF Next, vars, Put, Get, Delete, Receive, Overwrite, Cancel, Close

\* A Put has panicked only if a watcher of some path had closed its channel: a
\* store whose watchers all live on is not brought down (Put, Watch).
THEOREM OnlyAClosedWatcherPanics ==
  Spec => [](PutsReturn \/ \E p \in Paths : Doomed(p))
  <1> DEFINE Blamed == PutsReturn \/ \E p \in Paths : Doomed(p)
  <1>1. Init => Blamed
    BY DEF Init, PutsReturn
  <1>2. BuffersInv /\ Blamed /\ [Next]_vars => Blamed'
    <2> SUFFICES ASSUME BuffersInv, Blamed, [Next]_vars PROVE Blamed'
      OBVIOUS
    <2>1. CASE \E p \in Paths : Doomed(p)
      BY <2>1, DoomIsKept
    <2>2. ASSUME NEW p \in Paths, Put(p) PROVE Blamed'
      BY <2>1, <2>2, PutPanics DEF PutsReturn, Doomed, Put
    <2>3. CASE PutsReturn /\ UNCHANGED panicked
      BY <2>3 DEF PutsReturn
    <2>4. QED
      BY <2>1, <2>2, <2>3
      DEF Next, vars, Get, Delete, Watch, Cancel, Close, Receive, Overwrite
  <1> HIDE DEF Blamed
  <1>3. QED
    BY <1>1, <1>2, BuffersAreKept, PTL DEF Spec, Blamed

\* Once a watcher of a path has closed its channel, every later Put to that path
\* panics, however long after the watcher has gone (Put, Watch).
THEOREM AClosedWatcherDoomsItsPath ==
  ASSUME NEW p \in Paths
  PROVE  Spec => [](Doomed(p) => [][Put(p) => panicked']_vars)
  <1>1. BuffersInv /\ Doomed(p) /\ [Next]_vars => Doomed(p)' /\ [Put(p) => panicked']_vars
    BY DoomIsKept, PutPanics
  <1>2. QED
    BY <1>1, BuffersAreKept, PTL DEF Spec
=============================================================================
