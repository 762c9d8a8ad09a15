---------------------------- MODULE SensorsProofs ----------------------------
(***************************************************************************)
(* Theorems about Sensors, for any requests, readings and thresholds.      *)
(***************************************************************************)
EXTENDS Sensors, TLAPS

USE ConstantsAssumption DEF ConstantsAssumption

LEMMA EmptyIsAState == Empty \in States
  BY DEF Empty, States, Series

\* A trimmed series is within the cap.
LEMMA NewestIsASeries ==
  ASSUME NEW s \in Series, NEW t \in Nat
  PROVE  Newest(Append(s, t)) \in Series
  <1>1. /\ Append(s, t) \in Seq(Nat)
        /\ Len(Append(s, t)) = Len(s) + 1
        /\ Len(Append(s, t)) <= MaxPoints + 1
    BY DEF Series
  <1>2. CASE Len(Append(s, t)) > MaxPoints
    <2>1. /\ Tail(Append(s, t)) \in Seq(Nat)
          /\ Len(Tail(Append(s, t))) = Len(s)
      BY <1>1, <1>2
    <2> QED BY <2>1, <1>2 DEF Newest, Series
  <1>3. CASE ~(Len(Append(s, t)) > MaxPoints)
    BY <1>1, <1>3 DEF Newest, Series
  <1> QED BY <1>2, <1>3

LEMMA LoadIsAState ==
  ASSUME TypeOK
  PROVE  Load(file) \in States
  BY EmptyIsAState DEF TypeOK, Load

LEMMA TypeInit == Init => TypeOK
  <1> SUFFICES ASSUME Init PROVE TypeOK
    OBVIOUS
  <1>1. Memory = Empty
    BY DEF Init, Memory, Empty
  <1>2. Memory \in States /\ Broken \in [whole : BOOLEAN, state : States]
    BY <1>1, EmptyIsAState DEF Broken
  <1> QED BY <1>2 DEF Init, TypeOK

\* The steps of saveStateLocked and of the clock keep the types.
LEMMA TypeSave ==
  ASSUME TypeOK, NEW r \in Requests,
         SkipSave(r) \/ OpenFails(r) \/ Truncate(r) \/ Write(r) \/ WriteFails(r)
  PROVE  TypeOK'
  <1>1. Memory' = Memory
    BY DEF SkipSave, OpenFails, Truncate, Write, WriteFails, memory, Memory
  <1>2. file' \in [whole : BOOLEAN, state : States]
    <2>1. CASE SkipSave(r) \/ OpenFails(r) \/ WriteFails(r)
      BY <2>1 DEF TypeOK, SkipSave, OpenFails, WriteFails, disk
    <2>2. CASE Truncate(r)
      BY <2>2, EmptyIsAState DEF Truncate, Broken
    <2>3. CASE Write(r)
      <3>1. file' = [whole |-> TRUE, state |-> Memory] /\ Memory \in States
        BY <2>3 DEF Write, TypeOK
      <3> QED BY <3>1
    <2> QED BY <2>1, <2>2, <2>3
  <1>3. /\ mu' \in Requests \cup {None}
        /\ pc' \in [Requests -> {"idle", "read", "save", "write"}]
        /\ up' \in BOOLEAN /\ now' \in [Requests -> Nat]
    BY DEF TypeOK, SkipSave, OpenFails, Truncate, Write, WriteFails, Unlock
  <1>4. saved' \in BOOLEAN /\ clock' \in Nat /\ faults' \in Nat /\ kills' \in Nat
    <2>1. CASE SkipSave(r)
      BY <2>1 DEF TypeOK, SkipSave, disk, bounded
    <2>2. CASE OpenFails(r)
      <3>1. saved' \in BOOLEAN /\ clock' = clock /\ kills' = kills /\ faults' = faults + 1
        BY <2>2 DEF OpenFails
      <3> QED BY <3>1 DEF TypeOK
    <2>3. CASE Truncate(r) \/ Write(r)
      BY <2>3 DEF TypeOK, Truncate, Write, bounded
    <2>4. CASE WriteFails(r)
      BY <2>4 DEF TypeOK, WriteFails, disk
    <2> QED BY <2>1, <2>2, <2>3, <2>4
  <1> QED BY <1>1, <1>2, <1>3, <1>4 DEF TypeOK

\* So do the steps that change memory.
LEMMA TypeChange ==
  ASSUME TypeOK, NEW r \in Requests,
         Apply(r) \/ SetThreshold(r) \/ ClearThreshold(r)
  PROVE  TypeOK'
  <1>1. history' \in [Keys -> Series]
    <2>1. CASE Apply(r)
      <3>1. history \in [Keys -> Series] /\ now[r] \in Nat
        BY DEF TypeOK, Memory, States
      <3>2. PICK keys \in SUBSET Keys :
              history' = [k \in Keys |-> IF k \in keys
                                         THEN Newest(Append(history[k], now[r]))
                                         ELSE history[k]]
        BY <2>1 DEF Apply
      <3> QED BY <3>1, <3>2, NewestIsASeries
    <2>2. CASE SetThreshold(r) \/ ClearThreshold(r)
      BY <2>2 DEF TypeOK, Memory, States, SetThreshold, ClearThreshold
    <2> QED BY <2>1, <2>2
  <1>2. thresholds' \in [Keys -> Numbers \cup Oddities \cup {None}]
    BY DEF TypeOK, Memory, States, Apply, SetThreshold, ClearThreshold
  <1>3. Memory' \in States
    BY <1>1, <1>2 DEF Memory, States
  <1>4. /\ mu' \in Requests \cup {None}
        /\ pc' \in [Requests -> {"idle", "read", "save", "write"}]
        /\ up' = up /\ now' = now
        /\ UNCHANGED <<disk, bounded>>
    BY DEF TypeOK, Apply, SetThreshold, ClearThreshold, Lock
  <1> QED BY <1>3, <1>4 DEF TypeOK, disk, bounded

LEMMA TypeStep == TypeOK /\ [Next]_vars => TypeOK'
  <1> SUFFICES ASSUME TypeOK, [Next]_vars PROVE TypeOK'
    OBVIOUS
  <1>1. CASE Boot
    <2>1. Memory' = Load(file)
      BY <1>1, LoadIsAState DEF Boot, Memory, States
    <2> QED BY <1>1, <2>1, LoadIsAState DEF Boot, TypeOK, bounded
  <1>2. CASE Kill
    <2>1. Memory' = Memory
      BY <1>2 DEF Kill, memory, Memory
    <2>2. /\ kills' \in Nat
          /\ UNCHANGED <<now, file, saved, clock, faults>>
      BY <1>2 DEF Kill, TypeOK, disk
    <2>3. /\ up' \in BOOLEAN /\ mu' \in Requests \cup {None}
          /\ pc' \in [Requests -> {"idle", "read", "save", "write"}]
      BY <1>2 DEF Kill
    <2> QED BY <2>1, <2>2, <2>3 DEF TypeOK
  <1>3. CASE Tick
    <2>1. Memory' = Memory
      BY <1>3 DEF Tick, memory, Memory
    <2> QED BY <1>3, <2>1 DEF Tick, TypeOK, disk
  <1>4. ASSUME NEW r \in Requests, ReadSensors(r) PROVE TypeOK'
    <2>1. Memory' = Memory
      BY <1>4 DEF ReadSensors, memory, Memory
    <2> QED BY <1>4, <2>1 DEF ReadSensors, TypeOK, disk, bounded
  <1>5. CASE UNCHANGED vars
    <2>1. Memory' = Memory
      BY <1>5 DEF vars, memory, Memory
    <2> QED BY <1>5, <2>1 DEF vars, TypeOK, disk, bounded
  <1> QED BY <1>1, <1>2, <1>3, <1>4, <1>5, TypeChange, TypeSave DEF Next

\* Types of the sensors module; no series outgrows its cap, nor does one that was
\* written to disk and loaded again.
THEOREM TypeCorrect == Spec => []TypeOK
  BY TypeInit, TypeStep, PTL DEF Spec

----------------------------------------------------------------------------
\* A request that saves holds the mutex; while it writes, the file is not a good
\* save; and no request outlives the process. It is what makes a failed write
\* count as one: no other request can have saved in between.
MutexInv ==
    /\ \A r \in Requests : pc[r] \in {"save", "write"} => mu = r
    /\ \A r \in Requests : pc[r] = "write" => ~saved
    /\ \A r \in Requests : ~up => pc[r] = "idle"

IInv == TypeOK /\ MutexInv /\ RestartKeepsMemory

LEMMA MutexStep == TypeOK /\ MutexInv /\ [Next]_vars => MutexInv'
  <1> SUFFICES ASSUME TypeOK, MutexInv, [Next]_vars PROVE MutexInv'
    OBVIOUS
  <1> USE DEF MutexInv, TypeOK
  <1>1. CASE Boot
    BY <1>1 DEF Boot
  <1>2. CASE Kill
    BY <1>2 DEF Kill
  <1>3. CASE Tick \/ UNCHANGED vars
    BY <1>3 DEF Tick, vars, disk
  <1>4. ASSUME NEW r \in Requests, ReadSensors(r) PROVE MutexInv'
    BY <1>4 DEF ReadSensors, disk
  <1>5. ASSUME NEW r \in Requests, Apply(r) \/ SetThreshold(r) \/ ClearThreshold(r)
        PROVE  MutexInv'
    BY <1>5 DEF Apply, SetThreshold, ClearThreshold, Lock, disk
  <1>6. ASSUME NEW r \in Requests,
               SkipSave(r) \/ OpenFails(r) \/ Write(r) \/ WriteFails(r)
        PROVE  MutexInv'
    BY <1>6 DEF SkipSave, OpenFails, Write, WriteFails, Unlock, disk
  <1>7. ASSUME NEW r \in Requests, Truncate(r) PROVE MutexInv'
    BY <1>7 DEF Truncate
  <1> QED BY <1>1, <1>2, <1>3, <1>4, <1>5, <1>6, <1>7 DEF Next

\* Boot makes memory what the file loads; every change locks the mutex, and it is
\* let go by a write of the memory, by a failure, or with a threshold that JSON
\* cannot carry.
LEMMA RestartStep == IInv /\ [Next]_vars => RestartKeepsMemory'
  <1> SUFFICES ASSUME TypeOK, MutexInv, RestartKeepsMemory, [Next]_vars
               PROVE  RestartKeepsMemory'
    BY DEF IInv
  <1>1. CASE Boot
    <2>1. Memory' = Load(file) /\ file' = file
      BY <1>1, LoadIsAState DEF Boot, Memory, States
    <2> QED BY <2>1 DEF RestartKeepsMemory, Load
  <1>2. CASE Kill
    BY <1>2 DEF Kill, RestartKeepsMemory
  <1>3. ASSUME UNCHANGED <<up, memory, mu, disk>> PROVE RestartKeepsMemory'
    BY <1>3 DEF RestartKeepsMemory, memory, disk, Memory, Saveable, Finite, Load
  <1>4. ASSUME NEW r \in Requests, Apply(r) \/ SetThreshold(r) \/ ClearThreshold(r)
        PROVE  RestartKeepsMemory'
    BY <1>4 DEF Apply, SetThreshold, ClearThreshold, Lock, RestartKeepsMemory
  <1>5. ASSUME NEW r \in Requests, SkipSave(r) PROVE RestartKeepsMemory'
    BY <1>5 DEF SkipSave, RestartKeepsMemory, Saveable, Finite, memory
  <1>6. ASSUME NEW r \in Requests, OpenFails(r) \/ Truncate(r)
        PROVE  RestartKeepsMemory'
    BY <1>6 DEF OpenFails, Truncate, RestartKeepsMemory
  <1>7. ASSUME NEW r \in Requests, Write(r) PROVE RestartKeepsMemory'
    BY <1>7 DEF Write, RestartKeepsMemory, Load, Memory, memory
  <1>8. ASSUME NEW r \in Requests, WriteFails(r) PROVE RestartKeepsMemory'
    BY <1>8 DEF WriteFails, MutexInv, RestartKeepsMemory, disk
  <1> QED BY <1>1, <1>2, <1>3, <1>4, <1>5, <1>6, <1>7, <1>8
          DEF Next, Tick, ReadSensors, vars

\* Whenever no request is saving, a restart would bring back what is in memory,
\* unless the last save met a fault or a threshold JSON cannot carry.
THEOREM RestartsKeepMemory == Spec => []RestartKeepsMemory
  <1>1. Init => IInv
    BY TypeInit DEF Init, IInv, MutexInv, RestartKeepsMemory
  <1>2. IInv /\ [Next]_vars => IInv'
    BY TypeStep, MutexStep, RestartStep DEF IInv
  <1>3. IInv => RestartKeepsMemory
    BY DEF IInv
  <1> QED BY <1>1, <1>2, <1>3, PTL DEF Spec

----------------------------------------------------------------------------
(* The times of the history. *)

\* Where the points of a series that grows by t come from: a step to the left or
\* not, they are those of s, and t.
LEMMA NewestPoints ==
  ASSUME NEW s \in Seq(Nat), NEW t \in Nat
  PROVE  LET new == Newest(Append(s, t)) IN
           /\ new \in Seq(Nat)
           /\ \E d \in {0, 1} : /\ Len(new) = Len(s) + 1 - d
                                /\ \A i \in 1 .. Len(new) : /\ i + d \in 1 .. Len(s) + 1
                                                            /\ new[i] = Append(s, t)[i + d]
  <1> DEFINE longer == Append(s, t)
  <1>1. longer \in Seq(Nat) /\ Len(longer) = Len(s) + 1 /\ Len(s) \in Nat
    OBVIOUS
  <1> HIDE DEF longer
  <1>2. CASE Len(longer) > MaxPoints
    <2>1. /\ Tail(longer) \in Seq(Nat) /\ Len(Tail(longer)) = Len(s)
          /\ \A i \in 1 .. Len(s) : Tail(longer)[i] = longer[i + 1]
      BY <1>1
    <2>2. Newest(longer) = Tail(longer)
      BY <1>2 DEF Newest
    <2>3. Len(Tail(longer)) = Len(s) + 1 - 1 /\ \A i \in 1 .. Len(s) : i + 1 \in 1 .. Len(s) + 1
      BY <1>1, <2>1
    <2> QED BY <2>1, <2>2, <2>3 DEF longer
  <1>3. CASE ~(Len(longer) > MaxPoints)
    <2>1. Newest(longer) = longer
      BY <1>3 DEF Newest
    <2>2. Len(longer) = Len(s) + 1 - 0 /\ \A i \in 1 .. Len(longer) : i + 0 = i
      BY <1>1
    <2> QED BY <1>1, <2>1, <2>2 DEF longer
  <1> QED BY <1>2, <1>3

\* The points of a history are not later than t.
NotAfter(h, t) == \A k \in Keys : \A i \in 1 .. Len(h[k]) : h[k][i] <= t

Sorted(s) == \A i, j \in 1 .. Len(s) : i <= j => s[i] <= s[j]

\* A series in order stays in order when it grows by a later time.
LEMMA NewestKeepsOrder ==
  ASSUME NEW s \in Seq(Nat), NEW t \in Nat,
         Sorted(s), \A i \in 1 .. Len(s) : s[i] <= t
  PROVE  Sorted(Newest(Append(s, t)))
  <1> DEFINE new == Newest(Append(s, t))
  <1>1. PICK d \in {0, 1} : /\ Len(new) = Len(s) + 1 - d
                            /\ \A i \in 1 .. Len(new) : /\ i + d \in 1 .. Len(s) + 1
                                                        /\ new[i] = Append(s, t)[i + d]
    BY NewestPoints
  <1>2. Len(s) \in Nat /\ \A i \in 1 .. Len(s) + 1 :
          Append(s, t)[i] = IF i = Len(s) + 1 THEN t ELSE s[i]
    OBVIOUS
  <1>3. \A i, j \in 1 .. Len(s) + 1 : i <= j => Append(s, t)[i] <= Append(s, t)[j]
    BY <1>2 DEF Sorted
  <1> HIDE DEF new
  <1>4. \A i, j \in 1 .. Len(new) : i <= j => new[i] <= new[j]
    BY <1>1, <1>2, <1>3
  <1> QED BY <1>4 DEF Sorted, new

\* Trimmed or not, it has no later point than it had, or than t.
LEMMA NewestIsNotAfter ==
  ASSUME NEW s \in Seq(Nat), NEW t \in Nat, NEW c \in Nat,
         t <= c, \A i \in 1 .. Len(s) : s[i] <= c
  PROVE  \A i \in 1 .. Len(Newest(Append(s, t))) : Newest(Append(s, t))[i] <= c
  <1> DEFINE new == Newest(Append(s, t))
  <1>1. PICK d \in {0, 1} : \A i \in 1 .. Len(new) : /\ i + d \in 1 .. Len(s) + 1
                                                    /\ new[i] = Append(s, t)[i + d]
    BY NewestPoints
  <1>2. \A i \in 1 .. Len(s) + 1 : Append(s, t)[i] <= c
    OBVIOUS
  <1> HIDE DEF new
  <1>3. \A i \in 1 .. Len(new) : new[i] <= c
    BY <1>1, <1>2
  <1> QED BY <1>3 DEF new

\* No snapshot has read a time that is still to come, and no point has one.
ReadingsArePast ==
    /\ \A r \in Requests : now[r] <= clock
    /\ NotAfter(history, clock)
    /\ NotAfter(file.state.history, clock)

\* A snapshot leaves each series alone or adds its time to it.
LEMMA ApplyExtends ==
  ASSUME TypeOK, NEW r \in Requests, Apply(r), NEW k \in Keys
  PROVE  /\ history[k] \in Seq(Nat) /\ now[r] \in Nat
         /\ history'[k] \in {history[k], Newest(Append(history[k], now[r]))}
  BY DEF TypeOK, Memory, States, Series, Apply

\* There are no readings at first.
LEMMA PastInit == Init => ReadingsArePast
  BY DEF Init, ReadingsArePast, NotAfter, Broken, Empty

\* Times are natural numbers, in memory and in the file.
LEMMA Times ==
  ASSUME TypeOK
  PROVE  /\ clock \in Nat /\ now \in [Requests -> Nat]
         /\ history \in [Keys -> Seq(Nat)]
         /\ file.state.history \in [Keys -> Seq(Nat)]
  BY DEF TypeOK, Memory, States, Series

\* What the file and the memory exchange are histories of one of the two.
LEMMA Exchange ==
  ASSUME [Next]_vars
  PROVE  /\ file'.state.history \in {file.state.history, history, Empty.history}
         /\ \/ history' = history
            \/ Boot /\ history' \in {file.state.history, Empty.history}
            \/ \E r \in Requests : Apply(r)
  <1>1. CASE Boot
    BY <1>1 DEF Boot, Load
  <1>2. CASE Kill \/ Tick \/ UNCHANGED vars
    BY <1>2 DEF Kill, Tick, vars, memory, disk
  <1>3. ASSUME NEW r \in Requests,
               ReadSensors(r) \/ SetThreshold(r) \/ ClearThreshold(r) \/ SkipSave(r)
               \/ OpenFails(r) \/ WriteFails(r)
        PROVE  UNCHANGED <<file, history>>
    BY <1>3 DEF ReadSensors, SetThreshold, ClearThreshold, SkipSave, OpenFails, WriteFails, memory,
                disk
  <1>4. ASSUME NEW r \in Requests, Truncate(r)
        PROVE  file'.state.history = Empty.history /\ history' = history
    BY <1>4 DEF Truncate, Broken, memory
  <1>5. ASSUME NEW r \in Requests, Write(r)
        PROVE  file'.state.history = history /\ history' = history
    BY <1>5 DEF Write, Memory, memory
  <1>6. ASSUME NEW r \in Requests, Apply(r) PROVE file' = file
    BY <1>6 DEF Apply, disk
  <1> QED BY <1>1, <1>2, <1>3, <1>4, <1>5, <1>6 DEF Next

\* Time only goes on, and a snapshot adds the time that it has read.
LEMMA PastStep == TypeOK /\ ReadingsArePast /\ [Next]_vars => ReadingsArePast'
  <1> SUFFICES ASSUME TypeOK, ReadingsArePast, [Next]_vars PROVE ReadingsArePast'
    OBVIOUS
  <1>0. /\ clock \in Nat /\ now \in [Requests -> Nat]
        /\ history \in [Keys -> Seq(Nat)] /\ file.state.history \in [Keys -> Seq(Nat)]
    BY Times
  <1>1. clock' \in Nat /\ clock <= clock'
    BY <1>0 DEF Next, vars, Boot, Kill, Tick, ReadSensors, Apply, SetThreshold, ClearThreshold,
                SkipSave, OpenFails, Truncate, Write, WriteFails, bounded
  <1>2. ASSUME NEW r \in Requests PROVE now'[r] <= clock'
    <2>1. now'[r] \in {now[r], clock}
      BY <1>0 DEF Next, vars, Boot, Kill, Tick, ReadSensors, Apply, SetThreshold, ClearThreshold,
                  SkipSave, OpenFails, Truncate, Write, WriteFails
    <2>2. now[r] <= clock /\ now[r] \in Nat
      BY <1>0 DEF ReadingsArePast
    <2> QED BY <1>0, <1>1, <2>1, <2>2
  <1>3. ASSUME NEW h \in {history, file.state.history, Empty.history}
        PROVE  NotAfter(h, clock')
    <2>1. CASE h \in {history, file.state.history}
      <3>1. NotAfter(h, clock) /\ h \in [Keys -> Seq(Nat)]
        BY <1>0, <2>1 DEF ReadingsArePast
      <3> QED BY <1>0, <1>1, <3>1 DEF NotAfter
    <2>2. CASE h = Empty.history
      BY <2>2 DEF NotAfter, Empty
    <2> QED BY <2>1, <2>2
  <1>4. ASSUME NEW r \in Requests, Apply(r) PROVE NotAfter(history', clock')
    <2> SUFFICES ASSUME NEW k \in Keys, NEW i \in 1 .. Len(history'[k])
                 PROVE  history'[k][i] <= clock'
      BY DEF NotAfter
    <2>1. now[r] <= clock' /\ NotAfter(history, clock')
      BY <1>0, <1>1, <1>3 DEF ReadingsArePast
    <2>2. CASE history'[k] = history[k]
      BY <2>1, <2>2 DEF NotAfter
    <2>3. CASE history'[k] = Newest(Append(history[k], now[r]))
      <3>1. history[k] \in Seq(Nat) /\ now[r] \in Nat /\ Len(history[k]) \in Nat
        BY <1>0
      <3>2. now[r] <= clock' /\ \A j \in 1 .. Len(history[k]) : history[k][j] <= clock'
        BY <2>1 DEF NotAfter
      <3> QED BY <2>3, <3>1, <3>2, <1>1, NewestIsNotAfter
    <2> QED BY <1>4, <2>2, <2>3, ApplyExtends
  <1> QED BY <1>2, <1>3, <1>4, Exchange DEF ReadingsArePast

\* No reading bears a time that has not come, in memory or on disk, however
\* requests overlap and whatever was loaded after a restart.
THEOREM ReadingsAreOfThePast == Spec => []ReadingsArePast
  BY PastInit, PastStep, TypeCorrect, PTL DEF Spec

\* At most one snapshot is between reading the clock and taking the mutex.
OneSnapshot == \A r, q \in Requests : pc[r] = "read" /\ pc[q] = "read" => r = q

HistoryInOrder == \A k \in Keys : Sorted(history[k])

\* The file is in order as well, and a snapshot that waits for the mutex has the
\* latest time.
OrderInv ==
    /\ HistoryInOrder
    /\ \A k \in Keys : Sorted(file.state.history[k])
    /\ \A r \in Requests : pc[r] = "read" => NotAfter(history, now[r])

\* The one snapshot that waits adds a time that no other has overtaken.
LEMMA OrderStep ==
  ASSUME TypeOK, MutexInv, ReadingsArePast, OneSnapshot, OrderInv, [Next]_vars
  PROVE  OrderInv'
  <1>0. /\ clock \in Nat /\ now \in [Requests -> Nat]
        /\ history \in [Keys -> Seq(Nat)] /\ file.state.history \in [Keys -> Seq(Nat)]
    BY Times
  <1>1. \A k \in Keys : Sorted(Empty.history[k])
    BY DEF Empty, Sorted
  <1>2. ASSUME NEW r \in Requests, Apply(r) PROVE HistoryInOrder'
    <2> SUFFICES ASSUME NEW k \in Keys PROVE Sorted(history'[k])
      BY DEF HistoryInOrder
    <2>1. Sorted(history[k]) /\ \A i \in 1 .. Len(history[k]) : history[k][i] <= now[r]
      BY <1>2 DEF OrderInv, HistoryInOrder, NotAfter, Apply
    <2> QED BY <1>2, <2>1, ApplyExtends, NewestKeepsOrder
  <1>3. HistoryInOrder' /\ \A k \in Keys : Sorted(file'.state.history[k])
    BY <1>1, <1>2, Exchange DEF OrderInv, HistoryInOrder
  <1>4. ASSUME NEW r \in Requests, pc'[r] = "read" PROVE NotAfter(history', now'[r])
    <2>1. CASE ReadSensors(r)
      BY <2>1 DEF ReadSensors, ReadingsArePast, TypeOK, memory
    <2>2. CASE ~ReadSensors(r)
      <3>1. pc[r] = "read" /\ now'[r] = now[r]
        BY <1>4, <2>2 DEF TypeOK, Next, vars, Boot, Kill, Tick, ReadSensors, Apply, SetThreshold,
           ClearThreshold, SkipSave, OpenFails, Truncate, Write, WriteFails, Unlock
      <3>2. ~Boot
        BY <3>1 DEF Boot, MutexInv
      <3>3. ASSUME NEW q \in Requests, Apply(q) PROVE FALSE
        <4>1. q = r
          BY <3>1, <3>3 DEF Apply, OneSnapshot
        <4> QED BY <1>4, <3>3, <4>1 DEF Apply, TypeOK
      <3> QED BY <3>1, <3>2, <3>3, Exchange DEF OrderInv
    <2> QED BY <2>1, <2>2
  <1> QED BY <1>3, <1>4 DEF OrderInv

\* As long as no two snapshots overlap between reading the clock and taking the
\* mutex, the history is in the order of time, also after a restart: it is those
\* few lines alone that can put points out of order (applyThresholdsAndHistory).
THEOREM OneSnapshotKeepsOrder == Spec /\ []OneSnapshot => []HistoryInOrder
  <1>1. Init => OrderInv
    BY DEF Init, OrderInv, HistoryInOrder, Sorted, Broken, Empty
  <1>2. TypeOK /\ MutexInv /\ ReadingsArePast /\ OneSnapshot /\ OrderInv /\ [Next]_vars => OrderInv'
    BY OrderStep
  <1>3. Init => MutexInv
    BY DEF Init, MutexInv
  <1>4. OrderInv => HistoryInOrder
    BY DEF OrderInv
  <1> QED BY <1>1, <1>2, <1>3, <1>4, MutexStep, TypeCorrect, ReadingsAreOfThePast, PTL DEF Spec
=============================================================================
