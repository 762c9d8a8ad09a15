------------------------------- MODULE Sensors -------------------------------
(***************************************************************************)
(* The sensors module: thresholds and recent readings, kept in memory      *)
(* under one mutex and rewritten to one file by every request that changes *)
(* them, before it lets the mutex go. Boot loads the file.                 *)
(*                                                                         *)
(* A reading is known by the time at which it was taken, in seconds as the *)
(* file has it; its value is left out. lm-sensors is installed.            *)
(***************************************************************************)
EXTENDS Naturals, Sequences

CONSTANTS Requests,        \* the requests that may run
          Keys,            \* a chip and a reading each
          Numbers,         \* thresholds that JSON can carry
          Oddities,        \* those that it cannot: NaN and the infinities
          MaxPoints,       \* 240 readings of a key are kept
          StatePath,       \* whether there is a home directory for the file
          None,
          MaxClock, MaxFaults, MaxKills   \* bounds

ASSUME ConstantsAssumption ==
    /\ Numbers \cap Oddities = {}
    /\ None \notin Numbers \cup Oddities \cup Requests
    /\ MaxPoints \in Nat \ {0}
    /\ StatePath \in BOOLEAN
    /\ MaxClock \in Nat /\ MaxFaults \in Nat /\ MaxKills \in Nat

VARIABLES up,           \* the process runs
          thresholds,   \* Module.thresholds
          history,      \* Module.history
          mu,           \* the request that holds Module.mu
          pc,           \* where each request is
          now,          \* the time each snapshot has read
          file,         \* sensors-state.json
          saved,        \* the last attempt to write it went through
          clock, faults, kills

memory == <<thresholds, history>>
disk == <<file, saved>>
bounded == <<clock, faults, kills>>
vars == <<up, memory, mu, pc, now, disk, bounded>>

Empty == [thresholds |-> [k \in Keys |-> None], history |-> [k \in Keys |-> <<>>]]
Memory == [thresholds |-> thresholds, history |-> history]

\* A file that is missing, empty or cut short does not parse, and loads nothing.
Broken == [whole |-> FALSE, state |-> Empty]
Load(f) == IF f.whole THEN f.state ELSE Empty

\* What json.Marshal accepts.
Finite(t) == \A k \in Keys : t[k] \notin Oddities

Init ==
    /\ up = FALSE
    /\ thresholds = Empty.thresholds
    /\ history = Empty.history
    /\ mu = None
    /\ pc = [r \in Requests |-> "idle"]
    /\ now = [r \in Requests |-> 0]
    /\ file = Broken
    /\ saved = TRUE
    /\ clock = 0 /\ faults = 0 /\ kills = 0

----------------------------------------------------------------------------
(* The process. *)

\* New: loadState, on an unreadable file as on a missing one.
Boot ==
    /\ ~up
    /\ up' = TRUE
    /\ thresholds' = Load(file).thresholds
    /\ history' = Load(file).history
    /\ saved' = TRUE
    /\ UNCHANGED <<mu, pc, now, file, bounded>>

\* The process is killed, wherever its requests are.
Kill ==
    /\ up
    /\ kills < MaxKills
    /\ up' = FALSE
    /\ kills' = kills + 1
    /\ mu' = None
    /\ pc' = [r \in Requests |-> "idle"]
    /\ UNCHANGED <<memory, now, disk, clock, faults>>

Tick ==
    /\ clock < MaxClock
    /\ clock' = clock + 1
    /\ UNCHANGED <<up, memory, mu, pc, now, disk, faults, kills>>

----------------------------------------------------------------------------
(* The requests, up to saveStateLocked. *)

Lock(r) == up /\ mu = None /\ mu' = r

\* Snapshot has the output of lm-sensors, and reads the clock before it locks.
ReadSensors(r) ==
    /\ up
    /\ pc[r] = "idle"
    /\ pc' = [pc EXCEPT ![r] = "read"]
    /\ now' = [now EXCEPT ![r] = clock]
    /\ UNCHANGED <<up, memory, mu, disk, bounded>>

\* Mutant: one too many is kept.
NewestAndOne(s) == IF Len(s) > MaxPoints + 1 THEN Tail(s) ELSE s

\* The newest MaxPoints of a series, which has grown by one.
Newest(s) == IF Len(s) > MaxPoints THEN Tail(s) ELSE s

\* applyThresholdsAndHistory, for the readings that are numbers.
Apply(r) ==
    /\ pc[r] = "read"
    /\ Lock(r)
    /\ \E keys \in SUBSET Keys :
          history' = [k \in Keys |-> IF k \in keys
                                     THEN Newest(Append(history[k], now[r]))
                                     ELSE history[k]]
    /\ pc' = [pc EXCEPT ![r] = "save"]
    /\ UNCHANGED <<up, thresholds, now, disk, bounded>>

\* ParseFloat takes "NaN" and "Inf" for numbers.
SetThreshold(r) ==
    /\ pc[r] = "idle"
    /\ Lock(r)
    /\ \E k \in Keys, v \in Numbers \cup Oddities :
          thresholds' = [thresholds EXCEPT ![k] = v]
    /\ pc' = [pc EXCEPT ![r] = "save"]
    /\ UNCHANGED <<up, history, now, disk, bounded>>

\* Mutant: it forgets to save.
ClearThresholdOnly(r) ==
    /\ pc[r] = "idle"
    /\ up /\ mu = None
    /\ \E k \in Keys : thresholds' = [thresholds EXCEPT ![k] = None]
    /\ UNCHANGED <<up, history, mu, pc, now, disk, bounded>>

ClearThreshold(r) ==
    /\ pc[r] = "idle"
    /\ Lock(r)
    /\ \E k \in Keys : thresholds' = [thresholds EXCEPT ![k] = None]
    /\ pc' = [pc EXCEPT ![r] = "save"]
    /\ UNCHANGED <<up, history, now, disk, bounded>>

----------------------------------------------------------------------------
(* saveStateLocked; the caller unlocks whatever came of it. *)

Unlock(r) == mu' = None /\ pc' = [pc EXCEPT ![r] = "idle"]

Saveable == StatePath /\ Finite(thresholds)

\* Mutant: the early return leaves the mutex locked.
SkipSaveLocked(r) ==
    /\ pc[r] = "save"
    /\ ~Saveable
    /\ pc' = [pc EXCEPT ![r] = "idle"]
    /\ UNCHANGED <<up, memory, mu, now, disk, bounded>>

\* No path, or json.Marshal fails: the caller is told nothing of it.
SkipSave(r) ==
    /\ pc[r] = "save"
    /\ ~Saveable
    /\ Unlock(r)
    /\ UNCHANGED <<up, memory, now, disk, bounded>>

\* Neither is it of a directory or file that cannot be opened...
OpenFails(r) ==
    /\ pc[r] = "save"
    /\ Saveable
    /\ faults < MaxFaults
    /\ faults' = faults + 1
    /\ saved' = FALSE
    /\ Unlock(r)
    /\ UNCHANGED <<up, memory, now, file, clock, kills>>

\* os.WriteFile opens with O_TRUNC, then writes.
Truncate(r) ==
    /\ pc[r] = "save"
    /\ Saveable
    /\ file' = Broken
    /\ saved' = FALSE
    /\ pc' = [pc EXCEPT ![r] = "write"]
    /\ UNCHANGED <<up, memory, mu, now, bounded>>

Write(r) ==
    /\ pc[r] = "write"
    /\ file' = [whole |-> TRUE, state |-> Memory]
    /\ saved' = TRUE
    /\ Unlock(r)
    /\ UNCHANGED <<up, memory, now, bounded>>

\* ... nor of a full disk, which cuts the file short.
WriteFails(r) ==
    /\ pc[r] = "write"
    /\ faults < MaxFaults
    /\ faults' = faults + 1
    /\ Unlock(r)
    /\ UNCHANGED <<up, memory, now, disk, clock, kills>>

Next ==
    \/ Boot
    \/ Kill
    \/ Tick
    \/ \E r \in Requests :
          \/ ReadSensors(r)
          \/ Apply(r)
          \/ SetThreshold(r)
          \/ ClearThreshold(r)
          \/ SkipSave(r)
          \/ OpenFails(r)
          \/ Truncate(r)
          \/ Write(r)
          \/ WriteFails(r)

Spec == Init /\ [][Next]_vars

\* A request that has begun runs, and sync.Mutex serves a starving waiter; who
\* asks, kills and fails is free.
FairSpec ==
    /\ Spec
    /\ \A r \in Requests :
          /\ SF_vars(Apply(r))
          /\ WF_vars(SkipSave(r))
          /\ WF_vars(Truncate(r))
          /\ WF_vars(Write(r))

----------------------------------------------------------------------------
Series == {s \in Seq(Nat) : Len(s) <= MaxPoints}
States == [thresholds : [Keys -> Numbers \cup Oddities \cup {None}],
           history : [Keys -> Series]]

\* Types; no series outgrows its cap, in memory or on disk.
TypeOK ==
    /\ up \in BOOLEAN
    /\ Memory \in States
    /\ mu \in Requests \cup {None}
    /\ pc \in [Requests -> {"idle", "read", "save", "write"}]
    /\ now \in [Requests -> Nat]
    /\ file \in [whole : BOOLEAN, state : States]
    /\ saved \in BOOLEAN
    /\ clock \in Nat /\ faults \in Nat /\ kills \in Nat

\* "History and thresholds now persist to local state on disk" (README.md:465):
\* whenever no request is saving, a restart would bring back what is in memory,
\* unless the last save met a fault or a threshold JSON cannot carry. In
\* particular an earlier fault, kill or odd threshold costs nothing once a later
\* save went through.
RestartKeepsMemory ==
    up /\ mu = None /\ saved /\ Saveable => Load(file) = Memory

\* Every request that has begun ends, unless the process does: whatever comes of
\* a save, the mutex is let go.
RequestsEnd == \A r \in Requests : pc[r] # "idle" ~> pc[r] = "idle"
=============================================================================
