------------------------------ MODULE TaskLog -------------------------------
(***************************************************************************)
(* What the ZFS module promises of its task list: a bounded log in which a *)
(* row appears as running under an id of its own, is settled at most once, *)
(* and leaves only from the old end, when the log is full.                 *)
(***************************************************************************)
EXTENDS Integers, Sequences

CONSTANTS Ids, Kinds, Targets, Capacity

VARIABLE log

Row == [id : Ids, action : Kinds, target : Targets, state : {"running", "done", "failed"}]

Init == log = <<>>

\* A new row, under an id the log does not hold; a full log drops its oldest row.
Open(id, action, target) ==
  LET row == [id |-> id, action |-> action, target |-> target, state |-> "running"]
  IN  /\ \A i \in DOMAIN log : log[i].id # id
      /\ log' = Append(IF Len(log) = Capacity THEN Tail(log) ELSE log, row)

\* A running row gets its final state.
Settle(i, state) ==
  /\ log[i].state = "running"
  /\ log' = [log EXCEPT ![i].state = state]

Next ==
  \/ \E id \in Ids, a \in Kinds, t \in Targets : Open(id, a, t)
  \/ \E i \in DOMAIN log, s \in {"done", "failed"} : Settle(i, s)

Spec == Init /\ [][Next]_log
=============================================================================
