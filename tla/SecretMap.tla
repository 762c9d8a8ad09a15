----------------------------- MODULE SecretMap ------------------------------
(***************************************************************************)
(* What a secret store promises of its secrets: a map that only Put and    *)
(* Delete change.  The data of the n-th Put is the number n.               *)
(***************************************************************************)
EXTENDS Integers

CONSTANT Paths

VARIABLES
  content,  \* content[p]: the data of the secret at p, or 0
  puts      \* how many Puts there have been

Init == content = [p \in Paths |-> 0] /\ puts = 0

Put(p) ==
  /\ puts' = puts + 1
  /\ content' = [content EXCEPT ![p] = puts + 1]

Delete(p) == content' = [content EXCEPT ![p] = 0] /\ UNCHANGED puts

Next == \E p \in Paths : Put(p) \/ Delete(p)

Spec == Init /\ [][Next]_<<content, puts>>
=============================================================================
