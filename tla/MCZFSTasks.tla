----------------------------- MODULE MCZFSTasks -----------------------------
(* TLC instances of ZFSTasks. *)
EXTENDS ZFSTasks, TLC

\* A clock whose readings are all distinct.
Ticking == {1}

\* Every write operation but starting a scrub.
NoScrub == Actions \ {"scrub-start"}

\* Goroutines of one kind, and pools, are interchangeable.
Symmetry == Permutations(Workers) \cup Permutations(Listers) \cup Permutations(Pools)
=============================================================================
