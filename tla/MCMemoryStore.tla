--------------------------- MODULE MCMemoryStore ----------------------------
(* TLC instances of MemoryStore. *)
EXTENDS MemoryStore, TLC

\* Secret paths are interchangeable, and so are Watch calls.
Symmetry == Permutations(Paths) \cup Permutations(Watchers)
=============================================================================
