--------------------------- MODULE MCEventStream ---------------------------
(* TLC instances of EventStream. *)
EXTENDS EventStream

\* A clock whose readings are all distinct.
Ticking == {1}

\* The operation of two commands and one of one; none starts a scrub, whose end
\* a listing does not survive (MCZFSTasks, ZFSTasksHang.cfg).
OneAndTwoCommands == {"create-pool", "destroy-pool"}
=============================================================================
