------------------------------- MODULE MCPipes -------------------------------
(* Pipes for TLC at both levels: LinuxTask, where processes block on counts  *)
(* of bytes, and PipeRing, where the bytes move.  One of the two is chosen.  *)
EXTENDS LinuxTask, PipeRing

VARIABLE level      \* the level that runs

\* Vectors that end in the middle of the ring of three bytes, an empty one,
\* and a write longer than the ring.
MCVectors == {<<2>>, <<1, 0, 2>>, <<2, 3>>}

PipesInit == level \in {"processes", "bytes"} /\ Init /\ RingInit

PipesNext == \/ level = "processes" /\ Next /\ UNCHANGED ringVars
             \/ level = "bytes" /\ RingNext /\ UNCHANGED vars

PipesSpec == PipesInit /\ [][UNCHANGED level /\ PipesNext]_<<level, vars, ringVars>>
===============================================================================
