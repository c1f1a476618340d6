----------------------------- MODULE MCConsole -----------------------------
(* Two clients on a guest whose display has a small mode, shown as it is,  *)
(* and a large one, which a viewer shrinks to half.                        *)
EXTENDS Console, TLC

CONSTANTS c1, c2

Modes == {2, 4}
Shrink == 2 :> 1 @@ 4 :> 2

\* A double click, two keys, two frames of a burst.
Everything ==
  {Move("shown"), Click("shown", 2), Drag("inside", "edge"), Drag("inside", "shown"),
   Keys(2), Type(2), Run, Media(1), MemoryRead, MemoryWrite, Traffic, Screenshot, Burst(2),
   Start, Commit}

Perms == Permutations({c1, c2})
=============================================================================
