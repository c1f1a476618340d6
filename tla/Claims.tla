-------------------------------- MODULE Claims --------------------------------
(***************************************************************************)
(* A sentence of the code's comments about the controller, stated of Lab   *)
(* as it reads, that the code does not keep.                               *)
(***************************************************************************)
EXTENDS Lab

Vanishes(g) == guest[g] # "absent" /\ guest'[g] = "absent"

\* cleanup.finalize_lease on destroying a guest a live lease claims: "the one
\* failure mode expiry cleanup must never have".
OwnerKeepsGuest ==
  [][\A g \in Guest, l \in Lease :
       Vanishes(g) /\ (\E a \in Actor : Holds(a, l)) => ~OwnerElsewhere(l, g, now)]_vars
=============================================================================
