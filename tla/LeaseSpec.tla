------------------------------ MODULE LeaseSpec ------------------------------
(***************************************************************************)
(* What a lease promises to those who use it: it opens once, is torn down  *)
(* by at most one command at a time, may be handed back unfinished, and    *)
(* once closed stays closed. Lab implements this (Lab!ImplementsLeaseSpec).*)
(***************************************************************************)
EXTENDS Naturals, FiniteSets

CONSTANTS Lease, Actor

VARIABLES
  phase,   \* lease -> "none", "open", "closing", "closed"
  holder   \* lease -> the commands tearing it down

lvars == <<phase, holder>>

LTypeOK ==
  /\ phase \in [Lease -> {"none", "open", "closing", "closed"}]
  /\ holder \in [Lease -> SUBSET Actor]

LInit ==
  /\ phase = [l \in Lease |-> "none"]
  /\ holder = [l \in Lease |-> {}]

Become(l, p, h) ==
  /\ phase' = [phase EXCEPT ![l] = p]
  /\ holder' = [holder EXCEPT ![l] = h]

Open(l)     == phase[l] = "none" /\ Become(l, "open", {})
Claim(a, l) == phase[l] = "open" /\ Become(l, "closing", {a})

\* The holder is done: closed, or open again for a retry.
Settle(l) ==
  /\ phase[l] = "closing" /\ holder[l] # {}
  /\ \E p \in {"open", "closed"} : Become(l, p, {})

\* The holder is killed; the claim stays until somebody puts it back.
Lose(l)    == phase[l] = "closing" /\ Become(l, "closing", {})
Reclaim(l) == phase[l] = "closing" /\ holder[l] = {} /\ Become(l, "open", {})

\* Closed without a teardown: abandoned, or its lease-begin failed, which may
\* happen when a sweep has claimed the lease already.
Drop(l) == phase[l] \in {"open", "closing"} /\ Become(l, "closed", {})

LNext == \E l \in Lease :
  \/ Open(l) \/ Settle(l) \/ Lose(l) \/ Reclaim(l) \/ Drop(l)
  \/ \E a \in Actor : Claim(a, l)

Spec == LInit /\ [][LNext]_lvars

\* At most one command tears a lease down, and only while it is closing.
Exclusive ==
  \A l \in Lease : /\ Cardinality(holder[l]) <= 1
                   /\ holder[l] # {} => phase[l] = "closing"
=============================================================================
