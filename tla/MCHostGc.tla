------------------------------- MODULE MCHostGc -------------------------------
(***************************************************************************)
(* Small instances of HostGc for TLC: what is on the host when the first   *)
(* run starts, and what else happens to it.                                *)
(***************************************************************************)
EXTENDS HostGc

CONSTANTS g1, g2, l1

Given(s, l, e) == [status |-> s, meta |-> [lease |-> l, expiry |-> e]]

\* An ordinary guest that expires at 2 next to one of somebody else's, one of
\* a long-term lease, another ordinary one or none.
Mixed ==
  {f \in [Guest -> {Given("running", l1, 2), Given("stopped", l1, 2),
                    Given("stopped", l1, 0), Given("running", NoLease, 0),
                    Given("stopped", NoLease, 0), Given("absent", NoLease, 0)}] :
     f[g1] \in {Given("running", l1, 2), Given("stopped", l1, 2)}}
=============================================================================
