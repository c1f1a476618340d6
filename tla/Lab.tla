--------------------------------- MODULE Lab ---------------------------------
(***************************************************************************)
(* The controller as a whole: any number of commands on one lab.db and one *)
(* host, a clock, commands that die, and a person with root.               *)
(***************************************************************************)
EXTENDS Cleanup

Tick ==
  /\ now < MaxTime
  /\ now' = now + 1
  /\ UNCHANGED <<store, host, errors, crashes, misread, proc>>

\* A killed command forgets its locals and leaves everything else as it is.
Crash(a) ==
  /\ crashes < MaxCrashes /\ proc[a] # Idle
  /\ crashes' = crashes + 1
  /\ Goto(a, Idle)
  /\ UNCHANGED <<store, host, now, errors, misread>>

Step(a) == LeaseStep(a) \/ GuestStep(a) \/ CleanupStep(a)

ByHand == (\E g \in Guest : ManualRemove(g)) \/ (\E l \in Lease : ManualReclaim(l))

Next == Tick \/ ByHand \/ \E a \in Actor : Step(a) \/ Crash(a)

Spec == Init /\ [][Next]_vars

-----------------------------------------------------------------------------
(* Safety of the claim.                                                    *)

\* No two commands tear down one lease at the same time: what the
\* compare-and-swap to 'ending' is for (leases.claim_lease).
OneFinalizer ==
  \A a, b \in Actor, l \in Lease : Holds(a, l) /\ Holds(b, l) => a = b

\* A lease in 'ending' has a finalizer at work on it, unless one was killed:
\* no path through lease-end, cleanup-expired, lease-destroy or lease-abandon
\* leaves the claim behind (leases.NON_TERMINAL_STATES: "one finalizer holds
\* it").
EndingIsHeld ==
  \A l \in Lease : state[l] = "ending" /\ crashes = 0 => \E a \in Actor : Holds(a, l)

\* A lease that ended, was destroyed or abandoned never owns anything again,
\* although finalize_lease and a failed lease-begin both write the state
\* without looking at it.
TerminalIsFinal ==
  [][\A l \in Lease : state[l] \in Terminal => state'[l] \in Terminal]_vars

\* Gone from the host, or said to be by the text of a probe that failed.
TakenForGone(g) == guest[g] = "absent" \/ g \in misread

\* destroyed_at is the truth, whatever the failed destroy said on its way and
\* whoever removed the guest: only the text of a later probe that failed too
\* can have a guest written off that is there (cleanup._confirm_absent).
TombstoneIsTruth ==
  \A l \in Lease, g \in Guest : gone[l][g] => TakenForGone(g)

\* What the docstring says: "a probe that fails is proof only when the host
\* itself says the guest does not exist". No run checks it: the code does not
\* keep to it.
AbsenceIsPositive ==
  \A l \in Lease, g \in Guest : gone[l][g] => guest[g] = "absent"

\* What the host's collector reads agrees with the kind of lease: a guest
\* stamped for an ordinary lease always carries an expiry, one stamped for a
\* long-term lease never does until lease-destroy has claimed it
\* (leases.register_resource, the expiry cmd_create and cmd_clone carry over).
StampsMatchKind ==
  \A g \in Guest :
    LET m == meta[g] IN
    /\ m.lease \in Lease \ LongTerm => m.expiry # 0
    /\ m.lease \in LongTerm /\ state[m.lease] = "active" => m.expiry = 0

\* Nobody has to do anything about g on behalf of l any more: it is not to be
\* destroyed, gone, or a template, or another open lease claims it.
Settled(l, g) ==
  \/ policy[l][g] # "disposable"
  \/ guest[g] = "absent" \/ g \in template
  \/ \E m \in Lease \ {l} : LeaseClaims(m, g) /\ state[m] \in NonTerminal

\* A lease that ends leaves nothing of its own behind: every guest still on its
\* books is settled (finalize_lease, with failures kept for the next sweep).
\* Holds when one command runs at a time: a guest created or registered during
\* the teardown is not in the snapshot it works from.
EndedLeftNothing ==
  [][\A l \in Lease : state[l] # "ended" /\ state'[l] = "ended" =>
       \A g \in Undestroyed(l) : Settled(l, g)]_vars

-----------------------------------------------------------------------------
(* Liveness. The watchdog runs cleanup-expired again and again, a command  *)
(* that has started runs on, and a person follows the troubleshooting page *)
(* for a lease that is stuck in 'ending'.                                  *)

\* The program points after the first step of a command.
Continue(a) == proc[a] # Idle /\ Step(a)

Fairness ==
  /\ WF_vars(Tick)
  /\ \A a \in Actor : WF_vars(Continue(a))
  /\ SF_vars(\E a \in Actor : SweepList(a, "cleanup-expired"))
  /\ \A l \in Lease : WF_vars(ManualReclaim(l))

FairSpec == Spec /\ Fairness

\* No ordinary lease stays open past its expiry for ever: the sweeps close it
\* in spite of failing host calls and of a finalizer that died half way.
\* The clock is bounded, so a lease renewed past the bound never expires.
ExpiredIsClosed ==
  \A l \in Lease \ LongTerm :
    state[l] \in NonTerminal ~> state[l] \in Terminal \/ expires[l] > MaxTime

-----------------------------------------------------------------------------
(* What the lease row promises, without guests and commands.               *)

\* An open lease is one a command may claim.
Phase ==
  [l \in Lease |-> CASE state[l] = "none" -> "none"
                     [] state[l] \in {"active", "cleanup_failed"} -> "open"
                     [] state[l] = "ending" -> "closing"
                     [] OTHER -> "closed"]

Holder == [l \in Lease |-> {a \in Actor : state[l] = "ending" /\ Holds(a, l)}]

LS == INSTANCE LeaseSpec WITH phase <- Phase, holder <- Holder

\* Every interleaving of every command is a run of LeaseSpec.
ImplementsLeaseSpec == LS!Spec
=============================================================================
