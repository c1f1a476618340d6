------------------------------- MODULE Cleanup -------------------------------
(***************************************************************************)
(* cleanup.py: lease-end, cleanup-expired, lease-destroy and lease-abandon *)
(* and the teardown they share, finalize_lease. A command that finalizes   *)
(* claims its lease with a compare-and-swap to 'ending' first and writes   *)
(* the final state without one. [power] auto_shutdown is off here, as by   *)
(* default, so a command is over when its lease is saved.                  *)
(***************************************************************************)
EXTENDS GuestCommands

\* finalize_lease(lease): the clock is read once, before the loop.
Finalizing(p) == [p EXCEPT !.pc = "finalize", !.at = now]

\* Points at which a command has won the claim on its lease and not let go.
Finalizer == {"shared", "release", "unprotect", "finalize", "stop", "shutdown",
              "delete", "confirm", "reconfirm", "forget"}

Holds(a, l) == proc[a].pc \in Finalizer /\ proc[a].lease = l

-----------------------------------------------------------------------------
(* lease-end [--shared-guests-authorized]                                  *)

EndLoad(a, l, c) ==
  /\ Published(l)
  /\ state[l] \in {"active", "cleanup_failed"} /\ l \notin LongTerm
  /\ Start(a, c, [Idle EXCEPT !.pc = "claim", !.lease = l, !.prior = state[l],
                              !.todo = Undestroyed(l)])
  /\ ReadOnly

\* The winner goes on; the loser reports "already ending" and does nothing.
EndClaim(a) ==
  LET l == proc[a].lease IN
  /\ proc[a].pc = "claim"
  /\ \/ /\ ClaimLease(l, proc[a].prior, "ending")
        /\ Goto(a, [proc[a] EXCEPT !.pc = IF l \in LongTerm THEN "unprotect"
                                                            ELSE "shared"])
     \/ state[l] # proc[a].prior /\ UNCHANGED store /\ Goto(a, Idle)
  /\ UNCHANGED <<host, env>>

\* shared_lease_resources: a disposable row of the snapshot that any other
\* non-terminal lease, live or expired, also claims.
Shared(a) ==
  {g \in proc[a].todo :
     /\ policy[proc[a].lease][g] = "disposable"
     /\ \E m \in Lease \ {proc[a].lease} :
          state[m] \in NonTerminal /\ LeaseClaims(m, g)}

EndShared(a) ==
  /\ proc[a].pc = "shared"
  /\ Goto(a, IF Shared(a) # {} /\ proc[a].cmd = "lease-end"
             THEN [proc[a] EXCEPT !.pc = "release"]
             ELSE Finalizing(proc[a]))
  /\ ReadOnly

\* Mutant of EndRelease: a refused lease-end keeps its claim.
ReleaseNothing(a) ==
  /\ proc[a].pc = "release"
  /\ Goto(a, Idle)
  /\ ReadOnly

\* _release_claim: compare-and-swap back to the state the command found.
EndRelease(a) ==
  LET l == proc[a].lease IN
  /\ proc[a].pc = "release"
  /\ \/ ClaimLease(l, "ending", proc[a].prior)
     \/ state[l] # "ending" /\ UNCHANGED store
  /\ Goto(a, Idle)
  /\ UNCHANGED <<host, env>>

-----------------------------------------------------------------------------
(* cleanup-expired [--all]                                                 *)

\* Mutants of SweepCandidate: the state is not looked at; a lease whose
\* cleanup failed is left to itself.
SweepNonTerminal(l, all) ==
  state[l] \in NonTerminal /\ l \notin LongTerm /\ (all \/ expires[l] <= now)
SweepActiveOnly(l, all) ==
  state[l] = "active" /\ l \notin LongTerm /\ (all \/ expires[l] <= now)

\* cleanup_candidate_leases, kept by the loop's own conditions: a lease that
\* is 'ending' is nobody's candidate, a long-term one is never swept.
SweepCandidate(l, all) ==
  /\ state[l] \in {"active", "cleanup_failed"} /\ l \notin LongTerm
  /\ state[l] = "cleanup_failed" \/ all \/ expires[l] <= now

SweepList(a, c) ==
  /\ Start(a, c,
       [Idle EXCEPT !.pc = "sweep",
          !.batch = {[lease |-> l, prior |-> state[l], todo |-> Undestroyed(l)] :
                       l \in {m \in Lease : SweepCandidate(m, c = "cleanup-all")}}])
  /\ ReadOnly

\* The next lease of the list, as the list remembers it.
SweepClaim(a) ==
  /\ proc[a].pc = "sweep"
  /\ \E b \in proc[a].batch :
       LET rest == [proc[a] EXCEPT !.batch = @ \ {b}] IN
       \/ /\ ClaimLease(b.lease, b.prior, "ending")
          /\ Goto(a, Finalizing([rest EXCEPT !.lease = b.lease, !.prior = b.prior,
                                             !.todo = b.todo, !.failed = FALSE,
                                             !.left = {}]))
       \/ state[b.lease] # b.prior /\ UNCHANGED store /\ Goto(a, rest)
  /\ UNCHANGED <<host, env>>

SweepDone(a) ==
  /\ proc[a].pc = "sweep" /\ proc[a].batch = {}
  /\ Goto(a, Idle)
  /\ ReadOnly

-----------------------------------------------------------------------------
(* lease-destroy --confirm                                                 *)

DestroyLoad(a, l) ==
  /\ Published(l)
  /\ state[l] \in {"active", "cleanup_failed"} /\ l \in LongTerm
  /\ Start(a, "lease-destroy",
           [Idle EXCEPT !.pc = "claim", !.lease = l, !.prior = state[l],
                        !.todo = Undestroyed(l)])
  /\ ReadOnly

\* Rewrite pxl-expiry to the past on every guest; a call that fails is noted
\* and passed over.
Unprotect(a) ==
  /\ proc[a].pc = "unprotect"
  /\ \E reached \in SUBSET proc[a].todo, lost \in SUBSET proc[a].todo :
       /\ proc[a].todo \ reached \subseteq lost
       /\ meta' = [g \in Guest |-> IF g \in reached
                                   THEN Redated(g, proc[a].lease, now - 1)
                                   ELSE meta[g]]
       /\ UNCHANGED <<guest, template>>
       /\ errors' = errors + Cardinality(lost)
       /\ errors' <= MaxErrors
  /\ Goto(a, Finalizing(proc[a]))
  /\ UNCHANGED <<store, now, crashes, misread>>

SaveDestroyed(a) ==
  /\ proc[a].pc = "save-destroyed"
  /\ SetLeaseState(proc[a].lease, "destroyed")
  /\ Goto(a, Idle)
  /\ UNCHANGED <<host, env>>

-----------------------------------------------------------------------------
(* finalize_lease                                                          *)

\* reversed(resources): the last row registered goes first.
IsNext(a, g) ==
  /\ g \in proc[a].todo
  /\ \A h \in proc[a].todo :
       rowid[proc[a].lease][h] <= rowid[proc[a].lease][g]

Done(a, g) == [proc[a] EXCEPT !.pc = "finalize", !.todo = @ \ {g},
                              !.guest = NoGuest]

\* Mutant of Fail: the failure is logged and not kept.
FailSilently(a, g) == Done(a, g)

Leave(a, g) == [Done(a, g) EXCEPT !.left = @ \cup {g}]
Fail(a, g)  == [Done(a, g) EXCEPT !.failed = TRUE]

\* Registry only: a live owner elsewhere, judged at the clock value read
\* before the loop, keeps the guest; so does the retain policy.
FinalizeNext(a) ==
  /\ proc[a].pc = "finalize"
  /\ \E g \in Guest :
       /\ IsNext(a, g)
       /\ Goto(a, IF OwnerElsewhere(proc[a].lease, g, proc[a].at)
                  THEN Leave(a, g)
                  ELSE IF policy[proc[a].lease][g] # "disposable"
                       THEN Done(a, g)
                       ELSE [proc[a] EXCEPT !.pc = "stop", !.guest = g])
  /\ ReadOnly

\* _is_template_guest: an unreadable config counts as "not a template".
FinalizeTemplate(a) ==
  LET g == proc[a].guest IN
  /\ proc[a].pc = "stop" /\ g \in template
  /\ \/ Goto(a, Leave(a, g)) /\ UNCHANGED <<host, env>>
     \/ HostError /\ Goto(a, [proc[a] EXCEPT !.pc = "delete"])
  /\ UNCHANGED store

\* stop_guest, its first status call: gone or stopped already is success, and
\* here the text of a failed call is taken at its word.
FinalizeStop(a) ==
  LET g == proc[a].guest IN
  /\ proc[a].pc = "stop" /\ g \notin template
  /\ \/ /\ Goto(a, [proc[a] EXCEPT !.pc = IF guest[g] = "running" THEN "shutdown"
                                                                 ELSE "delete"])
        /\ UNCHANGED <<host, env>>
     \/ HostError /\ (Goto(a, Fail(a, g)) \/ Goto(a, [proc[a] EXCEPT !.pc = "delete"]))
  /\ UNCHANGED store

\* A call on g failed with a text like "no such guest", whatever the reason;
\* the host is asked once more, after a destroy up to twice.
Doubt(a) ==
  Goto(a, [proc[a] EXCEPT !.pc = IF proc[a].pc = "delete" THEN "confirm"
                                                          ELSE "reconfirm"])

\* Mutant of FinalizeShutdown: a guest that goes away while it is being shut
\* down is a failure.
ShutdownOrFail(a) ==
  LET g == proc[a].guest IN
  /\ proc[a].pc = "shutdown"
  /\ IF guest[g] = "absent"
     THEN Goto(a, Fail(a, g)) /\ UNCHANGED host
     ELSE SetGuest(g, "stopped") /\ Goto(a, [proc[a] EXCEPT !.pc = "delete"])
  /\ UNCHANGED <<store, env>>

\* Shutdown, polled, then a hard stop: a guest that goes away meanwhile makes
\* the poll or the stop fail.
FinalizeShutdown(a) ==
  LET g == proc[a].guest IN
  /\ proc[a].pc = "shutdown"
  /\ \/ /\ guest[g] # "absent" /\ SetGuest(g, "stopped")
        /\ \/ UNCHANGED env /\ Goto(a, [proc[a] EXCEPT !.pc = "delete"])
           \/ AnswerLost /\ (Goto(a, Fail(a, g)) \/ Doubt(a))
     \/ guest[g] = "absent" /\ Doubt(a) /\ UNCHANGED <<host, env>>
     \/ HostError /\ (Goto(a, Fail(a, g)) \/ Doubt(a))
  /\ UNCHANGED store

\* qm/pct destroy: refused while the guest runs, in a message that quotes its
\* number.
FinalizeDelete(a) ==
  LET g == proc[a].guest IN
  /\ proc[a].pc = "delete"
  /\ \/ /\ guest[g] = "stopped" /\ RemoveGuest(g)
        /\ \/ UNCHANGED env /\ Goto(a, [proc[a] EXCEPT !.pc = "forget"])
           \/ AnswerLost /\ (Goto(a, Fail(a, g)) \/ Doubt(a))
     \/ guest[g] = "absent" /\ Doubt(a) /\ UNCHANGED <<host, env>>
     \/ /\ guest[g] = "running" /\ UNCHANGED <<host, env>>
        /\ Goto(a, Fail(a, g)) \/ Doubt(a)
     \/ HostError /\ (Goto(a, Fail(a, g)) \/ Doubt(a))
  /\ UNCHANGED store

\* Mutant of ConfirmAbsent: the text of the error is believed.
TrustTheText(g) == TRUE

\* The host's answer to a fresh status call: a status, or that there is no such
\* config, which is taken to be true.
ConfirmAbsent(g) == guest[g] = "absent"

\* Only a confirmed absence counts as success. delete_guest's ask that
\* confirms nothing re-raises, and finalize_lease asks for itself. A probe that
\* fails for another reason is judged by its text too, and may be misread.
FinalizeConfirm(a) ==
  LET g == proc[a].guest
      denied == IF proc[a].pc = "confirm" THEN [proc[a] EXCEPT !.pc = "reconfirm"]
                                          ELSE Fail(a, g) IN
  /\ proc[a].pc \in {"confirm", "reconfirm"}
  /\ \/ /\ Goto(a, IF ConfirmAbsent(g) THEN [proc[a] EXCEPT !.pc = "forget"]
                                      ELSE denied)
        /\ UNCHANGED <<host, env>>
     \/ HostError /\ Goto(a, denied)
     \/ Misread(g) /\ Goto(a, [proc[a] EXCEPT !.pc = "forget"])
  /\ UNCHANGED store

\* forget_resource: the row of this guest on every lease there is.
ForgetResource(a) ==
  LET g == proc[a].guest IN
  /\ proc[a].pc = "forget"
  /\ gone' = [l \in Lease |-> [gone[l] EXCEPT ![g] = rowid[l][g] # 0]]
  /\ Goto(a, Done(a, g))
  /\ UNCHANGED <<state, expires, rowid, policy, host, env>>

\* The save at the end of finalize_lease, unconditional, and where the
\* command goes from there.
SaveLease(a) ==
  LET p == proc[a] IN
  /\ p.pc = "finalize" /\ p.todo = {}
  /\ SetLeaseState(p.lease, IF p.failed THEN "cleanup_failed" ELSE "ended")
  /\ Goto(a, CASE p.cmd \in {"cleanup-expired", "cleanup-all"} ->
                    [Idle EXCEPT !.pc = "sweep", !.cmd = p.cmd, !.batch = p.batch]
               [] p.cmd = "lease-destroy" /\ ~p.failed ->
                    [Idle EXCEPT !.pc = "save-destroyed", !.cmd = p.cmd,
                                 !.lease = p.lease]
               [] OTHER -> Idle)
  /\ UNCHANGED <<host, env>>

-----------------------------------------------------------------------------
(* lease-abandon --confirm: every row, destroyed or not, must be stopped   *)
(* or missing; then one compare-and-swap. No guest is touched. A status    *)
(* call that fails counts as missing if its text reads so.                 *)

AbandonCheck(a, l) ==
  /\ Published(l)
  /\ state[l] \in {"active", "cleanup_failed"} /\ l \notin LongTerm
  /\ \E unread \in SUBSET Rows(l) :
       /\ \A g \in Rows(l) \ unread : guest[g] # "running"
       /\ errors' = errors + Cardinality(unread)
       /\ errors' <= MaxErrors
  /\ Start(a, "lease-abandon", [Idle EXCEPT !.pc = "abandon-claim", !.lease = l,
                                            !.prior = state[l]])
  /\ UNCHANGED <<store, host, now, crashes, misread>>

\* Mutant of AbandonClaim: no compare-and-swap after the check.
AbandonBlindly(a) ==
  /\ proc[a].pc = "abandon-claim"
  /\ SetLeaseState(proc[a].lease, "abandoned")
  /\ Goto(a, Idle)
  /\ UNCHANGED <<host, env>>

\* The save that follows the claim writes 'abandoned' once more.
AbandonClaim(a) ==
  LET l == proc[a].lease IN
  /\ proc[a].pc = "abandon-claim"
  /\ \/ ClaimLease(l, proc[a].prior, "abandoned")
     \/ state[l] # proc[a].prior /\ UNCHANGED store
  /\ Goto(a, Idle)
  /\ UNCHANGED <<host, env>>

-----------------------------------------------------------------------------
(* docs/troubleshooting.md: a lease left in 'ending' by a finalizer that   *)
(* died is put back by hand, with sqlite3, for the next sweep.             *)

ManualReclaim(l) ==
  /\ "manual-reclaim" \in Commands
  /\ \A a \in Actor : ~Holds(a, l)
  /\ ClaimLease(l, "ending", "cleanup_failed")
  /\ UNCHANGED <<host, env, proc>>

CleanupStep(a) ==
  \/ \E l \in Lease :
       \/ \E c \in {"lease-end", "lease-end-shared"} : EndLoad(a, l, c)
       \/ DestroyLoad(a, l) \/ AbandonCheck(a, l)
  \/ \E c \in {"cleanup-expired", "cleanup-all"} : SweepList(a, c)
  \/ EndClaim(a) \/ EndShared(a) \/ EndRelease(a)
  \/ SweepClaim(a) \/ SweepDone(a)
  \/ Unprotect(a) \/ SaveDestroyed(a)
  \/ FinalizeNext(a) \/ FinalizeTemplate(a) \/ FinalizeStop(a)
  \/ FinalizeShutdown(a) \/ FinalizeDelete(a) \/ FinalizeConfirm(a)
  \/ ForgetResource(a) \/ SaveLease(a)
  \/ AbandonClaim(a)
=============================================================================
