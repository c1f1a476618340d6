---------------------------- MODULE LeaseCommands ----------------------------
(***************************************************************************)
(* leases.py: lease-begin, lease-heartbeat and lease-register, each split  *)
(* at the points where another command can run: between two statements on  *)
(* lab.db and between two calls to the host.                               *)
(***************************************************************************)
EXTENDS LabState

\* A command reads what it needs and carries on at pc; it has written nothing.
ReadOnly == UNCHANGED <<store, host, env>>

\* The expiry a begin or a registration gives: none for a long-term lease.
Expiry(l) == IF l \in LongTerm THEN 0 ELSE now + TTL

-----------------------------------------------------------------------------
(* lease-begin: insert the row, then audit and print it. Whatever goes     *)
(* wrong after the insert writes 'abandoned' with no from_state.           *)

\* Mutant of BeginInsert: INSERT OR REPLACE of a row there is.
BeginReplace(a, l) ==
  /\ Start(a, "lease-begin", [Idle EXCEPT !.pc = "begun", !.lease = l])
  /\ state' = [state EXCEPT ![l] = "active"]
  /\ expires' = [expires EXCEPT ![l] = Expiry(l)]
  /\ UNCHANGED <<rowid, policy, gone, host, env>>

BeginInsert(a, l) ==
  /\ state[l] = "none"
  /\ Start(a, "lease-begin", [Idle EXCEPT !.pc = "begun", !.lease = l])
  /\ state' = [state EXCEPT ![l] = "active"]
  /\ expires' = [expires EXCEPT ![l] = Expiry(l)]
  /\ UNCHANGED <<rowid, policy, gone, host, env>>

BeginPrint(a) ==
  /\ proc[a].pc = "begun"
  /\ state[proc[a].lease] = "active"
  /\ Goto(a, Idle)
  /\ ReadOnly

\* The audit or the print raised, or load_lease found the row not active.
BeginFail(a) ==
  /\ proc[a].pc = "begun"
  /\ \/ HostError
     \/ state[proc[a].lease] # "active" /\ UNCHANGED <<host, env>>
  /\ SetLeaseState(proc[a].lease, "abandoned")
  /\ Goto(a, Idle)

-----------------------------------------------------------------------------
(* lease-heartbeat: extend the row, then rewrite the expiry on every guest *)
(* the command saw registered when it loaded the lease.                    *)

HeartbeatLoad(a, l) ==
  /\ Published(l) /\ state[l] = "active" /\ l \notin LongTerm
  /\ Start(a, "lease-heartbeat",
           [Idle EXCEPT !.pc = "hb-store", !.lease = l, !.todo = Undestroyed(l)])
  /\ ReadOnly

HeartbeatStore(a) ==
  LET l == proc[a].lease IN
  /\ proc[a].pc = "hb-store"
  /\ StoreHeartbeat(l, now + TTL)
  /\ Goto(a, IF state[l] = "active"
             THEN [proc[a] EXCEPT !.pc = "hb-stamp", !.at = now + TTL]
             ELSE Idle)
  /\ UNCHANGED <<host, env>>

\* The loop body for g, in registration order. A guest that is gone is
\* skipped; any other error raises and leaves the rest unstamped.
HeartbeatStamp(a) ==
  /\ proc[a].pc = "hb-stamp"
  /\ \E g \in proc[a].todo :
       /\ \A h \in proc[a].todo :
            rowid[proc[a].lease][g] <= rowid[proc[a].lease][h]
       /\ \/ /\ SetMeta(g, Redated(g, proc[a].lease, proc[a].at))
             /\ \/ UNCHANGED env /\ Goto(a, [proc[a] EXCEPT !.todo = @ \ {g}])
                \/ AnswerLost /\ Goto(a, Idle)
          \/ HostError /\ Goto(a, Idle)
  /\ UNCHANGED store

HeartbeatDone(a) ==
  /\ proc[a].pc = "hb-stamp" /\ proc[a].todo = {}
  /\ Goto(a, Idle)
  /\ ReadOnly

-----------------------------------------------------------------------------
(* lease-register: refuse a guest a live lease claims, insert the row (a   *)
(* duplicate is swallowed and keeps its destroyed_at), extend the lease    *)
(* (the result is not looked at), stamp this one guest.                    *)

RegisterCheck(a, l, g) ==
  /\ Published(l) /\ state[l] = "active"
  /\ ~OwnerElsewhere(l, g, now)
  /\ Start(a, "lease-register",
           [Idle EXCEPT !.pc = "reg-row", !.lease = l, !.guest = g])
  /\ ReadOnly

RegisterRow(a) ==
  LET l == proc[a].lease
      g == proc[a].guest IN
  /\ proc[a].pc = "reg-row"
  /\ \/ \E pol \in Policies : InsertRow(l, g, pol)
     \/ rowid[l][g] # 0 /\ UNCHANGED store
  /\ Goto(a, [proc[a] EXCEPT !.pc = IF l \in LongTerm THEN "reg-stamp"
                                                      ELSE "reg-beat",
                             !.at = Expiry(l)])
  /\ UNCHANGED <<host, env>>

RegisterBeat(a) ==
  /\ proc[a].pc = "reg-beat"
  /\ StoreHeartbeat(proc[a].lease, proc[a].at)
  /\ Goto(a, [proc[a] EXCEPT !.pc = "reg-stamp"])
  /\ UNCHANGED <<host, env>>

RegisterStamp(a) ==
  LET g == proc[a].guest IN
  /\ proc[a].pc = "reg-stamp"
  /\ \/ guest[g] = "absent" /\ UNCHANGED <<host, env>>
     \/ /\ guest[g] # "absent"
        /\ SetMeta(g, Stamp(proc[a].lease, proc[a].at))
        /\ UNCHANGED env \/ AnswerLost
     \/ HostError
  /\ Goto(a, Idle)
  /\ UNCHANGED store

LeaseStep(a) ==
  \/ \E l \in Lease : BeginInsert(a, l) \/ HeartbeatLoad(a, l)
  \/ \E l \in Lease, g \in Guest : RegisterCheck(a, l, g)
  \/ BeginPrint(a) \/ BeginFail(a)
  \/ HeartbeatStore(a) \/ HeartbeatStamp(a) \/ HeartbeatDone(a)
  \/ RegisterRow(a) \/ RegisterBeat(a) \/ RegisterStamp(a)
=============================================================================
