---------------------------- MODULE TeardownProofs ----------------------------
(***************************************************************************)
(* What a teardown leaves behind, for any number of leases, guests and     *)
(* commands: no lease stuck in 'ending', no guest dated wrongly, no row    *)
(* that says "destroyed" of a guest that is there, nothing left of a lease *)
(* that has ended; and the same with the collector at work beside it. All  *)
(* of it builds on the inductive invariant of LabProofs.                   *)
(***************************************************************************)
EXTENDS LabProofs, LabGc

-----------------------------------------------------------------------------
(* Which commands hold a claim.                                            *)

\* No command of leases.py or guest.py is at a point of a teardown.
LEMMA NotTearingDown ==
  ASSUME NEW a \in Actor, LeaseStep(a) \/ GuestStep(a)
  PROVE  proc[a].pc \notin Finalizer \cup {"claim", "sweep", "save-destroyed"}
<1>1. Idle.pc = "idle"  BY DEF Idle
<1>2. CASE LeaseStep(a)
  BY <1>1, <1>2
  DEF LeaseStep, BeginInsert, HeartbeatLoad, RegisterCheck, BeginPrint, BeginFail,
      HeartbeatStore, HeartbeatStamp, HeartbeatDone, RegisterRow, RegisterBeat,
      RegisterStamp, Start, Finalizer
<1>3. CASE GuestStep(a)
  BY <1>1, <1>3
  DEF GuestStep, CreateLoad, StartGate, StopGate, DestroyGate, TemplateGate,
      CreateFresh, CreateClone, CreateRefused, CloneStamp, CreateRow, StartGuest,
      StopGuest, DestroyCheck, DestroyStop, DestroyDelete, DestroyMark, ConvertGuest,
      Start, Finalizer
<1>. QED BY <1>2, <1>3

\* A step of a command is a step of no other.
LEMMA StepsOne ==
  ASSUME Located, NEW a \in Actor, NEW b \in Actor \ {a}, Step(a) \/ Crash(a)
  PROVE  proc'[b] = proc[b]
<1>a. ASSUME NEW q, Goto(a, q) PROVE proc'[b] = proc[b]
  BY <1>a DEF Goto, Located, TypeOK
<1>1. CASE Crash(a)  BY <1>1, <1>a DEF Crash
<1>2. CASE LeaseStep(a)
  BY <1>2, <1>a
  DEF LeaseStep, BeginInsert, HeartbeatLoad, RegisterCheck, BeginPrint, BeginFail,
      HeartbeatStore, HeartbeatStamp, HeartbeatDone, RegisterRow, RegisterBeat,
      RegisterStamp, Start
<1>3. CASE GuestStep(a)
  BY <1>3, <1>a
  DEF GuestStep, CreateLoad, StartGate, StopGate, DestroyGate, TemplateGate,
      CreateFresh, CreateClone, CreateRefused, CloneStamp, CreateRow, StartGuest,
      StopGuest, DestroyCheck, DestroyStop, DestroyDelete, DestroyMark, ConvertGuest,
      Start
<1>4. CASE CleanupStep(a)
  BY <1>4, <1>a
  DEF CleanupStep, EndLoad, DestroyLoad, AbandonCheck, SweepList, EndClaim, EndShared,
      EndRelease, SweepClaim, SweepDone, Unprotect, SaveDestroyed, FinalizeNext,
      FinalizeTemplate, FinalizeStop, FinalizeShutdown, Doubt, FinalizeDelete,
      FinalizeConfirm, ForgetResource, SaveLease, AbandonClaim, Start
<1>. QED BY <1>1, <1>2, <1>3, <1>4 DEF Step

\* What a command that loads a lease, or the next one of its list, does next.
LEMMA LoadsAhead ==
  ASSUME Located, NEW a \in Actor,
         \/ \E m \in Lease, c \in {"lease-end", "lease-end-shared"} : EndLoad(a, m, c)
         \/ \E m \in Lease : DestroyLoad(a, m) \/ AbandonCheck(a, m)
  PROVE  Goto(a, proc'[a]) /\ proc'[a].pc \in {"claim", "abandon-claim"}
<1>1. ASSUME NEW m \in Lease, NEW c, EndLoad(a, m, c)
      PROVE  Goto(a, proc'[a]) /\ proc'[a].pc = "claim"
  BY <1>1 DEF EndLoad, Start, Goto, Idle, Located, TypeOK
<1>2. ASSUME NEW m \in Lease, DestroyLoad(a, m)
      PROVE  Goto(a, proc'[a]) /\ proc'[a].pc = "claim"
  BY <1>2 DEF DestroyLoad, Start, Goto, Idle, Located, TypeOK
<1>3. ASSUME NEW m \in Lease, AbandonCheck(a, m)
      PROVE  Goto(a, proc'[a]) /\ proc'[a].pc = "abandon-claim"
  BY <1>3 DEF AbandonCheck, Start, Goto, Idle, Located, TypeOK
<1>. QED BY <1>1, <1>2, <1>3

LEMMA SweepAhead ==
  ASSUME Located, NEW a \in Actor, SweepClaim(a)
  PROVE  Goto(a, proc'[a]) /\ proc'[a].pc \in {"sweep", "finalize"}
<1>. DEFINE p == proc[a]
<1>0. p \in Proc /\ p.pc = "sweep"  BY DEF SweepClaim, Located, TypeOK
<1>a. ASSUME NEW q, Goto(a, q) PROVE Goto(a, proc'[a]) /\ proc'[a] = q
  BY <1>a DEF Goto, Located, TypeOK
<1>1. PICK b \in p.batch :
        LET rest == [p EXCEPT !.batch = @ \ {b}] IN
        \/ Goto(a, Finalizing([rest EXCEPT !.lease = b.lease, !.prior = b.prior,
                                 !.todo = b.todo, !.failed = FALSE, !.left = {}]))
        \/ Goto(a, rest)
  BY DEF SweepClaim
<1>. DEFINE rest == [p EXCEPT !.batch = @ \ {b}]
<1>. DEFINE q == Finalizing([rest EXCEPT !.lease = b.lease, !.prior = b.prior,
                                !.todo = b.todo, !.failed = FALSE, !.left = {}])
<1>2. rest.pc = "sweep" /\ q.pc = "finalize"  BY <1>0 DEF Proc, Finalizing
<1>3. Goto(a, q) \/ Goto(a, rest)  BY <1>1
<1>. HIDE DEF q, rest
<1>. QED BY <1>a, <1>2, <1>3

\* The commands of leases.py and guest.py go into no teardown.
LeasePc == {"idle", "begun", "hb-store", "hb-stamp", "reg-row", "reg-beat", "reg-stamp"}
OwnPc   == {"idle", "create", "clone-stamp", "create-row", "create-start", "start",
            "halt", "convert", "gd-check", "gd-stop", "gd-delete", "gd-mark"}

LEMMA LeaseAhead ==
  ASSUME Located, NEW a \in Actor, LeaseStep(a)
  PROVE  /\ Goto(a, proc'[a]) /\ proc'[a].pc \in LeasePc
         /\ proc'[a].batch = {} \/ proc'[a].batch = proc[a].batch
         /\ proc'[a].failed = FALSE \/ proc'[a].failed = proc[a].failed
<1>. DEFINE p == proc[a]
<1>. DEFINE Ahead == /\ Goto(a, proc'[a]) /\ proc'[a].pc \in LeasePc
                     /\ proc'[a].batch = {} \/ proc'[a].batch = p.batch
                     /\ proc'[a].failed = FALSE \/ proc'[a].failed = p.failed
<1>. SUFFICES Ahead  OBVIOUS
<1>0. p \in Proc  BY DEF Located, TypeOK
<1>a. ASSUME NEW q, Goto(a, q), q.pc \in LeasePc, q.batch = {} \/ q.batch = p.batch,
             q.failed = FALSE \/ q.failed = p.failed
      PROVE  Ahead
  BY <1>a DEF Goto, Located, TypeOK
<1>b. Idle.pc \in LeasePc /\ Idle.batch = {} /\ Idle.failed = FALSE
  BY DEF Idle, LeasePc
<1>1. CASE BeginPrint(a) \/ HeartbeatDone(a) \/ BeginFail(a) \/ RegisterStamp(a)
  BY <1>1, <1>a, <1>b DEF BeginPrint, HeartbeatDone, BeginFail, RegisterStamp
<1>2. ASSUME NEW l \in Lease, BeginInsert(a, l) PROVE Ahead
  BY <1>2 DEF BeginInsert, Start, Goto, Idle, Located, TypeOK, LeasePc
<1>3. ASSUME NEW l \in Lease, HeartbeatLoad(a, l) PROVE Ahead
  BY <1>3 DEF HeartbeatLoad, Start, Goto, Idle, Located, TypeOK, LeasePc
<1>4. ASSUME NEW l \in Lease, NEW g \in Guest, RegisterCheck(a, l, g) PROVE Ahead
  BY <1>4 DEF RegisterCheck, Start, Goto, Idle, Located, TypeOK, LeasePc
<1>5. CASE HeartbeatStore(a)
  <2>. DEFINE q == [p EXCEPT !.pc = "hb-stamp", !.at = now + TTL]
  <2>1. q.pc \in LeasePc /\ q.batch = p.batch /\ q.failed = p.failed
    BY <1>0 DEF Proc, LeasePc
  <2>2. Goto(a, q) \/ Goto(a, Idle)  BY <1>5 DEF HeartbeatStore
  <2>. HIDE DEF q, Ahead
  <2>. QED BY <1>a, <1>b, <2>1, <2>2
<1>6. CASE HeartbeatStamp(a)
  <2>1. PICK g : Goto(a, [p EXCEPT !.todo = @ \ {g}]) \/ Goto(a, Idle)
    BY <1>6 DEF HeartbeatStamp
  <2>. DEFINE q == [p EXCEPT !.todo = @ \ {g}]
  <2>2. q.pc \in LeasePc /\ q.batch = p.batch /\ q.failed = p.failed
    BY <1>0, <1>6 DEF HeartbeatStamp, Proc, LeasePc
  <2>3. Goto(a, q) \/ Goto(a, Idle)  BY <2>1
  <2>. HIDE DEF q, Ahead
  <2>. QED BY <1>a, <1>b, <2>2, <2>3
<1>7. CASE RegisterRow(a)
  <2>. DEFINE q == [p EXCEPT !.pc = IF p.lease \in LongTerm THEN "reg-stamp" ELSE "reg-beat",
                             !.at = Expiry(p.lease)]
  <2>1. q.pc \in LeasePc /\ q.batch = p.batch /\ q.failed = p.failed
    BY <1>0 DEF Proc, LeasePc
  <2>2. Goto(a, q)  BY <1>7 DEF RegisterRow
  <2>. HIDE DEF q, Ahead
  <2>. QED BY <1>a, <2>1, <2>2
<1>8. CASE RegisterBeat(a)
  <2>. DEFINE q == [p EXCEPT !.pc = "reg-stamp"]
  <2>1. q.pc \in LeasePc /\ q.batch = p.batch /\ q.failed = p.failed
    BY <1>0 DEF Proc, LeasePc
  <2>2. Goto(a, q)  BY <1>8 DEF RegisterBeat
  <2>. HIDE DEF q, Ahead
  <2>. QED BY <1>a, <2>1, <2>2
<1>. QED BY <1>1, <1>2, <1>3, <1>4, <1>5, <1>6, <1>7, <1>8 DEF LeaseStep

LEMMA GuestAhead ==
  ASSUME Located, NEW a \in Actor, GuestStep(a)
  PROVE  /\ Goto(a, proc'[a]) /\ proc'[a].pc \in OwnPc
         /\ proc'[a].batch = {} \/ proc'[a].batch = proc[a].batch
         /\ proc'[a].failed = FALSE \/ proc'[a].failed = proc[a].failed
<1>. DEFINE p == proc[a]
<1>. DEFINE Ahead == /\ Goto(a, proc'[a]) /\ proc'[a].pc \in OwnPc
                     /\ proc'[a].batch = {} \/ proc'[a].batch = p.batch
                     /\ proc'[a].failed = FALSE \/ proc'[a].failed = p.failed
<1>. SUFFICES Ahead  OBVIOUS
<1>0. p \in Proc  BY DEF Located, TypeOK
<1>a. ASSUME NEW q, Goto(a, q), q.pc \in OwnPc, q.batch = {} \/ q.batch = p.batch,
             q.failed = FALSE \/ q.failed = p.failed
      PROVE  Ahead
  BY <1>a DEF Goto, Located, TypeOK
<1>b. Idle.pc \in OwnPc /\ Idle.batch = {} /\ Idle.failed = FALSE
  BY DEF Idle, OwnPc
<1>c. \A c : /\ [p EXCEPT !.pc = c].pc = c
             /\ [p EXCEPT !.pc = c].batch = p.batch
             /\ [p EXCEPT !.pc = c].failed = p.failed
  BY <1>0 DEF Proc
<1>d. /\ "clone-stamp" \in OwnPc /\ "create-row" \in OwnPc /\ "create-start" \in OwnPc
      /\ "gd-stop" \in OwnPc /\ "gd-delete" \in OwnPc /\ "gd-mark" \in OwnPc
  BY DEF OwnPc
<1>1. ASSUME NEW l \in Lease, NEW g \in Guest, NEW c, CreateLoad(a, l, g, c) PROVE Ahead
  BY <1>1 DEF CreateLoad, Start, Goto, Idle, Located, TypeOK, OwnPc
<1>2. ASSUME NEW l \in Lease, NEW g \in Guest,
             \/ StartGate(a, l, g) \/ StopGate(a, l, g)
             \/ DestroyGate(a, l, g) \/ TemplateGate(a, l, g)
      PROVE  Ahead
  <2>1. \E c : \E pc \in {"start", "halt", "gd-check", "convert"} :
          Start(a, c, [Idle EXCEPT !.pc = pc, !.lease = l, !.guest = g])
    BY <1>2 DEF StartGate, StopGate, DestroyGate, TemplateGate
  <2>. QED BY <2>1 DEF Start, Goto, Idle, Located, TypeOK, OwnPc
<1>3. CASE CreateRefused(a) \/ StartGuest(a) \/ StopGuest(a) \/ ConvertGuest(a)
           \/ DestroyMark(a)
  BY <1>3, <1>a, <1>b DEF CreateRefused, StartGuest, StopGuest, ConvertGuest, DestroyMark
<1>4. CASE CreateFresh(a) \/ CreateClone(a) \/ CloneStamp(a) \/ CreateRow(a)
  <2>1. \/ Goto(a, Idle) \/ Goto(a, [p EXCEPT !.pc = "create-row"])
        \/ Goto(a, [p EXCEPT !.pc = "clone-stamp"])
        \/ Goto(a, [p EXCEPT !.pc = "create-start"])
    BY <1>4 DEF CreateFresh, CreateClone, CloneStamp, CreateRow
  <2>. HIDE DEF Ahead
  <2>. QED BY <1>a, <1>b, <1>c, <1>d, <2>1
<1>5. CASE DestroyCheck(a) \/ DestroyStop(a) \/ DestroyDelete(a)
  <2>1. \/ Goto(a, Idle) \/ Goto(a, [p EXCEPT !.pc = "gd-stop"])
        \/ Goto(a, [p EXCEPT !.pc = "gd-delete"]) \/ Goto(a, [p EXCEPT !.pc = "gd-mark"])
    BY <1>5 DEF DestroyCheck, DestroyStop, DestroyDelete
  <2>. HIDE DEF Ahead
  <2>. QED BY <1>a, <1>b, <1>c, <1>d, <2>1
<1>. QED BY <1>1, <1>2, <1>3, <1>4, <1>5 DEF GuestStep

-----------------------------------------------------------------------------
(* EndingIsHeld.                                                           *)

\* A step that changes no claim and puts no lease into 'ending'.
LEMMA EndingKept ==
  ASSUME EndingIsHeld, crashes' = crashes,
         \A m \in Lease : state'[m] = "ending" => state[m] = "ending",
         \A b \in Actor, m \in Lease :
           Holds(b, m) /\ state'[m] = "ending" => Holds(b, m)'
  PROVE  EndingIsHeld'
  BY DEF EndingIsHeld, Holds

\* A step of a command that holds nothing, neither before nor after.
LEMMA EndingOutside ==
  ASSUME Located, EndingIsHeld, crashes' = crashes, NEW a \in Actor, NEW q,
         Goto(a, q), q.pc \notin Finalizer, proc[a].pc \notin Finalizer,
         \A m \in Lease : state'[m] = "ending" => state[m] = "ending"
  PROVE  EndingIsHeld'
<1>1. \A b \in Actor, m \in Lease : Holds(b, m)' <=> b # a /\ Holds(b, m)
  BY HoldsAfter
<1>2. \A m \in Lease : ~Holds(a, m)  BY DEF Holds
<1>. QED BY <1>1, <1>2, EndingKept

\* A command that lets go of the one lease it holds takes it out of 'ending'.
LEMMA EndingLetGo ==
  ASSUME Located, EndingIsHeld, crashes' = crashes, NEW a \in Actor, NEW q,
         Goto(a, q), q.pc \notin Finalizer, NEW l \in Lease, proc[a].lease = l,
         state'[l] # "ending", \A m \in Lease \ {l} : state'[m] = state[m]
  PROVE  EndingIsHeld'
<1>1. \A b \in Actor, m \in Lease : Holds(b, m)' <=> b # a /\ Holds(b, m)
  BY HoldsAfter
<1>2. \A m \in Lease \ {l} : ~Holds(a, m)  BY DEF Holds
<1>. QED BY <1>1, <1>2, EndingKept

\* A command that wins a claim holds it.
LEMMA EndingWon ==
  ASSUME Located, EndingIsHeld, crashes' = crashes, NEW a \in Actor, NEW q,
         Goto(a, q), q.pc \in Finalizer, q.lease \in Lease, proc[a].pc \notin Finalizer,
         \A m \in Lease \ {q.lease} : state'[m] = state[m]
  PROVE  EndingIsHeld'
<1>1. proc'[a] = q /\ \A b \in Actor : b # a => proc'[b] = proc[b]
  BY DEF Goto, Located, TypeOK
<1>2. Holds(a, q.lease)'  BY <1>1 DEF Holds
<1>3. \A b \in Actor, m \in Lease : Holds(b, m) => Holds(b, m)'
  BY <1>1 DEF Holds
<1>. QED BY <1>2, <1>3 DEF EndingIsHeld, Holds

\* Every step of the teardown keeps the claim until the step that settles the
\* lease's state.
LEMMA EndingCleanup ==
  ASSUME IInv, Located', EndingIsHeld, NEW a \in Actor, CleanupStep(a)
  PROVE  EndingIsHeld'
<1>. USE DEF IInv
<1>0. /\ Idle.pc = "idle" /\ "idle" \notin Finalizer /\ "sweep" \notin Finalizer
      /\ "save-destroyed" \notin Finalizer /\ "finalize" \in Finalizer
      /\ "release" \in Finalizer /\ "claim" \notin Finalizer
      /\ "abandon-claim" \notin Finalizer
      /\ "shared" \in Finalizer /\ "unprotect" \in Finalizer
  BY DEF Idle, Finalizer
<1>a. proc[a] \in Proc  BY DEF Located, TypeOK
<1>b. ASSUME UNCHANGED <<state, crashes>>, Outside(a), proc[a].pc \notin Finalizer
      PROVE  EndingIsHeld'
  BY <1>b, EndingOutside DEF Outside
<1>1. CASE \/ \E m \in Lease, c \in {"lease-end", "lease-end-shared"} : EndLoad(a, m, c)
           \/ \E m \in Lease : DestroyLoad(a, m) \/ AbandonCheck(a, m)
  <2>1. proc[a] = Idle /\ UNCHANGED crashes
    BY <1>1 DEF EndLoad, DestroyLoad, AbandonCheck, Start, ReadOnly, env
  <2>. QED BY <1>0, <1>1, <1>b, <2>1, LoadOutside
<1>2. ASSUME NEW c, SweepList(a, c) PROVE EndingIsHeld'
  <2>1. Goto(a, proc'[a]) /\ proc'[a].pc = "sweep"
    BY <1>2 DEF SweepList, Start, Idle, Goto, Located, TypeOK
  <2>2. proc[a] = Idle /\ UNCHANGED <<state, crashes>>
    BY <1>2 DEF SweepList, Start, ReadOnly, store, env
  <2>. QED BY <1>0, <2>1, <2>2, EndingOutside
<1>3. CASE SweepDone(a)
  BY <1>0, <1>3, EndingOutside DEF SweepDone, ReadOnly, store, env
<1>4. CASE EndClaim(a)
  <2>1. proc[a].lease \in Lease /\ proc[a].pc = "claim" /\ UNCHANGED crashes
    BY <1>4, HolderSound DEF EndClaim, env
  <2>2. ASSUME NEW pc \in {"unprotect", "shared"}, Goto(a, [proc[a] EXCEPT !.pc = pc]),
               ClaimLease(proc[a].lease, proc[a].prior, "ending")
        PROVE  EndingIsHeld'
    <3>. DEFINE q == [proc[a] EXCEPT !.pc = pc]
    <3>1. q.pc \in Finalizer /\ q.lease = proc[a].lease  BY <1>0, <1>a DEF Proc
    <3>2. \A m \in Lease \ {proc[a].lease} : state'[m] = state[m]
      BY <2>2 DEF ClaimLease, Located, TypeOK
    <3>. HIDE DEF q
    <3>. QED BY <1>0, <2>1, <2>2, <3>1, <3>2, EndingWon DEF q
  <2>3. CASE UNCHANGED store /\ Goto(a, Idle)
    BY <1>0, <2>1, <2>3, EndingOutside DEF store
  <2>. QED BY <1>4, <2>2, <2>3 DEF EndClaim
<1>5. CASE SweepClaim(a)
  <2>1. PICK b \in proc[a].batch :
          LET rest == [proc[a] EXCEPT !.batch = @ \ {b}] IN
          \/ /\ ClaimLease(b.lease, b.prior, "ending")
             /\ Goto(a, Finalizing([rest EXCEPT !.lease = b.lease, !.prior = b.prior,
                                                !.todo = b.todo, !.failed = FALSE,
                                                !.left = {}]))
          \/ state[b.lease] # b.prior /\ UNCHANGED store /\ Goto(a, rest)
    BY <1>5 DEF SweepClaim
  <2>2. b.lease \in Lease  BY <1>a DEF Proc, Snapshot
  <2>3. proc[a].pc = "sweep" /\ UNCHANGED crashes  BY <1>5 DEF SweepClaim, env
  <2>. DEFINE rest == [proc[a] EXCEPT !.batch = @ \ {b}]
  <2>. DEFINE q == Finalizing([rest EXCEPT !.lease = b.lease, !.prior = b.prior,
                                  !.todo = b.todo, !.failed = FALSE, !.left = {}])
  <2>4. rest.pc = "sweep" /\ q.pc = "finalize" /\ q.lease = b.lease
    BY <1>a, <2>3 DEF Proc, Finalizing
  <2>5. \/ ClaimLease(b.lease, b.prior, "ending") /\ Goto(a, q)
        \/ UNCHANGED store /\ Goto(a, rest)
    BY <2>1
  <2>. HIDE DEF q, rest
  <2>6. CASE ClaimLease(b.lease, b.prior, "ending") /\ Goto(a, q)
    <3>1. \A m \in Lease \ {b.lease} : state'[m] = state[m]
      BY <2>6 DEF ClaimLease, Located, TypeOK
    <3>. QED BY <1>0, <2>2, <2>3, <2>4, <2>6, <3>1, EndingWon
  <2>7. CASE UNCHANGED store /\ Goto(a, rest)
    BY <1>0, <2>3, <2>4, <2>7, EndingOutside DEF store
  <2>. QED BY <2>5, <2>6, <2>7
<1>6. CASE \/ EndShared(a) \/ Unprotect(a)
           \/ FinalizeNext(a) \/ FinalizeTemplate(a) \/ FinalizeStop(a)
           \/ FinalizeShutdown(a) \/ FinalizeDelete(a) \/ FinalizeConfirm(a)
           \/ ForgetResource(a)
  <2>1. UNCHANGED crashes
    BY <1>6
    DEF EndShared, Unprotect, FinalizeNext, FinalizeTemplate, FinalizeStop,
        FinalizeShutdown, FinalizeDelete, FinalizeConfirm, ForgetResource, ReadOnly,
        HostError, Misread, AnswerLost, env
  <2>2. Inside(a) /\ UNCHANGED state  BY <1>6, TeardownInside
  <2>3. PICK p \in Proc : /\ Goto(a, p) /\ p.pc \in Finalizer
                          /\ proc[a].pc \in Finalizer /\ p.lease = proc[a].lease
    BY <2>2 DEF Inside
  <2>4. /\ proc'[a] = p
        /\ \A b \in Actor : b # a => proc'[b] = proc[b]
    BY <2>3, GotoOthers
  <2>5. \A b \in Actor, l \in Lease : Holds(b, l)' <=> Holds(b, l)
    BY <2>3, <2>4 DEF Holds
  <2>. QED BY <2>1, <2>2, <2>5, EndingKept
<1>7. CASE EndRelease(a)
  <2>1. PICK l \in Lease : l = proc[a].lease /\ proc[a].prior \in OpenState
    BY <1>0, <1>7, HolderSound DEF EndRelease
  <2>2. state'[l] # "ending" /\ \A m \in Lease \ {l} : state'[m] = state[m]
    BY <1>7, <2>1 DEF EndRelease, ClaimLease, store, Located, TypeOK, OpenState
  <2>. QED BY <1>0, <1>7, <2>1, <2>2, EndingLetGo DEF EndRelease, env
<1>8. CASE AbandonClaim(a)
  <2>1. \A m \in Lease : state'[m] = "ending" => state[m] = "ending"
    BY <1>8 DEF AbandonClaim, ClaimLease, store, Located, TypeOK
  <2>. QED BY <1>0, <1>8, <2>1, EndingOutside DEF AbandonClaim, env
<1>9. CASE SaveDestroyed(a)
  <2>1. \A m \in Lease : state'[m] = "ending" => state[m] = "ending"
    BY <1>9 DEF SaveDestroyed, SetLeaseState, Located, TypeOK
  <2>. QED BY <1>0, <1>9, <2>1, EndingOutside DEF SaveDestroyed, env
<1>10. CASE SaveLease(a)
  <2>. DEFINE p == proc[a]
  <2>. DEFINE d == [Idle EXCEPT !.pc = "save-destroyed", !.cmd = p.cmd, !.lease = p.lease]
  <2>. DEFINE n == [Idle EXCEPT !.pc = "sweep", !.cmd = p.cmd, !.batch = p.batch]
  <2>1. Goto(a, n) \/ Goto(a, d) \/ Goto(a, Idle)  BY <1>10 DEF SaveLease
  <2>2. n.pc = "sweep" /\ d.pc = "save-destroyed"  BY DEF Idle
  <2>. HIDE DEF n, d
  <2>3. PICK q : Goto(a, q) /\ q.pc \notin Finalizer  BY <1>0, <2>1, <2>2
  <2>4. PICK l \in Lease : l = p.lease  BY <1>10, SaveLeaseFinal
  <2>5. state'[l] # "ending" /\ \A m \in Lease \ {l} : state'[m] = state[m]
    BY <1>10, <2>4 DEF SaveLease, SetLeaseState, Located, TypeOK
  <2>6. UNCHANGED crashes  BY <1>10 DEF SaveLease, env
  <2>. QED BY <2>3, <2>4, <2>5, <2>6, EndingLetGo
<1>. QED
  BY <1>1, <1>2, <1>3, <1>4, <1>5, <1>6, <1>7, <1>8, <1>9, <1>10
  DEF CleanupStep, Sweeps

\* No step at all leaves a lease in 'ending' alone, short of a crash.
LEMMA EndingStep ==
  ASSUME IInv, EndingIsHeld, [Next]_vars PROVE EndingIsHeld'
<1>0. Located /\ Located' /\ Young  BY NextLocated DEF IInv
<1>1. ASSUME UNCHANGED <<state, proc, crashes>> PROVE EndingIsHeld'
  BY <1>1, EndingKept DEF Holds
<1>2. CASE Tick \/ \E g \in Guest : ManualRemove(g)
  BY <1>1, <1>2 DEF Tick, ManualRemove, store, env
<1>3. ASSUME NEW l \in Lease, ManualReclaim(l) PROVE EndingIsHeld'
  <2>1. UNCHANGED <<proc, crashes>> /\ \A m \in Lease : state'[m] = "ending" => state[m] = "ending"
    BY <1>0, <1>3 DEF ManualReclaim, ClaimLease, Located, TypeOK, env
  <2>. QED BY <2>1, EndingKept DEF Holds
<1>4. ASSUME NEW a \in Actor, Crash(a) PROVE EndingIsHeld'
  BY <1>0, <1>4 DEF Crash, EndingIsHeld, Located, TypeOK
<1>5. ASSUME NEW a \in Actor, Outside(a), UNCHANGED <<state, crashes>>,
             proc[a].pc \notin Finalizer
      PROVE  EndingIsHeld'
  BY <1>0, <1>5, EndingOutside DEF Outside
<1>6. ASSUME NEW a \in Actor, LeaseStep(a) PROVE EndingIsHeld'
  <2>1. UNCHANGED crashes
    BY <1>6
    DEF LeaseStep, BeginInsert, HeartbeatLoad, RegisterCheck, BeginPrint, BeginFail,
        HeartbeatStore, HeartbeatStamp, HeartbeatDone, RegisterRow, RegisterBeat,
        RegisterStamp, ReadOnly, HostError, AnswerLost, env
  <2>2. ASSUME NEW l \in Lease, BeginInsert(a, l) PROVE EndingIsHeld'
    <3>1. Goto(a, proc'[a]) /\ proc'[a].pc = "begun"
      BY <1>0, <2>2 DEF BeginInsert, Start, Idle, Goto, Located, TypeOK
    <3>2. \A m \in Lease : state'[m] = "ending" => state[m] = "ending"
      BY <1>0, <2>2 DEF BeginInsert, Located, TypeOK
    <3>3. "begun" \notin Finalizer  BY DEF Finalizer
    <3>. QED BY <1>0, <1>6, <2>1, <3>1, <3>2, <3>3, NotTearingDown, EndingOutside
  <2>3. CASE BeginFail(a)
    <3>1. \A m \in Lease : state'[m] = "ending" => state[m] = "ending"
      BY <1>0, <2>3 DEF BeginFail, SetLeaseState, Located, TypeOK
    <3>2. Idle.pc \notin Finalizer  BY DEF Idle, Finalizer
    <3>. QED BY <1>0, <1>6, <2>1, <2>3, <3>1, <3>2, NotTearingDown, EndingOutside DEF BeginFail
  <2>4. CASE ~BeginFail(a) /\ \A l \in Lease : ~BeginInsert(a, l)
    BY <1>0, <1>5, <1>6, <2>1, <2>4, LeaseStepOutside, NotTearingDown
  <2>. QED BY <2>2, <2>3, <2>4
<1>7. ASSUME NEW a \in Actor, GuestStep(a) PROVE EndingIsHeld'
  <2>1. UNCHANGED crashes
    BY <1>7
    DEF GuestStep, CreateLoad, StartGate, StopGate, DestroyGate, TemplateGate,
        CreateFresh, CreateClone, CreateRefused, CloneStamp, CreateRow, StartGuest,
        StopGuest, DestroyCheck, DestroyStop, DestroyDelete, DestroyMark, ConvertGuest,
        ReadOnly, HostError, AnswerLost, env
  <2>. QED BY <1>0, <1>5, <1>7, <2>1, GuestStepOutside, NotTearingDown
<1>8. ASSUME NEW a \in Actor, CleanupStep(a) PROVE EndingIsHeld'
  BY <1>0, <1>8, EndingCleanup
<1>9. CASE UNCHANGED vars  BY <1>1, <1>9 DEF vars, store, env
<1>. QED BY <1>2, <1>3, <1>4, <1>6, <1>7, <1>8, <1>9 DEF Next, ByHand, Step

LEMMA EndingInit == Init => EndingIsHeld  BY DEF Init, EndingIsHeld

\* As long as no command is killed, every lease in 'ending' has a command at
\* work on it: every path through finalize_lease, failed calls included, ends
\* in a save or in a release.
THEOREM EndingHeld == Spec => []EndingIsHeld
<1>1. IInv /\ EndingIsHeld /\ [Next]_vars => EndingIsHeld'  BY EndingStep
<1>. QED BY <1>1, EndingInit, Invariance, PTL DEF Spec

-----------------------------------------------------------------------------
(* StampsMatchKind.                                                        *)

DatedPc ==
  {"hb-store", "hb-stamp", "reg-beat", "shared", "release", "unprotect",
   "reg-stamp", "create", "clone-stamp"}

\* At any other point a command is dated as it should be.
LEMMA PlainDated == ASSUME NEW q, q.pc \notin DatedPc PROVE Dated(q)
  BY DEF Dated, DatedPc

\* What an expiry says of a stamp that carries it.
LEMMA StampGood ==
  ASSUME NEW l \in Lease, state[l] # "none", NEW e,
         l \notin LongTerm => e # 0,
         l \in LongTerm /\ state[l] = "active" => e = 0
  PROVE  GoodStamp(Stamp(l, e)) /\ \A g : GoodStamp(Redated(g, l, e))
  BY LeaseAssumption DEF GoodStamp, Stamp, Redated, Unstamped

\* A step that changes the kind of no lease, opens no long-term one, and writes
\* only good stamps, good locals and, for ordinary leases, real expiries.
LEMMA StampsKept ==
  ASSUME Located, Located', Stamps, now' >= now,
         \A l \in Lease : (state'[l] = "none" <=> state[l] = "none"),
         \A l \in LongTerm : state'[l] = "active" => state[l] = "active",
         \A l \in Lease : expires'[l] = expires[l] \/ (l \notin LongTerm /\ expires'[l] # 0),
         \A g \in Guest : meta'[g] = meta[g] \/ GoodStamp(meta'[g]),
         \A b \in Actor : proc'[b] = proc[b] \/ Dated(proc'[b])
  PROVE  Stamps'
<1>1. now' >= Epoch  BY DEF Stamps, Located, TypeOK, Epoch
<1>2. \A l \in Lease : state'[l] # "none" => (expires'[l] = 0 <=> l \in LongTerm)
  BY DEF Stamps
<1>3. \A g \in Guest : GoodStamp(meta'[g])  BY DEF Stamps
<1>4. ASSUME NEW g \in Guest PROVE GoodStamp(meta[g])'
  BY <1>3, LeaseAssumption DEF GoodStamp
<1>5. \A b \in Actor : Dated(proc'[b])  BY DEF Stamps
<1>6. \A b \in Actor : Dated(proc[b])'  BY <1>5 DEF Dated
<1>7. Epoch' = Epoch  BY DEF Epoch
<1>. QED BY <1>1, <1>2, <1>4, <1>6, <1>7 DEF Stamps

\* The same for the step of one command that leaves the lease's states alone.
LEMMA StampsGoto ==
  ASSUME Located, Located', Stamps, UNCHANGED <<state, now>>,
         NEW a \in Actor, NEW q, Goto(a, q), Dated(q),
         \A l \in Lease : expires'[l] = expires[l] \/ (l \notin LongTerm /\ expires'[l] # 0),
         \A g \in Guest : meta'[g] = meta[g] \/ GoodStamp(meta'[g])
  PROVE  Stamps'
<1>1. \A b \in Actor : proc'[b] = proc[b] \/ Dated(proc'[b])
  BY DEF Goto, Located, TypeOK
<1>2. now' >= now  BY DEF Located, TypeOK
<1>. QED BY <1>1, <1>2, StampsKept

\* What is written into descriptions is good if the stamp is.
LEMMA SetMetaGood ==
  ASSUME Located, NEW g \in Guest, NEW m, GoodStamp(m), SetMeta(g, m)
  PROVE  \A h \in Guest : meta'[h] = meta[h] \/ GoodStamp(meta'[h])
  BY DEF SetMeta, Located, TypeOK

LEMMA AddGuestGood ==
  ASSUME Located, NEW g \in Guest, NEW m, GoodStamp(m), AddGuest(g, m)
  PROVE  \A h \in Guest : meta'[h] = meta[h] \/ GoodStamp(meta'[h])
  BY DEF AddGuest, Located, TypeOK

LEMMA UnstampedGood == GoodStamp(Unstamped)
  BY LeaseAssumption DEF GoodStamp, Unstamped

LEMMA RemoveGuestGood ==
  ASSUME Located, NEW g \in Guest, RemoveGuest(g)
  PROVE  \A h \in Guest : meta'[h] = meta[h] \/ GoodStamp(meta'[h])
  BY UnstampedGood DEF RemoveGuest, Located, TypeOK

\* store.heartbeat of an ordinary lease.
LEMMA StoreHeartbeatGood ==
  ASSUME Located, NEW l \in Lease, l \notin LongTerm, NEW e, e # 0, StoreHeartbeat(l, e)
  PROVE  \A m \in Lease : expires'[m] = expires[m] \/ (m \notin LongTerm /\ expires'[m] # 0)
  BY DEF StoreHeartbeat, Located, TypeOK

\* lease-begin gives a lease the expiry of its kind; nothing carries its stamp.
LEMMA StampsBegin ==
  ASSUME Located, Located', Stamps, NEW a \in Actor, NEW l \in Lease, BeginInsert(a, l)
  PROVE  Stamps'
<1>1. /\ state[l] = "none" /\ state' = [state EXCEPT ![l] = "active"]
      /\ expires' = [expires EXCEPT ![l] = Expiry(l)] /\ UNCHANGED <<meta, now>>
      /\ Goto(a, [[Idle EXCEPT !.pc = "begun", !.lease = l] EXCEPT !.cmd = "lease-begin"])
  BY DEF BeginInsert, Start, host, env
<1>2. Expiry(l) = 0 <=> l \in LongTerm
  BY BoundAssumption DEF Expiry, Located, TypeOK
<1>3. \A m \in Lease : state'[m] # "none" => (expires'[m] = 0 <=> m \in LongTerm)
  BY <1>1, <1>2 DEF Stamps, Located, TypeOK
<1>4. ASSUME NEW g \in Guest PROVE GoodStamp(meta[g])'
  BY <1>1 DEF Stamps, GoodStamp, Located, TypeOK
<1>5. proc'[a].pc = "begun" /\ \A b \in Actor : b # a => proc'[b] = proc[b]
  BY <1>1 DEF Goto, Located, TypeOK, Idle
<1>6. \A b \in Actor : Dated(proc'[b])
  BY <1>5, PlainDated DEF Stamps, DatedPc
<1>7. \A b \in Actor : Dated(proc[b])'  BY <1>6 DEF Dated
<1>8. (now >= Epoch)'  BY <1>1 DEF Stamps, Epoch
<1>. QED BY <1>3, <1>4, <1>7, <1>8 DEF Stamps

\* leases.py
LEMMA StampsLease ==
  ASSUME Located, Located', Young, Stamps, NEW a \in Actor, LeaseStep(a)
  PROVE  Stamps'
<1>. DEFINE p == proc[a]
<1>0. p \in Proc /\ Sound(p) /\ Dated(p)  BY DEF Located, TypeOK, Stamps
<1>a. p.pc \notin Leaseless => p.lease \in Lease /\ state[p.lease] # "none"
  BY <1>0 DEF Sound, Young
<1>b. Dated(Idle)  BY PlainDated DEF Idle, DatedPc
<1>c. now \in Nat /\ now + TTL # 0 /\ \A l \in Lease : (Expiry(l) = 0 <=> l \in LongTerm)
  BY BoundAssumption DEF Located, TypeOK, Expiry
<1>1. ASSUME NEW l \in Lease, BeginInsert(a, l) PROVE Stamps'
  BY <1>1, StampsBegin
<1>2. ASSUME NEW l \in Lease, HeartbeatLoad(a, l) PROVE Stamps'
  <2>. DEFINE q == [[Idle EXCEPT !.pc = "hb-store", !.lease = l, !.todo = Undestroyed(l)]
                    EXCEPT !.cmd = "lease-heartbeat"]
  <2>1. Dated(q)  BY <1>2 DEF HeartbeatLoad, Dated, Idle
  <2>2. Goto(a, q)  BY <1>2 DEF HeartbeatLoad, Start
  <2>. HIDE DEF q
  <2>. QED BY <1>2, <2>1, <2>2, StampsGoto DEF HeartbeatLoad, ReadOnly, store, host, env
<1>3. ASSUME NEW l \in Lease, NEW g \in Guest, RegisterCheck(a, l, g) PROVE Stamps'
  <2>. DEFINE q == [[Idle EXCEPT !.pc = "reg-row", !.lease = l, !.guest = g]
                    EXCEPT !.cmd = "lease-register"]
  <2>1. Dated(q)  BY PlainDated DEF DatedPc, Idle
  <2>2. Goto(a, q)  BY <1>3 DEF RegisterCheck, Start
  <2>. HIDE DEF q
  <2>. QED BY <1>3, <2>1, <2>2, StampsGoto DEF RegisterCheck, ReadOnly, store, host, env
<1>4. CASE BeginPrint(a) \/ HeartbeatDone(a)
  BY <1>4, <1>b, StampsGoto DEF BeginPrint, HeartbeatDone, ReadOnly, store, host, env
<1>5. CASE BeginFail(a)
  <2>1. p.lease \in Lease /\ state[p.lease] # "none"  BY <1>5, <1>a DEF BeginFail, Leaseless
  <2>2. /\ state' = [state EXCEPT ![p.lease] = "abandoned"] /\ UNCHANGED <<expires, meta, now>>
        /\ Goto(a, Idle)
    BY <1>5 DEF BeginFail, SetLeaseState, HostError, AnswerLost, host, env
  <2>3. \A b \in Actor : proc'[b] = proc[b] \/ Dated(proc'[b])
    BY <1>b, <2>2 DEF Goto, Located, TypeOK
  <2>4. \A l \in Lease : /\ state'[l] = "none" <=> state[l] = "none"
                         /\ state'[l] = "active" => state[l] = "active"
    BY <2>1, <2>2 DEF Located, TypeOK
  <2>5. now' >= now  BY <1>c, <2>2
  <2>. QED BY <2>2, <2>3, <2>4, <2>5, StampsKept, LeaseAssumption
<1>6. CASE HeartbeatStore(a)
  <2>1. p.lease \in Lease /\ p.lease \notin LongTerm
    BY <1>0, <1>6, <1>a DEF HeartbeatStore, Dated, Leaseless
  <2>. DEFINE q == IF state[p.lease] = "active"
                   THEN [p EXCEPT !.pc = "hb-stamp", !.at = now + TTL] ELSE Idle
  <2>2. Dated(q)  BY <1>0, <1>b, <1>c, <2>1 DEF Dated, Proc
  <2>3. Goto(a, q)  BY <1>6 DEF HeartbeatStore
  <2>4. \A m \in Lease : expires'[m] = expires[m] \/ (m \notin LongTerm /\ expires'[m] # 0)
    BY <1>6, <1>c, <2>1, StoreHeartbeatGood DEF HeartbeatStore
  <2>. HIDE DEF q
  <2>. QED
    BY <1>6, <2>2, <2>3, <2>4, StampsGoto DEF HeartbeatStore, StoreHeartbeat, host, env
<1>7. CASE HeartbeatStamp(a)
  <2>1. p.lease \in Lease /\ p.lease \notin LongTerm /\ p.at # 0 /\ state[p.lease] # "none"
        /\ p.todo \subseteq Guest
    BY <1>0, <1>7, <1>a DEF HeartbeatStamp, Dated, Leaseless, Proc
  <2>2. PICK g \in p.todo :
          \/ /\ SetMeta(g, Redated(g, p.lease, p.at))
             /\ \/ UNCHANGED env /\ Goto(a, [p EXCEPT !.todo = @ \ {g}])
                \/ AnswerLost /\ Goto(a, Idle)
          \/ HostError /\ Goto(a, Idle)
    BY <1>7 DEF HeartbeatStamp
  <2>. DEFINE q == [p EXCEPT !.todo = @ \ {g}]
  <2>3. Dated(q)  BY <1>0, <2>1, <1>7 DEF Dated, Proc, HeartbeatStamp
  <2>4. Goto(a, q) \/ Goto(a, Idle)  BY <2>2
  <2>5. GoodStamp(Redated(g, p.lease, p.at))  BY <2>1, StampGood
  <2>6. \A h \in Guest : meta'[h] = meta[h] \/ GoodStamp(meta'[h])
    BY <2>1, <2>2, <2>5, SetMetaGood DEF HostError, host
  <2>7. UNCHANGED <<state, expires, now>>
    BY <1>7, <2>2 DEF HeartbeatStamp, HostError, AnswerLost, store, env
  <2>. HIDE DEF q
  <2>. QED BY <1>b, <2>3, <2>4, <2>6, <2>7, StampsGoto
<1>8. CASE RegisterRow(a)
  <2>1. p.lease \in Lease  BY <1>8, <1>a DEF RegisterRow, Leaseless
  <2>. DEFINE q == [p EXCEPT !.pc = IF p.lease \in LongTerm THEN "reg-stamp" ELSE "reg-beat",
                             !.at = Expiry(p.lease)]
  <2>2. Dated(q)  BY <1>0, <1>c, <2>1 DEF Dated, Proc
  <2>3. Goto(a, q)  BY <1>8 DEF RegisterRow
  <2>4. UNCHANGED <<state, expires, meta, now>>
    BY <1>8 DEF RegisterRow, InsertRow, store, host, env
  <2>. HIDE DEF q
  <2>. QED BY <2>2, <2>3, <2>4, StampsGoto
<1>9. CASE RegisterBeat(a)
  <2>1. p.lease \in Lease /\ p.lease \notin LongTerm /\ p.at # 0
    BY <1>0, <1>9, <1>a DEF RegisterBeat, Dated, Leaseless
  <2>. DEFINE q == [p EXCEPT !.pc = "reg-stamp"]
  <2>2. Dated(q)  BY <1>0, <2>1 DEF Dated, Proc
  <2>3. Goto(a, q)  BY <1>9 DEF RegisterBeat
  <2>4. \A m \in Lease : expires'[m] = expires[m] \/ (m \notin LongTerm /\ expires'[m] # 0)
    BY <1>9, <2>1, StoreHeartbeatGood DEF RegisterBeat
  <2>. HIDE DEF q
  <2>. QED
    BY <1>9, <2>2, <2>3, <2>4, StampsGoto DEF RegisterBeat, StoreHeartbeat, host, env
<1>10. CASE RegisterStamp(a)
  <2>1. p.lease \in Lease /\ state[p.lease] # "none" /\ p.guest \in Guest
        /\ (p.at = 0 <=> p.lease \in LongTerm)
    BY <1>0, <1>10, <1>a DEF RegisterStamp, Dated, Leaseless, Sound, GuestPc
  <2>2. GoodStamp(Stamp(p.lease, p.at))  BY <2>1, StampGood
  <2>3. \A h \in Guest : meta'[h] = meta[h] \/ GoodStamp(meta'[h])
    BY <1>10, <2>1, <2>2, SetMetaGood DEF RegisterStamp, HostError, host
  <2>4. UNCHANGED <<state, expires, now>> /\ Goto(a, Idle)
    BY <1>10 DEF RegisterStamp, HostError, AnswerLost, store, env
  <2>. QED BY <1>b, <2>3, <2>4, StampsGoto
<1>. QED
  BY <1>1, <1>2, <1>3, <1>4, <1>5, <1>6, <1>7, <1>8, <1>9, <1>10 DEF LeaseStep

\* guest.py
LEMMA StampsGuest ==
  ASSUME Located, Located', Young, Stamps, NEW a \in Actor, GuestStep(a)
  PROVE  Stamps'
<1>. DEFINE p == proc[a]
<1>0. p \in Proc /\ Sound(p) /\ Dated(p)  BY DEF Located, TypeOK, Stamps
<1>a. p.pc \in {"create", "clone-stamp"} =>
        /\ p.lease \in Lease /\ state[p.lease] # "none" /\ p.guest \in Guest
        /\ p.at = 0 <=> p.lease \in LongTerm
        /\ GoodStamp(Stamp(p.lease, p.at))
  BY <1>0, StampGood DEF Sound, Young, Dated, Leaseless, GuestPc
<1>b. Dated(Idle)  BY PlainDated DEF Idle, DatedPc
<1>c. \A g \in Guest : GoodStamp(meta[g])  BY DEF Stamps
<1>1. ASSUME NEW l \in Lease, NEW g \in Guest, NEW c, CreateLoad(a, l, g, c) PROVE Stamps'
  <2>. DEFINE q == [[Idle EXCEPT !.pc = "create", !.lease = l, !.guest = g,
                                 !.at = expires[l]] EXCEPT !.cmd = c]
  <2>1. expires[l] = 0 <=> l \in LongTerm
    BY <1>1 DEF CreateLoad, Stamps, NonTerminal
  <2>2. Dated(q)  BY <2>1 DEF Dated, Idle
  <2>3. Goto(a, q)  BY <1>1 DEF CreateLoad, Start
  <2>. HIDE DEF q
  <2>. QED BY <1>1, <2>2, <2>3, StampsGoto DEF CreateLoad, ReadOnly, store, host, env
<1>2. ASSUME NEW l \in Lease, NEW g \in Guest,
             \/ StartGate(a, l, g) \/ StopGate(a, l, g)
             \/ DestroyGate(a, l, g) \/ TemplateGate(a, l, g)
      PROVE  Stamps'
  <2>1. \E c : \E pc \in {"start", "halt", "gd-check", "convert"} :
          Start(a, c, [Idle EXCEPT !.pc = pc, !.lease = l, !.guest = g])
    BY <1>2 DEF StartGate, StopGate, DestroyGate, TemplateGate
  <2>2. Goto(a, proc'[a]) /\ proc'[a].pc \in {"start", "halt", "gd-check", "convert"}
    BY <2>1 DEF Start, Goto, Idle, Located, TypeOK
  <2>3. Dated(proc'[a])  BY <2>2, PlainDated DEF DatedPc
  <2>4. ReadOnly  BY <1>2 DEF StartGate, StopGate, DestroyGate, TemplateGate
  <2>. QED BY <2>2, <2>3, <2>4, StampsGoto DEF ReadOnly, store, host, env
<1>3. CASE CreateFresh(a) \/ CreateClone(a) \/ CloneStamp(a)
  <2>1. p.pc \in {"create", "clone-stamp"}
    BY <1>3 DEF CreateFresh, CreateClone, CloneStamp
  <2>2. UNCHANGED <<state, expires, now>>
    BY <1>3
    DEF CreateFresh, CreateClone, CloneStamp, HostError, AnswerLost, store, env
  <2>3. \A h \in Guest : meta'[h] = meta[h] \/ GoodStamp(meta'[h])
    <3>1. CASE CreateFresh(a)
      BY <1>a, <2>1, <3>1, AddGuestGood, UnstampedGood DEF CreateFresh
    <3>2. CASE CreateClone(a)
      BY <1>a, <1>c, <2>1, <3>2, AddGuestGood DEF CreateClone
    <3>3. CASE CloneStamp(a)
      BY <1>a, <2>1, <3>3, SetMetaGood DEF CloneStamp, HostError, host
    <3>. QED BY <1>3, <3>1, <3>2, <3>3
  <2>. DEFINE r == [p EXCEPT !.pc = "create-row"]
  <2>. DEFINE s == [p EXCEPT !.pc = "clone-stamp"]
  <2>4. Dated(r)  BY <1>0, PlainDated DEF DatedPc, Proc
  <2>5. Dated(s)  BY <1>0, <1>a, <2>1 DEF Dated, Proc
  <2>6. Goto(a, r) \/ Goto(a, s) \/ Goto(a, Idle)
    BY <1>3 DEF CreateFresh, CreateClone, CloneStamp
  <2>. HIDE DEF r, s
  <2>. QED BY <1>b, <2>2, <2>3, <2>4, <2>5, <2>6, StampsGoto
<1>4. CASE CreateRow(a)
  <2>. DEFINE q == [p EXCEPT !.pc = "create-start"]
  <2>1. Dated(q)  BY <1>0, PlainDated DEF DatedPc, Proc
  <2>2. Goto(a, q) \/ Goto(a, Idle)  BY <1>4 DEF CreateRow
  <2>3. UNCHANGED <<state, expires, meta, now>>
    BY <1>4 DEF CreateRow, InsertRow, store, host, env
  <2>. HIDE DEF q
  <2>. QED BY <1>b, <2>1, <2>2, <2>3, StampsGoto
<1>5. CASE CreateRefused(a) \/ StartGuest(a) \/ StopGuest(a) \/ ConvertGuest(a)
  <2>1. UNCHANGED <<state, expires, meta, now>> /\ Goto(a, Idle)
    BY <1>5
    DEF CreateRefused, StartGuest, StopGuest, ConvertGuest, SetGuest, HostError,
        AnswerLost, store, host, env
  <2>. QED BY <1>b, <2>1, StampsGoto
<1>6. CASE DestroyCheck(a) \/ DestroyStop(a) \/ DestroyDelete(a)
  <2>1. UNCHANGED <<state, expires, now>> /\ p.guest \in Guest
    BY <1>0, <1>6
    DEF DestroyCheck, DestroyStop, DestroyDelete, HostError, AnswerLost, store, env,
        Sound, GuestPc
  <2>2. \A h \in Guest : meta'[h] = meta[h] \/ GoodStamp(meta'[h])
    BY <1>6, <2>1, RemoveGuestGood
    DEF DestroyCheck, DestroyStop, DestroyDelete, SetGuest, HostError, host
  <2>3. \A c \in {"gd-stop", "gd-delete", "gd-mark"} : Dated([p EXCEPT !.pc = c])
    BY <1>0, PlainDated DEF DatedPc, Proc
  <2>4. Goto(a, Idle) \/ \E c \in {"gd-stop", "gd-delete", "gd-mark"} :
                           Goto(a, [p EXCEPT !.pc = c])
    BY <1>6 DEF DestroyCheck, DestroyStop, DestroyDelete
  <2>. QED BY <1>b, <2>1, <2>2, <2>3, <2>4, StampsGoto
<1>7. CASE DestroyMark(a)
  BY <1>7, <1>b, StampsGoto DEF DestroyMark, MarkDestroyed, host, env
<1>. QED BY <1>1, <1>2, <1>3, <1>4, <1>5, <1>6, <1>7 DEF GuestStep

\* cleanup.py between the claim and the save.
LEMMA StampsInside ==
  ASSUME Located, Located', Claimed, Young, Stamps, NEW a \in Actor,
         \/ EndShared(a) \/ Unprotect(a)
         \/ FinalizeNext(a) \/ FinalizeTemplate(a) \/ FinalizeStop(a)
         \/ FinalizeShutdown(a) \/ FinalizeDelete(a) \/ FinalizeConfirm(a)
         \/ ForgetResource(a)
  PROVE  Stamps'
<1>. DEFINE p == proc[a]
<1>0. p \in Proc /\ Sound(p) /\ Dated(p)  BY DEF Located, TypeOK, Stamps
<1>1. Inside(a) /\ UNCHANGED state  BY TeardownInside
<1>2. p.pc \in Finalizer /\ p.lease \in Lease  BY <1>1, HolderSound DEF Inside
<1>3. UNCHANGED <<expires, now>>
  BY DEF EndShared, Unprotect, FinalizeNext, FinalizeTemplate, FinalizeStop,
         FinalizeShutdown, FinalizeDelete, FinalizeConfirm, ForgetResource, ReadOnly,
         HostError, Misread, AnswerLost, store, env
<1>4. \A g \in Guest : meta'[g] = meta[g] \/ GoodStamp(meta'[g])
  <2>1. CASE Unprotect(a)
    <3>1. p.lease \in LongTerm  BY <1>0, <2>1 DEF Unprotect, Dated
    <3>2. state[p.lease] \in {"ending", "abandoned"}
      BY <1>2 DEF Claimed, Holds
    <3>3. \A g : GoodStamp(Redated(g, p.lease, now - 1))
      BY <1>2, <3>1, <3>2, StampGood
    <3>. QED BY <2>1, <3>3 DEF Unprotect
  <2>2. CASE FinalizeDelete(a)
    <3>1. p.guest \in Guest  BY <1>0, <2>2 DEF FinalizeDelete, Sound, GuestPc
    <3>. QED BY <2>2, <3>1, RemoveGuestGood DEF FinalizeDelete, HostError, host
  <2>3. CASE ~Unprotect(a) /\ ~FinalizeDelete(a)
    BY <2>3
    DEF EndShared, FinalizeNext, FinalizeTemplate, FinalizeStop, FinalizeShutdown,
        FinalizeConfirm, ForgetResource, ReadOnly, HostError, Misread, SetGuest, host
  <2>. QED BY <2>1, <2>2, <2>3
<1>. DEFINE Mid == {"finalize", "stop", "shutdown", "delete", "confirm", "reconfirm",
                  "forget"}
<1>a. \A g : /\ Done(a, g).pc = "finalize" /\ Leave(a, g).pc = "finalize"
             /\ Fail(a, g).pc = "finalize"
  BY <1>0 DEF Proc, Done, Leave, Fail
<1>b. Finalizing(p).pc = "finalize"  BY <1>0 DEF Proc, Finalizing
<1>c. \A c : [p EXCEPT !.pc = c].pc = c  BY <1>0 DEF Proc
<1>d. \A h : [p EXCEPT !.pc = "stop", !.guest = h].pc = "stop"  BY <1>0 DEF Proc
<1>e. /\ "finalize" \in Mid /\ "stop" \in Mid /\ "shutdown" \in Mid /\ "delete" \in Mid
      /\ "confirm" \in Mid /\ "reconfirm" \in Mid /\ "forget" \in Mid
  OBVIOUS
<1>. DEFINE Ahead == /\ proc'[a].pc = "release" \/ proc'[a].pc \in Mid
                     /\ proc'[a].pc = "release" => p.pc = "shared"
<1>f. ASSUME NEW q, Goto(a, q), q.pc \in Mid PROVE Ahead
  BY <1>f DEF Goto, Located, TypeOK
<1>5. Ahead
  <2>1. CASE EndShared(a)
    <3>1. CASE Goto(a, [p EXCEPT !.pc = "release"])
      BY <1>0, <2>1, <3>1 DEF EndShared, Goto, Located, TypeOK, Proc
    <3>2. CASE Goto(a, Finalizing(p))
      BY <1>b, <1>e, <1>f, <3>2
    <3>. QED BY <2>1, <3>1, <3>2 DEF EndShared
  <2>. HIDE DEF Mid, Ahead
  <2>2. CASE Unprotect(a)
    BY <1>b, <1>e, <1>f, <2>2 DEF Unprotect
  <2>3. CASE FinalizeNext(a)
    BY <1>a, <1>d, <1>e, <1>f, <2>3 DEF FinalizeNext
  <2>4. CASE FinalizeTemplate(a)
    BY <1>a, <1>c, <1>e, <1>f, <2>4 DEF FinalizeTemplate
  <2>5. CASE FinalizeStop(a)
    <3>1. \/ Goto(a, Fail(a, p.guest)) \/ Goto(a, [p EXCEPT !.pc = "delete"])
          \/ Goto(a, [p EXCEPT !.pc = "shutdown"])
      BY <2>5 DEF FinalizeStop
    <3>. QED BY <1>a, <1>c, <1>e, <1>f, <3>1
  <2>6. CASE FinalizeShutdown(a)
    <3>1. \/ Goto(a, Fail(a, p.guest)) \/ Doubt(a) \/ Goto(a, [p EXCEPT !.pc = "delete"])
      BY <2>6 DEF FinalizeShutdown
    <3>. QED BY <1>a, <1>c, <1>e, <1>f, <3>1 DEF Doubt
  <2>7. CASE FinalizeDelete(a)
    <3>1. \/ Goto(a, Fail(a, p.guest)) \/ Doubt(a) \/ Goto(a, [p EXCEPT !.pc = "forget"])
      BY <2>7 DEF FinalizeDelete
    <3>. QED BY <1>a, <1>c, <1>e, <1>f, <3>1 DEF Doubt
  <2>8. CASE FinalizeConfirm(a)
    <3>1. \/ Goto(a, Fail(a, p.guest)) \/ Goto(a, [p EXCEPT !.pc = "reconfirm"])
          \/ Goto(a, [p EXCEPT !.pc = "forget"])
      BY <2>8 DEF FinalizeConfirm
    <3>. QED BY <1>a, <1>c, <1>e, <1>f, <3>1
  <2>9. CASE ForgetResource(a)
    BY <1>a, <1>e, <1>f, <2>9 DEF ForgetResource
  <2>. QED BY <2>1, <2>2, <2>3, <2>4, <2>5, <2>6, <2>7, <2>8, <2>9
<1>6. Goto(a, proc'[a]) /\ proc'[a].lease = p.lease
  BY <1>1 DEF Inside, Goto, Located, TypeOK
<1>7. proc'[a].pc = "release" => p.lease \notin LongTerm  BY <1>0, <1>5 DEF Dated
<1>8. proc'[a].pc = "release" \/ proc'[a].pc \in Mid  BY <1>5
<1>9. CASE proc'[a].pc = "release"
  <2>1. Dated(proc'[a])  BY <1>6, <1>7, <1>9 DEF Dated
  <2>. QED BY <1>1, <1>3, <1>4, <1>6, <2>1, StampsGoto
<1>10. CASE proc'[a].pc \in Mid
  <2>1. proc'[a].pc \notin DatedPc  BY <1>10 DEF DatedPc
  <2>2. Dated(proc'[a])  BY <2>1, PlainDated
  <2>. QED BY <1>1, <1>3, <1>4, <1>6, <2>2, StampsGoto
<1>. QED BY <1>8, <1>9, <1>10

\* cleanup.py around it.
LEMMA StampsCleanup ==
  ASSUME IInv, Located', Stamps, NEW a \in Actor, CleanupStep(a)
  PROVE  Stamps'
<1>. USE DEF IInv
<1>. DEFINE p == proc[a]
<1>0. p \in Proc /\ Sound(p) /\ Dated(p)  BY DEF Located, TypeOK, Stamps
<1>b. Dated(Idle)  BY PlainDated DEF Idle, DatedPc
<1>c. \A b \in p.batch : b.lease \in Lease /\ b.prior \in OpenState
  BY <1>0 DEF Sound, Proc, Snapshot
<1>w. ASSUME UNCHANGED <<expires, meta, now>>, Goto(a, proc'[a]), Dated(proc'[a]),
             NEW l \in Lease, NEW from \in OpenState, NEW to \in States \ {"none"},
             to = "active" => l \notin LongTerm,
             UNCHANGED state \/ (state[l] # "none" /\ state' = [state EXCEPT ![l] = to])
      PROVE  Stamps'
  <2>1. /\ \A m \in Lease : (state'[m] = "none" <=> state[m] = "none")
        /\ \A m \in LongTerm : state'[m] = "active" => state[m] = "active"
    BY <1>w, LeaseAssumption DEF Located, TypeOK
  <2>2. \A b \in Actor : proc'[b] = proc[b] \/ Dated(proc'[b])
    BY <1>w DEF Goto, Located, TypeOK
  <2>3. now' >= now  BY <1>w DEF Located, TypeOK
  <2>. QED BY <1>w, <2>1, <2>2, <2>3, StampsKept
<1>g. ASSUME NEW q, Goto(a, q), Dated(q) PROVE Goto(a, proc'[a]) /\ Dated(proc'[a])
  BY <1>g DEF Goto, Located, TypeOK
<1>1. CASE \/ \E m \in Lease, c \in {"lease-end", "lease-end-shared"} : EndLoad(a, m, c)
           \/ \E m \in Lease : DestroyLoad(a, m) \/ AbandonCheck(a, m)
  <2>1. Goto(a, proc'[a]) /\ proc'[a].pc \in {"claim", "abandon-claim"}  BY <1>1, LoadsAhead
  <2>0. UNCHANGED <<store, host, now>>
    BY <1>1 DEF EndLoad, DestroyLoad, AbandonCheck, ReadOnly, env
  <2>2. Dated(proc'[a])  BY <2>1, PlainDated DEF DatedPc
  <2>. QED BY <2>0, <2>1, <2>2, StampsGoto DEF store, host
<1>2. ASSUME NEW c, SweepList(a, c) PROVE Stamps'
  <2>1. Goto(a, proc'[a]) /\ proc'[a].pc = "sweep" /\ ReadOnly
    BY <1>2 DEF SweepList, Start, Idle, Goto, Located, TypeOK
  <2>2. Dated(proc'[a])  BY <2>1, PlainDated DEF DatedPc
  <2>. QED BY <2>1, <2>2, StampsGoto DEF ReadOnly, store, host, env
<1>3. CASE SweepDone(a)
  BY <1>3, <1>b, StampsGoto DEF SweepDone, ReadOnly, store, host, env
<1>4. CASE EndClaim(a)
  <2>1. p.lease \in Lease /\ p.prior \in OpenState /\ p.pc = "claim"
    BY <1>4, HolderSound DEF EndClaim
  <2>. DEFINE q == [p EXCEPT !.pc = IF p.lease \in LongTerm THEN "unprotect" ELSE "shared"]
  <2>2. Dated(q)  BY <1>0 DEF Dated, Proc
  <2>3. Goto(a, q) \/ Goto(a, Idle)  BY <1>4 DEF EndClaim
  <2>. HIDE DEF q
  <2>4. Goto(a, proc'[a]) /\ Dated(proc'[a])  BY <1>b, <1>g, <2>2, <2>3
  <2>5. /\ UNCHANGED <<expires, meta, now>>
        /\ \/ UNCHANGED state
           \/ state[p.lease] # "none" /\ state' = [state EXCEPT ![p.lease] = "ending"]
    BY <1>4, <2>1 DEF EndClaim, ClaimLease, OpenState, store, host, env
  <2>6. "ending" \in States \ {"none"}  BY DEF States, NonTerminal
  <2>. QED BY <1>w, <2>1, <2>4, <2>5, <2>6
<1>5. CASE SweepClaim(a)
  <2>1. Goto(a, proc'[a]) /\ proc'[a].pc \in {"sweep", "finalize"}  BY <1>5, SweepAhead
  <2>2. Goto(a, proc'[a]) /\ Dated(proc'[a])  BY <2>1, PlainDated DEF DatedPc
  <2>3. PICK b \in p.batch : ClaimLease(b.lease, b.prior, "ending") \/ UNCHANGED store
    BY <1>5 DEF SweepClaim
  <2>4. b.lease \in Lease /\ b.prior \in OpenState  BY <1>c
  <2>5. /\ UNCHANGED <<expires, meta, now>>
        /\ \/ UNCHANGED state
           \/ state[b.lease] # "none" /\ state' = [state EXCEPT ![b.lease] = "ending"]
    BY <1>5, <2>3, <2>4 DEF SweepClaim, ClaimLease, OpenState, store, host, env
  <2>6. "ending" \in States \ {"none"}  BY DEF States, NonTerminal
  <2>. QED BY <1>w, <2>2, <2>4, <2>5, <2>6
<1>6. CASE \/ EndShared(a) \/ Unprotect(a)
           \/ FinalizeNext(a) \/ FinalizeTemplate(a) \/ FinalizeStop(a)
           \/ FinalizeShutdown(a) \/ FinalizeDelete(a) \/ FinalizeConfirm(a)
           \/ ForgetResource(a)
  BY <1>6, StampsInside
<1>7. CASE EndRelease(a)
  <2>1. p.lease \in Lease /\ p.prior \in OpenState /\ p.lease \notin LongTerm
    BY <1>0, <1>7, HolderSound DEF EndRelease, Finalizer, Dated
  <2>2. Goto(a, proc'[a]) /\ Dated(proc'[a])  BY <1>7, <1>b, <1>g DEF EndRelease
  <2>3. /\ UNCHANGED <<expires, meta, now>>
        /\ \/ UNCHANGED state
           \/ state[p.lease] # "none" /\ state' = [state EXCEPT ![p.lease] = p.prior]
    BY <1>7, <2>1 DEF EndRelease, ClaimLease, store, host, env
  <2>4. p.prior \in States \ {"none"}  BY <2>1 DEF OpenState, States, NonTerminal
  <2>. QED BY <1>w, <2>1, <2>2, <2>3, <2>4
<1>8. CASE AbandonClaim(a)
  <2>1. p.lease \in Lease /\ p.prior \in OpenState
    BY <1>8, HolderSound DEF AbandonClaim
  <2>2. Goto(a, proc'[a]) /\ Dated(proc'[a])  BY <1>8, <1>b, <1>g DEF AbandonClaim
  <2>3. /\ UNCHANGED <<expires, meta, now>>
        /\ \/ UNCHANGED state
           \/ state[p.lease] # "none" /\ state' = [state EXCEPT ![p.lease] = "abandoned"]
    BY <1>8, <2>1 DEF AbandonClaim, ClaimLease, OpenState, store, host, env
  <2>4. "abandoned" \in States \ {"none"}  BY DEF States, Terminal
  <2>. QED BY <1>w, <2>1, <2>2, <2>3, <2>4
<1>9. CASE SaveDestroyed(a)
  <2>1. p.lease \in Lease /\ state[p.lease] # "none"
    BY <1>9, HolderSound DEF SaveDestroyed, Claimed, Terminal
  <2>2. Goto(a, proc'[a]) /\ Dated(proc'[a])  BY <1>9, <1>b, <1>g DEF SaveDestroyed
  <2>3. /\ UNCHANGED <<expires, meta, now>>
        /\ state' = [state EXCEPT ![p.lease] = "destroyed"]
    BY <1>9 DEF SaveDestroyed, SetLeaseState, host, env
  <2>4. "destroyed" \in States \ {"none"} /\ "active" \in OpenState
    BY DEF States, Terminal, OpenState
  <2>. QED BY <1>w, <2>1, <2>2, <2>3, <2>4
<1>10. CASE SaveLease(a)
  <2>. DEFINE to == IF p.failed THEN "cleanup_failed" ELSE "ended"
  <2>. DEFINE d == [Idle EXCEPT !.pc = "save-destroyed", !.cmd = p.cmd, !.lease = p.lease]
  <2>. DEFINE n == [Idle EXCEPT !.pc = "sweep", !.cmd = p.cmd, !.batch = p.batch]
  <2>1. Goto(a, n) \/ Goto(a, d) \/ Goto(a, Idle)  BY <1>10 DEF SaveLease
  <2>2. Dated(n) /\ Dated(d)  BY PlainDated DEF DatedPc, Idle
  <2>. HIDE DEF n, d
  <2>3. Goto(a, proc'[a]) /\ Dated(proc'[a])  BY <1>b, <1>g, <2>1, <2>2
  <2>4. p.lease \in Lease /\ state[p.lease] # "none"  BY <1>10, SaveLeaseFinal
  <2>5. UNCHANGED <<expires, meta, now>> /\ state' = [state EXCEPT ![p.lease] = to]
    BY <1>10 DEF SaveLease, SetLeaseState, host, env
  <2>6. to \in States \ {"none", "active"} /\ "active" \in OpenState
    BY DEF States, NonTerminal, Terminal, OpenState
  <2>. HIDE DEF to
  <2>. QED BY <1>w, <2>3, <2>4, <2>5, <2>6
<1>. QED
  BY <1>1, <1>2, <1>3, <1>4, <1>5, <1>6, <1>7, <1>8, <1>9, <1>10
  DEF CleanupStep, Sweeps

\* Every step keeps the dates right.
LEMMA StampsStep == ASSUME IInv, Stamps, [Next]_vars PROVE Stamps'
<1>0. Located /\ Located' /\ Young  BY NextLocated DEF IInv
<1>a. now \in Nat  BY <1>0 DEF Located, TypeOK
<1>1. CASE Tick
  <2>1. now' >= now  BY <1>a, <1>1 DEF Tick
  <2>. QED BY <1>0, <1>1, <2>1, StampsKept DEF Tick, store, host
<1>2. ASSUME NEW g \in Guest, ManualRemove(g) PROVE Stamps'
  <2>1. \A h \in Guest : meta'[h] = meta[h] \/ GoodStamp(meta'[h])
    BY <1>0, <1>2, RemoveGuestGood DEF ManualRemove
  <2>2. now' >= now  BY <1>a, <1>2 DEF ManualRemove, env
  <2>. QED BY <1>0, <1>2, <2>1, <2>2, StampsKept DEF ManualRemove, store
<1>3. ASSUME NEW l \in Lease, ManualReclaim(l) PROVE Stamps'
  <2>1. \A m \in Lease : /\ state'[m] = "none" <=> state[m] = "none"
                         /\ state'[m] = "active" => state[m] = "active"
    BY <1>0, <1>3 DEF ManualReclaim, ClaimLease, Located, TypeOK
  <2>2. UNCHANGED <<expires, meta, proc>> /\ now' >= now
    BY <1>a, <1>3 DEF ManualReclaim, ClaimLease, host, env
  <2>. QED BY <1>0, <2>1, <2>2, StampsKept, LeaseAssumption
<1>4. ASSUME NEW a \in Actor, Crash(a) PROVE Stamps'
  <2>1. Dated(Idle)  BY PlainDated DEF Idle, DatedPc
  <2>. QED BY <1>0, <1>4, <2>1, StampsGoto DEF Crash, store, host
<1>5. CASE UNCHANGED vars
  BY <1>0, <1>5, <1>a, StampsKept DEF vars, store, host, env
<1>. QED
  BY <1>0, <1>1, <1>2, <1>3, <1>4, <1>5, StampsLease, StampsGuest, StampsCleanup
  DEF Next, ByHand, Step

LEMMA StampsInit == Init => Stamps
<1>1. Init => \A a \in Actor : Dated(proc[a])
  BY PlainDated DEF Init, Idle, DatedPc
<1>. QED BY <1>1, UnstampedGood DEF Init, Stamps, Epoch

LEMMA StampsTell == Stamps => StampsMatchKind
<1>. SUFFICES ASSUME Stamps, NEW g \in Guest
     PROVE  /\ meta[g].lease \in Lease \ LongTerm => meta[g].expiry # 0
            /\ meta[g].lease \in LongTerm /\ state[meta[g].lease] = "active"
                 => meta[g].expiry = 0
  BY DEF StampsMatchKind
<1>1. GoodStamp(meta[g])  BY DEF Stamps
<1>. QED BY <1>1, LeaseAssumption DEF GoodStamp

\* Expiry 0 means "never" everywhere: in every row, in what every command
\* carries over, on every guest (leases.register_resource, cmd_create,
\* cmd_clone, cmd_heartbeat), for any number of commands at once.
THEOREM StampsAlways == Spec => []Stamps
<1>1. IInv /\ Stamps /\ [Next]_vars => Stamps'  BY StampsStep
<1>. QED BY <1>1, StampsInit, Invariance, PTL DEF Spec

\* The collector reads a guest's stamp as the lease's kind says: an ordinary
\* lease's guest always expires, a long-term lease's never while it is active.
THEOREM StampsTellTheKind == Spec => []StampsMatchKind
  BY StampsAlways, StampsTell, PTL

-----------------------------------------------------------------------------
(* What a command works on is in some row.                                 *)

\* A command that moves on to a point at which it knows its guests, while no row
\* goes away and only rows that are there are written off.
LEMMA BookedKept ==
  ASSUME Located, Booked,
         \A l \in Lease, g \in Guest : rowid[l][g] # 0 => rowid'[l][g] # 0,
         \A l \in Lease, g \in Guest : gone'[l][g] => gone[l][g] \/ rowid[l][g] # 0,
         \A b \in Actor : proc'[b] = proc[b] \/ Known(proc'[b])
  PROVE  Booked'
<1>1. Listed \subseteq Listed'  BY DEF Listed
<1>2. \A b \in Actor : Known(proc'[b])  BY DEF Booked
<1>3. ASSUME NEW b \in Actor PROVE Known(proc[b])'
  <2>. DEFINE q == proc'[b]
  <2>1. Known(q)  BY <1>2
  <2>2. /\ q.todo \subseteq Listed'
        /\ \A c \in q.batch : c.todo \subseteq Listed'
        /\ q.pc \in OnBooksPc => q.guest \in Listed'
    BY <1>1, <2>1 DEF Known
  <2>3. OnBooksPc' = OnBooksPc  BY DEF OnBooksPc
  <2>. QED BY <2>2, <2>3 DEF Known
<1>. QED BY <1>3 DEF Booked

\* The rows of a lease are listed.
LEMMA UndestroyedListed == \A l \in Lease : Undestroyed(l) \subseteq Listed
  BY DEF Undestroyed, Rows, Listed

\* A command that has no guests yet, or goes on with those it has.
LEMMA KnownStart ==
  ASSUME NEW q, q.todo = {}, q.batch = {}, q.pc \notin OnBooksPc
  PROVE  Known(q)
  BY DEF Known

LEMMA KnownOn ==
  ASSUME NEW p, Known(p), NEW q, q.todo \subseteq p.todo, q.batch \subseteq p.batch,
         q.pc \in OnBooksPc => q.guest \in Listed
  PROVE  Known(q)
  BY DEF Known

LEMMA KnownIdle == Known(Idle)
  BY KnownStart DEF Idle, OnBooksPc

\* leases.py works on rows it has read.
LEMMA KnownLease ==
  ASSUME Located, NEW a \in Actor, Known(proc[a]), LeaseStep(a)
  PROVE  Known(proc'[a])
<1>. DEFINE p == proc[a]
<1>0. p \in Proc  BY DEF Located, TypeOK
<1>a. ASSUME NEW q, Goto(a, q), Known(q) PROVE Known(proc'[a])
  BY <1>a DEF Goto, Located, TypeOK
<1>b. ASSUME NEW q, Goto(a, q), q.todo \subseteq p.todo, q.batch = p.batch,
             q.pc \in {"hb-stamp", "reg-stamp", "reg-beat"}
      PROVE  Known(proc'[a])
  <2>1. q.pc \notin OnBooksPc  BY <1>b DEF OnBooksPc
  <2>2. Known(q)  BY <1>b, <2>1, KnownOn
  <2>. QED BY <1>a, <1>b, <2>2
<1>1. CASE BeginPrint(a) \/ HeartbeatDone(a) \/ BeginFail(a) \/ RegisterStamp(a)
  BY <1>1, <1>a, KnownIdle DEF BeginPrint, HeartbeatDone, BeginFail, RegisterStamp
<1>2. ASSUME NEW l \in Lease, BeginInsert(a, l) PROVE Known(proc'[a])
  <2>1. /\ proc'[a].todo = {} /\ proc'[a].batch = {} /\ proc'[a].pc = "begun"
    BY <1>2 DEF BeginInsert, Start, Goto, Idle, Located, TypeOK
  <2>. QED BY <2>1, KnownStart DEF OnBooksPc
<1>3. ASSUME NEW l \in Lease, HeartbeatLoad(a, l) PROVE Known(proc'[a])
  <2>1. /\ proc'[a].todo = Undestroyed(l) /\ proc'[a].batch = {}
        /\ proc'[a].pc = "hb-store"
    BY <1>3 DEF HeartbeatLoad, Start, Goto, Idle, Located, TypeOK
  <2>. QED BY <2>1, UndestroyedListed DEF Known, OnBooksPc
<1>4. ASSUME NEW l \in Lease, NEW g \in Guest, RegisterCheck(a, l, g)
      PROVE  Known(proc'[a])
  <2>1. /\ proc'[a].todo = {} /\ proc'[a].batch = {} /\ proc'[a].pc = "reg-row"
    BY <1>4 DEF RegisterCheck, Start, Goto, Idle, Located, TypeOK
  <2>. QED BY <2>1, KnownStart DEF OnBooksPc
<1>5. CASE HeartbeatStore(a)
  <2>. DEFINE q == [p EXCEPT !.pc = "hb-stamp", !.at = now + TTL]
  <2>1. q.pc = "hb-stamp" /\ q.todo = p.todo /\ q.batch = p.batch
    BY <1>0 DEF Proc
  <2>2. Goto(a, q) \/ Goto(a, Idle)  BY <1>5 DEF HeartbeatStore
  <2>. HIDE DEF q
  <2>. QED BY <1>a, <1>b, <2>1, <2>2, KnownIdle
<1>6. CASE HeartbeatStamp(a)
  <2>1. PICK g : Goto(a, [p EXCEPT !.todo = @ \ {g}]) \/ Goto(a, Idle)
    BY <1>6 DEF HeartbeatStamp
  <2>. DEFINE q == [p EXCEPT !.todo = @ \ {g}]
  <2>2. q.pc = "hb-stamp" /\ q.todo \subseteq p.todo /\ q.batch = p.batch
    BY <1>0, <1>6 DEF HeartbeatStamp, Proc
  <2>3. Goto(a, q) \/ Goto(a, Idle)  BY <2>1
  <2>. HIDE DEF q
  <2>. QED BY <1>a, <1>b, <2>2, <2>3, KnownIdle
<1>7. CASE RegisterRow(a)
  <2>. DEFINE q == [p EXCEPT !.pc = IF p.lease \in LongTerm THEN "reg-stamp" ELSE "reg-beat",
                             !.at = Expiry(p.lease)]
  <2>1. q.pc \in {"reg-stamp", "reg-beat"} /\ q.todo = p.todo /\ q.batch = p.batch
    BY <1>0 DEF Proc
  <2>2. Goto(a, q)  BY <1>7 DEF RegisterRow
  <2>. HIDE DEF q
  <2>. QED BY <1>b, <2>1, <2>2
<1>8. CASE RegisterBeat(a)
  <2>. DEFINE q == [p EXCEPT !.pc = "reg-stamp"]
  <2>1. q.pc = "reg-stamp" /\ q.todo = p.todo /\ q.batch = p.batch
    BY <1>0 DEF Proc
  <2>2. Goto(a, q)  BY <1>8 DEF RegisterBeat
  <2>. HIDE DEF q
  <2>. QED BY <1>b, <2>1, <2>2
<1>. QED BY <1>1, <1>2, <1>3, <1>4, <1>5, <1>6, <1>7, <1>8 DEF LeaseStep

\* guest.py: a destroy works on a guest its gate has found in a row.
LEMMA KnownGuest ==
  ASSUME Located, NEW a \in Actor, Known(proc[a]), GuestStep(a)
  PROVE  Known(proc'[a])
<1>. DEFINE p == proc[a]
<1>0. p \in Proc  BY DEF Located, TypeOK
<1>a. ASSUME NEW q, Goto(a, q), Known(q) PROVE Known(proc'[a])
  BY <1>a DEF Goto, Located, TypeOK
<1>b. ASSUME NEW c, Goto(a, [p EXCEPT !.pc = c]), c \in OnBooksPc => p.guest \in Listed
      PROVE  Known(proc'[a])
  <2>. DEFINE q == [p EXCEPT !.pc = c]
  <2>1. q.pc = c /\ q.guest = p.guest /\ q.todo = p.todo /\ q.batch = p.batch
    BY <1>0 DEF Proc
  <2>2. Goto(a, q)  BY <1>b
  <2>. HIDE DEF q
  <2>3. Known(q)  BY <1>b, <2>1, KnownOn
  <2>. QED BY <1>a, <2>2, <2>3
<1>1. ASSUME NEW l \in Lease, NEW g \in Guest, NEW c, CreateLoad(a, l, g, c)
      PROVE  Known(proc'[a])
  <2>1. /\ proc'[a].todo = {} /\ proc'[a].batch = {} /\ proc'[a].pc = "create"
    BY <1>1 DEF CreateLoad, Start, Goto, Idle, Located, TypeOK
  <2>. QED BY <2>1, KnownStart DEF OnBooksPc
<1>2. ASSUME NEW l \in Lease, NEW g \in Guest,
             \/ StartGate(a, l, g) \/ StopGate(a, l, g)
             \/ DestroyGate(a, l, g) \/ TemplateGate(a, l, g)
      PROVE  Known(proc'[a])
  <2>1. g \in Listed
    BY <1>2, UndestroyedListed
    DEF StartGate, StopGate, DestroyGate, TemplateGate, RequireOwned, LeaseClaims
  <2>2. \E c : \E pc : Start(a, c, [Idle EXCEPT !.pc = pc, !.lease = l, !.guest = g])
    BY <1>2 DEF StartGate, StopGate, DestroyGate, TemplateGate
  <2>3. proc'[a].todo = {} /\ proc'[a].batch = {} /\ proc'[a].guest = g
    BY <2>2 DEF Start, Goto, Idle, Located, TypeOK
  <2>. QED BY <2>1, <2>3 DEF Known
<1>3. CASE CreateRefused(a) \/ StartGuest(a) \/ StopGuest(a) \/ ConvertGuest(a)
           \/ DestroyMark(a)
  BY <1>3, <1>a, KnownIdle DEF CreateRefused, StartGuest, StopGuest, ConvertGuest, DestroyMark
<1>4. CASE CreateFresh(a) \/ CreateClone(a) \/ CloneStamp(a) \/ CreateRow(a)
  <2>1. \/ Goto(a, Idle) \/ Goto(a, [p EXCEPT !.pc = "create-row"])
        \/ Goto(a, [p EXCEPT !.pc = "clone-stamp"])
        \/ Goto(a, [p EXCEPT !.pc = "create-start"])
    BY <1>4 DEF CreateFresh, CreateClone, CloneStamp, CreateRow
  <2>2. /\ "create-row" \notin OnBooksPc /\ "clone-stamp" \notin OnBooksPc
        /\ "create-start" \notin OnBooksPc
    BY DEF OnBooksPc
  <2>. QED BY <1>a, <1>b, <2>1, <2>2, KnownIdle
<1>5. CASE DestroyCheck(a) \/ DestroyStop(a) \/ DestroyDelete(a)
  <2>1. \/ Goto(a, Idle) \/ Goto(a, [p EXCEPT !.pc = "gd-stop"])
        \/ Goto(a, [p EXCEPT !.pc = "gd-delete"]) \/ Goto(a, [p EXCEPT !.pc = "gd-mark"])
    BY <1>5 DEF DestroyCheck, DestroyStop, DestroyDelete
  <2>2. p.guest \in Listed
    BY <1>5 DEF DestroyCheck, DestroyStop, DestroyDelete, Known, OnBooksPc
  <2>. QED BY <1>a, <1>b, <2>1, <2>2, KnownIdle
<1>. QED BY <1>1, <1>2, <1>3, <1>4, <1>5 DEF GuestStep

\* cleanup.py: a teardown works on the rows of its snapshot.
LEMMA KnownCleanup ==
  ASSUME Located, NEW a \in Actor, Known(proc[a]), CleanupStep(a)
  PROVE  Known(proc'[a])
<1>. DEFINE p == proc[a]
<1>0. p \in Proc  BY DEF Located, TypeOK
<1>a. ASSUME NEW q, Goto(a, q), Known(q) PROVE Known(proc'[a])
  BY <1>a DEF Goto, Located, TypeOK
<1>b. ASSUME NEW c, Goto(a, [p EXCEPT !.pc = c]), c \in OnBooksPc => p.guest \in Listed
      PROVE  Known(proc'[a])
  <2>. DEFINE q == [p EXCEPT !.pc = c]
  <2>1. q.pc = c /\ q.guest = p.guest /\ q.todo = p.todo /\ q.batch = p.batch
    BY <1>0 DEF Proc
  <2>2. Goto(a, q)  BY <1>b
  <2>. HIDE DEF q
  <2>3. Known(q)  BY <1>b, <2>1, KnownOn
  <2>. QED BY <1>a, <2>2, <2>3
<1>e. ASSUME NEW q, q.todo \subseteq p.todo, q.batch = p.batch, q.pc = "finalize"
      PROVE  Known(q)
  <2>1. q.pc \notin OnBooksPc  BY <1>e DEF OnBooksPc
  <2>. QED BY <1>e, <2>1, KnownOn
<1>c. \A g : Known(Done(a, g)) /\ Known(Leave(a, g)) /\ Known(Fail(a, g))
  <2>1. TAKE g
  <2>2. /\ Done(a, g).todo \subseteq p.todo /\ Done(a, g).batch = p.batch
        /\ Done(a, g).pc = "finalize"
    BY <1>0 DEF Proc, Done
  <2>3. /\ Leave(a, g).todo \subseteq p.todo /\ Leave(a, g).batch = p.batch
        /\ Leave(a, g).pc = "finalize"
    BY <1>0 DEF Proc, Done, Leave
  <2>4. /\ Fail(a, g).todo \subseteq p.todo /\ Fail(a, g).batch = p.batch
        /\ Fail(a, g).pc = "finalize"
    BY <1>0 DEF Proc, Done, Fail
  <2>. QED BY <1>e, <2>2, <2>3, <2>4
<1>d. Known(Finalizing(p))
  <2>1. /\ Finalizing(p).todo \subseteq p.todo /\ Finalizing(p).batch = p.batch
        /\ Finalizing(p).pc = "finalize"
    BY <1>0 DEF Proc, Finalizing
  <2>. QED BY <1>e, <2>1
<1>1. ASSUME NEW l \in Lease,
             \/ \E c \in {"lease-end", "lease-end-shared"} : EndLoad(a, l, c)
             \/ DestroyLoad(a, l)
      PROVE  Known(proc'[a])
  <2>1. \E c : Start(a, c, [Idle EXCEPT !.pc = "claim", !.lease = l, !.prior = state[l],
                                        !.todo = Undestroyed(l)])
    BY <1>1 DEF EndLoad, DestroyLoad
  <2>2. /\ proc'[a].todo = Undestroyed(l) /\ proc'[a].batch = {}
        /\ proc'[a].pc = "claim"
    BY <2>1 DEF Start, Goto, Idle, Located, TypeOK
  <2>. QED BY <2>2, UndestroyedListed DEF Known, OnBooksPc
<1>2. ASSUME NEW l \in Lease, AbandonCheck(a, l) PROVE Known(proc'[a])
  <2>1. /\ proc'[a].todo = {} /\ proc'[a].batch = {} /\ proc'[a].pc = "abandon-claim"
    BY <1>2 DEF AbandonCheck, Start, Goto, Idle, Located, TypeOK
  <2>. QED BY <2>1, KnownStart DEF OnBooksPc
<1>3. ASSUME NEW c, SweepList(a, c) PROVE Known(proc'[a])
  <2>. DEFINE B == {[lease |-> l, prior |-> state[l], todo |-> Undestroyed(l)] :
                      l \in {m \in Lease : SweepCandidate(m, c = "cleanup-all")}}
  <2>1. \A b \in B : b.todo \subseteq Listed  BY UndestroyedListed
  <2>2. Start(a, c, [Idle EXCEPT !.pc = "sweep", !.batch = B])
    BY <1>3 DEF SweepList
  <2>. HIDE DEF B
  <2>3. /\ proc'[a].todo = {} /\ proc'[a].batch = B /\ proc'[a].pc = "sweep"
    BY <2>2 DEF Start, Goto, Idle, Located, TypeOK
  <2>. QED BY <2>1, <2>3 DEF Known, OnBooksPc
<1>4. CASE SweepDone(a) \/ EndRelease(a) \/ AbandonClaim(a) \/ SaveDestroyed(a)
  BY <1>4, <1>a, KnownIdle DEF SweepDone, EndRelease, AbandonClaim, SaveDestroyed
<1>5. CASE EndClaim(a)
  <2>1. \/ Goto(a, Idle) \/ Goto(a, [p EXCEPT !.pc = "unprotect"])
        \/ Goto(a, [p EXCEPT !.pc = "shared"])
    BY <1>5 DEF EndClaim
  <2>2. "unprotect" \notin OnBooksPc /\ "shared" \notin OnBooksPc  BY DEF OnBooksPc
  <2>. QED BY <1>a, <1>b, <2>1, <2>2, KnownIdle
<1>6. CASE SweepClaim(a)
  <2>1. PICK b \in p.batch :
          LET rest == [p EXCEPT !.batch = @ \ {b}] IN
          \/ Goto(a, Finalizing([rest EXCEPT !.lease = b.lease, !.prior = b.prior,
                                   !.todo = b.todo, !.failed = FALSE, !.left = {}]))
          \/ Goto(a, rest)
    BY <1>6 DEF SweepClaim
  <2>. DEFINE rest == [p EXCEPT !.batch = @ \ {b}]
  <2>. DEFINE q == Finalizing([rest EXCEPT !.lease = b.lease, !.prior = b.prior,
                                  !.todo = b.todo, !.failed = FALSE, !.left = {}])
  <2>2. rest.pc = "sweep" /\ rest.todo = p.todo /\ rest.batch \subseteq p.batch
    BY <1>0, <1>6 DEF SweepClaim, Proc
  <2>3. q.pc = "finalize" /\ q.todo = b.todo /\ q.batch \subseteq p.batch
    BY <1>0 DEF Proc, Finalizing
  <2>4. Goto(a, q) \/ Goto(a, rest)  BY <2>1
  <2>. HIDE DEF q, rest
  <2>5. Known(rest)  BY <2>2, KnownOn DEF OnBooksPc
  <2>6. Known(q)  BY <2>1, <2>3 DEF Known, OnBooksPc
  <2>. QED BY <1>a, <2>4, <2>5, <2>6
<1>7. CASE EndShared(a) \/ Unprotect(a)
  <2>1. Goto(a, Finalizing(p)) \/ Goto(a, [p EXCEPT !.pc = "release"])
    BY <1>7 DEF EndShared, Unprotect
  <2>2. "release" \notin OnBooksPc  BY DEF OnBooksPc
  <2>. QED BY <1>a, <1>b, <1>d, <2>1, <2>2
<1>8. CASE FinalizeNext(a)
  <2>1. PICK g \in p.todo :
          \/ Goto(a, Leave(a, g)) \/ Goto(a, Done(a, g))
          \/ Goto(a, [p EXCEPT !.pc = "stop", !.guest = g])
    BY <1>8 DEF FinalizeNext, IsNext
  <2>. DEFINE q == [p EXCEPT !.pc = "stop", !.guest = g]
  <2>2. q.todo = p.todo /\ q.batch = p.batch /\ q.guest = g  BY <1>0 DEF Proc
  <2>3. g \in Listed  BY <2>1 DEF Known
  <2>4. Goto(a, Leave(a, g)) \/ Goto(a, Done(a, g)) \/ Goto(a, q)  BY <2>1
  <2>. HIDE DEF q
  <2>5. Known(q)  BY <2>2, <2>3, KnownOn
  <2>. QED BY <1>a, <1>c, <2>4, <2>5
<1>9. CASE FinalizeTemplate(a) \/ FinalizeStop(a) \/ FinalizeShutdown(a)
           \/ FinalizeDelete(a) \/ FinalizeConfirm(a)
  <2>1. \/ \E g : Goto(a, Leave(a, g)) \/ Goto(a, Fail(a, g))
        \/ \E c : Goto(a, [p EXCEPT !.pc = c])
    BY <1>9
    DEF FinalizeTemplate, FinalizeStop, FinalizeShutdown, FinalizeDelete,
        FinalizeConfirm, Doubt
  <2>2. p.guest \in Listed
    BY <1>9
    DEF FinalizeTemplate, FinalizeStop, FinalizeShutdown, FinalizeDelete,
        FinalizeConfirm, Known, OnBooksPc
  <2>. QED BY <1>a, <1>b, <1>c, <2>1, <2>2
<1>10. CASE ForgetResource(a)  BY <1>10, <1>a, <1>c DEF ForgetResource
<1>11. CASE SaveLease(a)
  <2>. DEFINE d == [Idle EXCEPT !.pc = "save-destroyed", !.cmd = p.cmd, !.lease = p.lease]
  <2>. DEFINE n == [Idle EXCEPT !.pc = "sweep", !.cmd = p.cmd, !.batch = p.batch]
  <2>1. Goto(a, n) \/ Goto(a, d) \/ Goto(a, Idle)  BY <1>11 DEF SaveLease
  <2>2. /\ n.pc = "sweep" /\ n.todo = {} /\ n.batch = p.batch
        /\ d.pc = "save-destroyed" /\ d.todo = {} /\ d.batch = {}
    BY DEF Idle
  <2>. HIDE DEF n, d
  <2>3. Known(n) /\ Known(d)  BY <2>2, KnownOn, KnownStart DEF OnBooksPc
  <2>. QED BY <1>a, <2>1, <2>3, KnownIdle
<1>. QED
  BY <1>1, <1>2, <1>3, <1>4, <1>5, <1>6, <1>7, <1>8, <1>9, <1>10, <1>11
  DEF CleanupStep, Sweeps

\* lab.db keeps every row, and destroyed_at is set only where there is one.
LEMMA RowsStay ==
  ASSUME Located, [Next]_vars, NEW l \in Lease, NEW g \in Guest
  PROVE  /\ rowid[l][g] # 0 => rowid'[l][g] # 0
         /\ gone'[l][g] => gone[l][g] \/ rowid[l][g] # 0
<1>. DEFINE Stay == /\ rowid[l][g] # 0 => rowid'[l][g] # 0
                    /\ gone'[l][g] => gone[l][g] \/ rowid[l][g] # 0
<1>. SUFFICES Stay  OBVIOUS
<1>a. ASSUME UNCHANGED <<rowid, gone>> PROVE Stay  BY <1>a
<1>b. ASSUME NEW m \in Lease, NEW h \in Guest, NEW pol, InsertRow(m, h, pol) PROVE Stay
  <2>1. rowid' = [rowid EXCEPT ![m][h] = Cardinality(Rows(m)) + 1]
        /\ rowid[m][h] = 0 /\ UNCHANGED gone
    BY <1>b DEF InsertRow
  <2>2. l # m \/ g # h => rowid'[l][g] = rowid[l][g]
    BY <2>1 DEF Located, TypeOK
  <2>. QED BY <2>1, <2>2
<1>1. CASE Tick \/ ByHand \/ (\E a \in Actor : Crash(a)) \/ UNCHANGED vars
  BY <1>1, <1>a
  DEF Tick, ByHand, ManualRemove, ManualReclaim, ClaimLease, Crash, vars, store
<1>2. ASSUME NEW a \in Actor, LeaseStep(a), ~RegisterRow(a) PROVE Stay
  BY <1>2, <1>a
  DEF LeaseStep, BeginInsert, HeartbeatLoad, RegisterCheck, BeginPrint, BeginFail,
      HeartbeatStore, HeartbeatStamp, HeartbeatDone, RegisterBeat,
      RegisterStamp, ReadOnly, SetLeaseState, StoreHeartbeat, store
<1>3. ASSUME NEW a \in Actor, RegisterRow(a) PROVE Stay
  <2>1. proc[a].lease \in Lease /\ proc[a].guest \in Guest
    BY <1>3 DEF RegisterRow, Located, Sound, GuestPc, Leaseless
  <2>. QED BY <1>3, <1>a, <1>b, <2>1 DEF RegisterRow, store
<1>4. ASSUME NEW a \in Actor, GuestStep(a), ~DestroyMark(a), ~CreateRow(a) PROVE Stay
  BY <1>4, <1>a
  DEF GuestStep, CreateLoad, StartGate, StopGate, DestroyGate, TemplateGate,
      CreateFresh, CreateClone, CreateRefused, CloneStamp, StartGuest,
      StopGuest, DestroyCheck, DestroyStop, DestroyDelete, ConvertGuest,
      ReadOnly, store
<1>5. ASSUME NEW a \in Actor, CreateRow(a) PROVE Stay
  <2>1. proc[a].lease \in Lease /\ proc[a].guest \in Guest
    BY <1>5 DEF CreateRow, Located, Sound, GuestPc, Leaseless
  <2>. QED BY <1>5, <1>a, <1>b, <2>1 DEF CreateRow, store
<1>6. ASSUME NEW a \in Actor, DestroyMark(a) PROVE Stay
  BY <1>6 DEF DestroyMark, MarkDestroyed, Located, TypeOK
<1>7. ASSUME NEW a \in Actor, CleanupStep(a), ~ForgetResource(a) PROVE Stay
  BY <1>7, <1>a
  DEF CleanupStep, EndLoad, DestroyLoad, AbandonCheck, SweepList, EndClaim, EndShared,
      EndRelease, SweepClaim, SweepDone, Unprotect, SaveDestroyed, FinalizeNext,
      FinalizeTemplate, FinalizeStop, FinalizeShutdown, FinalizeDelete,
      FinalizeConfirm, SaveLease, AbandonClaim, ReadOnly, ClaimLease, SetLeaseState,
      store
<1>8. ASSUME NEW a \in Actor, ForgetResource(a) PROVE Stay
  BY <1>8 DEF ForgetResource, Located, TypeOK
<1>. QED BY <1>1, <1>2, <1>3, <1>4, <1>5, <1>6, <1>7, <1>8 DEF Next, Step

LEMMA BookedStep ==
  ASSUME Located, Booked, [Next]_vars PROVE Booked'
<1>1. ASSUME NEW b \in Actor PROVE proc'[b] = proc[b] \/ Known(proc'[b])
  <2>1. CASE Tick \/ ByHand \/ UNCHANGED vars
    BY <2>1 DEF Tick, ByHand, ManualRemove, ManualReclaim, vars
  <2>2. ASSUME NEW a \in Actor, Step(a) \/ Crash(a), a # b PROVE proc'[b] = proc[b]
    BY <2>2, StepsOne
  <2>3. CASE Step(b)
    BY <2>3, KnownLease, KnownGuest, KnownCleanup DEF Step, Booked
  <2>4. CASE Crash(b)
    BY <2>4, KnownIdle DEF Crash, Goto, Located, TypeOK
  <2>. QED BY <2>1, <2>2, <2>3, <2>4 DEF Next
<1>. QED BY <1>1, RowsStay, BookedKept

LEMMA BookedInit == Init => Booked
<1>. SUFFICES ASSUME Init PROVE Booked  OBVIOUS
<1>1. \A a \in Actor : Known(proc[a])  BY KnownIdle DEF Init
<1>. QED BY <1>1 DEF Init, Booked

-----------------------------------------------------------------------------
(* TombstoneIsTruth.                                                       *)

\* A command has seen the guest it is about to write off gone, or was told so.
Written(a) ==
  proc[a].pc \in {"forget", "gd-mark"} => TakenForGone(proc[a].guest)

LEMMA TombsParts == Tombs <=> TombstoneIsTruth /\ \A a \in Actor : Written(a)
  BY DEF Tombs, Written

\* Points at which a command is making a guest.
Creating == {"create", "clone-stamp", "create-row", "create-start"}

Idling == \A a \in Actor : proc[a].pc \notin Creating

\* A command that goes on to any other point.
LEMMA PlainWritten ==
  ASSUME Located, NEW a \in Actor, NEW q, Goto(a, q),
         q.pc \notin Creating \cup {"forget", "gd-mark"}
  PROVE  Written(a)' /\ proc'[a].pc \notin Creating
<1>1. proc'[a] = q  BY DEF Goto, Located, TypeOK
<1>. QED BY <1>1 DEF Written

\* Where no command creates a guest, one that is gone stays away.
LEMMA AbsentStays ==
  ASSUME Located, Idling, [Next]_vars,
         NEW g \in Guest, guest[g] = "absent"
  PROVE  guest'[g] = "absent"
<1>a. ASSUME NEW h \in Guest, guest[h] # "absent", NEW s, SetGuest(h, s)
      PROVE  guest'[g] = "absent"
  BY <1>a DEF SetGuest, Located, TypeOK
<1>b. ASSUME NEW h, RemoveGuest(h) PROVE guest'[g] = "absent"
  BY <1>b DEF RemoveGuest, Located, TypeOK
<1>1. CASE Tick \/ ByHand \/ (\E a \in Actor : Crash(a)) \/ UNCHANGED vars
  BY <1>1, <1>b DEF Tick, ByHand, ManualRemove, ManualReclaim, Crash, vars, host
<1>2. ASSUME NEW a \in Actor, LeaseStep(a) PROVE guest'[g] = "absent"
  BY <1>2
  DEF LeaseStep, BeginInsert, HeartbeatLoad, RegisterCheck, BeginPrint, BeginFail,
      HeartbeatStore, HeartbeatStamp, HeartbeatDone, RegisterRow, RegisterBeat,
      RegisterStamp, ReadOnly, HostError, SetMeta, host
<1>3. ASSUME NEW a \in Actor, GuestStep(a) PROVE guest'[g] = "absent"
  <2>0. proc[a].pc \notin Creating  BY DEF Idling
  <2>1. proc[a].pc \in GuestPc => proc[a].guest \in Guest  BY DEF Located, Sound
  <2>2. CASE StartGuest(a)
    <3>1. proc[a].guest \in Guest  BY <2>1, <2>2 DEF StartGuest, GuestPc
    <3>. QED BY <1>a, <2>2, <3>1 DEF StartGuest, HostError, host
  <2>3. CASE StopGuest(a)
    <3>1. proc[a].guest \in Guest  BY <2>1, <2>3 DEF StopGuest, GuestPc
    <3>. QED BY <1>a, <2>3, <3>1 DEF StopGuest, HostError, host
  <2>4. CASE DestroyStop(a)
    <3>1. proc[a].guest \in Guest  BY <2>1, <2>4 DEF DestroyStop, GuestPc
    <3>. QED BY <1>a, <2>4, <3>1 DEF DestroyStop, HostError, host
  <2>5. CASE DestroyDelete(a)
    BY <1>b, <2>5 DEF DestroyDelete, HostError, host
  <2>6. CASE CreateFresh(a) \/ CreateClone(a) \/ CloneStamp(a) \/ CreateRefused(a)
             \/ CreateRow(a) \/ DestroyCheck(a) \/ DestroyMark(a) \/ ConvertGuest(a)
    BY <2>0, <2>6
    DEF CreateFresh, CreateClone, CloneStamp, CreateRefused, CreateRow, DestroyCheck,
        DestroyMark, ConvertGuest, HostError, host, Creating
  <2>7. CASE \E l \in Lease, h \in Guest :
               \/ \E c \in {"guest-create", "guest-clone"} : CreateLoad(a, l, h, c)
               \/ StartGate(a, l, h) \/ StopGate(a, l, h)
               \/ DestroyGate(a, l, h) \/ TemplateGate(a, l, h)
    BY <2>7
    DEF CreateLoad, StartGate, StopGate, DestroyGate, TemplateGate, ReadOnly, host
  <2>. QED BY <1>3, <2>2, <2>3, <2>4, <2>5, <2>6, <2>7 DEF GuestStep
<1>4. ASSUME NEW a \in Actor, CleanupStep(a) PROVE guest'[g] = "absent"
  <2>1. CASE FinalizeShutdown(a)
    <3>1. proc[a].guest \in Guest
      BY <2>1 DEF FinalizeShutdown, Located, Sound, GuestPc
    <3>. QED BY <1>a, <2>1, <3>1 DEF FinalizeShutdown, HostError, host
  <2>2. CASE FinalizeDelete(a)
    BY <1>b, <2>2 DEF FinalizeDelete, HostError, host
  <2>3. CASE ~FinalizeShutdown(a) /\ ~FinalizeDelete(a)
    BY <1>4, <2>3
    DEF CleanupStep, EndLoad, DestroyLoad, AbandonCheck, SweepList, EndClaim, EndShared,
        EndRelease, SweepClaim, SweepDone, Unprotect, SaveDestroyed, FinalizeNext,
        FinalizeTemplate, FinalizeStop, FinalizeConfirm, ForgetResource, SaveLease,
        AbandonClaim, ReadOnly, HostError, Misread, host
  <2>. QED BY <2>1, <2>2, <2>3
<1>. QED BY <1>1, <1>2, <1>3, <1>4 DEF Next, Step

\* What was misread once stays so; nothing but FinalizeConfirm adds to it.
LEMMA MisreadKept == ASSUME [Next]_vars PROVE misread \subseteq misread'
<1>1. CASE Tick \/ ByHand \/ (\E a \in Actor : Crash(a)) \/ UNCHANGED vars
  BY <1>1 DEF Tick, ByHand, ManualRemove, ManualReclaim, Crash, vars, env
<1>2. ASSUME NEW a \in Actor, LeaseStep(a) PROVE UNCHANGED misread
  BY <1>2
  DEF LeaseStep, BeginInsert, HeartbeatLoad, RegisterCheck, BeginPrint, BeginFail,
      HeartbeatStore, HeartbeatStamp, HeartbeatDone, RegisterRow, RegisterBeat,
      RegisterStamp, ReadOnly, HostError, AnswerLost, env
<1>3. ASSUME NEW a \in Actor, GuestStep(a) PROVE UNCHANGED misread
  BY <1>3
  DEF GuestStep, CreateLoad, StartGate, StopGate, DestroyGate, TemplateGate,
      CreateFresh, CreateClone, CreateRefused, CloneStamp, CreateRow, StartGuest,
      StopGuest, DestroyCheck, DestroyStop, DestroyDelete, DestroyMark, ConvertGuest,
      ReadOnly, HostError, AnswerLost, env
<1>4. ASSUME NEW a \in Actor, CleanupStep(a), ~FinalizeConfirm(a) PROVE UNCHANGED misread
  BY <1>4
  DEF CleanupStep, EndLoad, DestroyLoad, AbandonCheck, SweepList, EndClaim, EndShared,
      EndRelease, SweepClaim, SweepDone, Unprotect, SaveDestroyed, FinalizeNext,
      FinalizeTemplate, FinalizeStop, FinalizeShutdown, FinalizeDelete, ForgetResource,
      SaveLease, AbandonClaim, ReadOnly, HostError, AnswerLost, env
<1>5. ASSUME NEW a \in Actor, FinalizeConfirm(a) PROVE misread \subseteq misread'
  BY <1>5 DEF FinalizeConfirm, HostError, AnswerLost, Misread, env
<1>. QED BY <1>1, <1>2, <1>3, <1>4, <1>5 DEF Next, Step

\* A row is written off only for a guest that is gone, or said to be.
LEMMA WrittenOffGone ==
  ASSUME Located, \A a \in Actor : Written(a), [Next]_vars,
         NEW l \in Lease, NEW g \in Guest, gone'[l][g]
  PROVE  gone[l][g] \/ TakenForGone(g)
<1>1. CASE Tick \/ ByHand \/ (\E a \in Actor : Crash(a)) \/ UNCHANGED vars
  BY <1>1 DEF Tick, ByHand, ManualRemove, ManualReclaim, ClaimLease, Crash, vars, store
<1>2. ASSUME NEW a \in Actor, LeaseStep(a) PROVE UNCHANGED gone
  BY <1>2
  DEF LeaseStep, BeginInsert, HeartbeatLoad, RegisterCheck, BeginPrint, BeginFail,
      HeartbeatStore, HeartbeatStamp, HeartbeatDone, RegisterRow, RegisterBeat,
      RegisterStamp, ReadOnly, InsertRow, SetLeaseState, StoreHeartbeat, store
<1>3. ASSUME NEW a \in Actor, GuestStep(a), ~DestroyMark(a) PROVE UNCHANGED gone
  BY <1>3
  DEF GuestStep, CreateLoad, StartGate, StopGate, DestroyGate, TemplateGate,
      CreateFresh, CreateClone, CreateRefused, CloneStamp, CreateRow, StartGuest,
      StopGuest, DestroyCheck, DestroyStop, DestroyDelete, ConvertGuest,
      ReadOnly, InsertRow, store
<1>4. ASSUME NEW a \in Actor, DestroyMark(a) PROVE gone[l][g] \/ TakenForGone(g)
  <2>1. TakenForGone(proc[a].guest)  BY <1>4 DEF DestroyMark, Written
  <2>. QED BY <1>4, <2>1 DEF DestroyMark, MarkDestroyed, Located, TypeOK
<1>5. ASSUME NEW a \in Actor, CleanupStep(a), ~ForgetResource(a) PROVE UNCHANGED gone
  BY <1>5
  DEF CleanupStep, EndLoad, DestroyLoad, AbandonCheck, SweepList, EndClaim, EndShared,
      EndRelease, SweepClaim, SweepDone, Unprotect, SaveDestroyed, FinalizeNext,
      FinalizeTemplate, FinalizeStop, FinalizeShutdown, FinalizeDelete,
      FinalizeConfirm, SaveLease, AbandonClaim, ReadOnly, ClaimLease, SetLeaseState,
      store
<1>6. ASSUME NEW a \in Actor, ForgetResource(a) PROVE gone[l][g] \/ TakenForGone(g)
  <2>1. TakenForGone(proc[a].guest)  BY <1>6 DEF ForgetResource, Written
  <2>. QED BY <1>6, <2>1 DEF ForgetResource, Located, TypeOK
<1>. QED BY <1>1, <1>2, <1>3, <1>4, <1>5, <1>6 DEF Next, Step

\* The commands of leases.py write nothing off.
LEMMA WrittenLease ==
  ASSUME Located, NEW a \in Actor, LeaseStep(a)
  PROVE  Written(a)' /\ proc'[a].pc \notin Creating
<1>1. Goto(a, proc'[a]) /\ proc'[a].pc \in LeasePc  BY LeaseAhead
<1>2. proc'[a].pc \notin Creating \cup {"forget", "gd-mark"}  BY <1>1 DEF LeasePc, Creating
<1>. QED BY <1>1, <1>2, PlainWritten

\* A command that does not move.
LEMMA WrittenStays ==
  ASSUME Booked, NoVmidTwice, misread \subseteq misread',
         NEW a \in Actor, Written(a), proc'[a] = proc[a]
  PROVE  Written(a)'
<1>1. proc[a].pc \in {"forget", "gd-mark"} => proc[a].guest \in Listed
  BY DEF Booked, Known, OnBooksPc
<1>. QED BY <1>1 DEF Written, NoVmidTwice, TakenForGone

\* The commands of guest.py: only a destroy writes a guest off, and without
\* create and clone none makes one.
LEMMA WrittenGuest ==
  ASSUME Located, NEW a \in Actor, GuestStep(a)
  PROVE  Written(a)' /\ (NoCreates /\ Idling => proc'[a].pc \notin Creating)
<1>. DEFINE p == proc[a]
<1>. DEFINE Off == {"forget", "gd-mark"}
<1>. DEFINE Good == Written(a)' /\ (NoCreates /\ Idling => proc'[a].pc \notin Creating)
<1>. SUFFICES Good  OBVIOUS
<1>0. p \in Proc  BY DEF Located, TypeOK
<1>a. ASSUME NEW q, Goto(a, q), q.pc \notin Creating \cup Off PROVE Good
  BY <1>a, PlainWritten
<1>b. ASSUME NEW q, Goto(a, q), q.pc \in Creating, p.pc \in Creating \/ ~NoCreates
      PROVE  Good
  <2>1. proc'[a] = q  BY <1>b DEF Goto, Located, TypeOK
  <2>. QED BY <1>b, <2>1 DEF Written, Creating, Idling
<1>c. Idle.pc \notin Creating \cup Off  BY DEF Idle, Creating
<1>d. \A c : [p EXCEPT !.pc = c].pc = c  BY <1>0 DEF Proc
<1>1. ASSUME NEW l \in Lease, NEW g \in Guest, NEW c \in {"guest-create", "guest-clone"},
             CreateLoad(a, l, g, c)
      PROVE  Good
  <2>1. Goto(a, proc'[a]) /\ proc'[a].pc = "create"
    BY <1>1 DEF CreateLoad, Start, Goto, Idle, Located, TypeOK
  <2>2. ~NoCreates  BY <1>1 DEF CreateLoad, Start, NoCreates
  <2>. HIDE DEF Good
  <2>. QED BY <1>b, <2>1, <2>2 DEF Creating
<1>2. ASSUME NEW l \in Lease, NEW g \in Guest,
             \/ StartGate(a, l, g) \/ StopGate(a, l, g)
             \/ DestroyGate(a, l, g) \/ TemplateGate(a, l, g)
      PROVE  Good
  <2>1. \E c : \E pc \in {"start", "halt", "gd-check", "convert"} :
          Start(a, c, [Idle EXCEPT !.pc = pc, !.lease = l, !.guest = g])
    BY <1>2 DEF StartGate, StopGate, DestroyGate, TemplateGate
  <2>2. Goto(a, proc'[a]) /\ proc'[a].pc \in {"start", "halt", "gd-check", "convert"}
    BY <2>1 DEF Start, Goto, Idle, Located, TypeOK
  <2>. HIDE DEF Good
  <2>. QED BY <1>a, <2>2 DEF Creating
<1>3. CASE CreateFresh(a) \/ CreateClone(a) \/ CloneStamp(a) \/ CreateRow(a)
  <2>1. \/ Goto(a, Idle) \/ Goto(a, [p EXCEPT !.pc = "create-row"])
        \/ Goto(a, [p EXCEPT !.pc = "clone-stamp"])
        \/ Goto(a, [p EXCEPT !.pc = "create-start"])
    BY <1>3 DEF CreateFresh, CreateClone, CloneStamp, CreateRow
  <2>2. p.pc \in Creating
    BY <1>3 DEF CreateFresh, CreateClone, CloneStamp, CreateRow, Creating
  <2>3. /\ "create-row" \in Creating /\ "clone-stamp" \in Creating
        /\ "create-start" \in Creating
    BY DEF Creating
  <2>. HIDE DEF Good
  <2>. QED BY <1>a, <1>b, <1>c, <1>d, <2>1, <2>2, <2>3
<1>4. CASE CreateRefused(a) \/ StartGuest(a) \/ StopGuest(a) \/ ConvertGuest(a)
           \/ DestroyMark(a)
  BY <1>4, <1>a, <1>c DEF CreateRefused, StartGuest, StopGuest, ConvertGuest, DestroyMark
<1>5. CASE DestroyCheck(a) \/ DestroyStop(a)
  <2>1. \/ Goto(a, Idle) \/ Goto(a, [p EXCEPT !.pc = "gd-stop"])
        \/ Goto(a, [p EXCEPT !.pc = "gd-delete"])
    BY <1>5 DEF DestroyCheck, DestroyStop
  <2>2. "gd-stop" \notin Creating \cup Off /\ "gd-delete" \notin Creating \cup Off
    BY DEF Creating
  <2>. HIDE DEF Good, Off
  <2>. QED BY <1>a, <1>c, <1>d, <2>1, <2>2
<1>6. CASE DestroyDelete(a)
  <2>1. CASE Goto(a, Idle)  BY <1>a, <1>c, <2>1
  <2>2. CASE RemoveGuest(p.guest) /\ Goto(a, [p EXCEPT !.pc = "gd-mark"])
    <3>1. p.guest \in Guest  BY <1>6 DEF DestroyDelete, Located, Sound, GuestPc
    <3>2. guest'[p.guest] = "absent"  BY <2>2, <3>1 DEF RemoveGuest, Located, TypeOK
    <3>3. proc'[a].pc = "gd-mark" /\ proc'[a].guest = p.guest
      BY <1>0, <2>2 DEF Goto, Located, TypeOK, Proc
    <3>. QED BY <3>2, <3>3 DEF Written, TakenForGone, Creating
  <2>. QED BY <1>6, <2>1, <2>2 DEF DestroyDelete
<1>. QED BY <1>1, <1>2, <1>3, <1>4, <1>5, <1>6 DEF GuestStep

\* cleanup.py: a row is written off after a destroy that worked or a fresh look
\* at a host that says the guest is not there, or that fails in such words.
LEMMA WrittenCleanup ==
  ASSUME Located, NEW a \in Actor, CleanupStep(a)
  PROVE  Written(a)' /\ proc'[a].pc \notin Creating
<1>. DEFINE p == proc[a]
<1>. DEFINE Good == Written(a)' /\ proc'[a].pc \notin Creating
<1>. SUFFICES Good  OBVIOUS
<1>. DEFINE Bad == Creating \cup {"forget", "gd-mark"}
<1>0. p \in Proc  BY DEF Located, TypeOK
<1>a. ASSUME NEW q, Goto(a, q), q.pc \notin Bad PROVE Good
  BY <1>a, PlainWritten
<1>b. Idle.pc \notin Bad  BY DEF Idle, Creating
<1>c. \A c : [p EXCEPT !.pc = c].pc = c  BY <1>0 DEF Proc
<1>d. /\ "claim" \notin Bad /\ "abandon-claim" \notin Bad /\ "sweep" \notin Bad
      /\ "finalize" \notin Bad /\ "stop" \notin Bad /\ "shutdown" \notin Bad
      /\ "delete" \notin Bad /\ "confirm" \notin Bad /\ "reconfirm" \notin Bad
      /\ "release" \notin Bad /\ "unprotect" \notin Bad /\ "shared" \notin Bad
      /\ "save-destroyed" \notin Bad
  BY DEF Creating
<1>e. \A g : /\ Done(a, g).pc = "finalize" /\ Leave(a, g).pc = "finalize"
             /\ Fail(a, g).pc = "finalize"
  BY <1>0 DEF Proc, Done, Leave, Fail
<1>f. Finalizing(p).pc = "finalize"  BY <1>0 DEF Proc, Finalizing
<1>g. \A h : [p EXCEPT !.pc = "stop", !.guest = h].pc = "stop"  BY <1>0 DEF Proc
<1>h. ASSUME guest'[p.guest] = "absent" \/ p.guest \in misread',
             Goto(a, [p EXCEPT !.pc = "forget"])
      PROVE  Good
  <2>1. proc'[a].pc = "forget" /\ proc'[a].guest = p.guest
    BY <1>0, <1>h DEF Goto, Located, TypeOK, Proc
  <2>. QED BY <1>h, <2>1 DEF Written, TakenForGone, Creating
<1>1. CASE \/ \E m \in Lease, c \in {"lease-end", "lease-end-shared"} : EndLoad(a, m, c)
           \/ \E m \in Lease : DestroyLoad(a, m) \/ AbandonCheck(a, m)
  <2>1. Goto(a, proc'[a]) /\ proc'[a].pc \in {"claim", "abandon-claim"}  BY <1>1, LoadsAhead
  <2>. HIDE DEF Bad, Good
  <2>. QED BY <1>a, <1>d, <2>1
<1>2. ASSUME NEW c, SweepList(a, c) PROVE Good
  <2>1. Goto(a, proc'[a]) /\ proc'[a].pc = "sweep"
    BY <1>2 DEF SweepList, Start, Idle, Goto, Located, TypeOK
  <2>. QED BY <1>a, <1>d, <2>1
<1>3. CASE SweepDone(a) \/ EndRelease(a) \/ AbandonClaim(a) \/ SaveDestroyed(a)
  BY <1>3, <1>a, <1>b DEF SweepDone, EndRelease, AbandonClaim, SaveDestroyed
<1>4. CASE EndClaim(a)
  <2>. HIDE DEF Bad, Good
  <2>1. \/ Goto(a, Idle) \/ Goto(a, [p EXCEPT !.pc = "unprotect"])
        \/ Goto(a, [p EXCEPT !.pc = "shared"])
    BY <1>4 DEF EndClaim
  <2>. QED BY <1>a, <1>b, <1>c, <1>d, <2>1
<1>5. CASE SweepClaim(a)
  <2>1. Goto(a, proc'[a]) /\ proc'[a].pc \in {"sweep", "finalize"}
    BY <1>5, SweepAhead
  <2>. HIDE DEF Bad, Good
  <2>. QED BY <1>a, <1>d, <2>1
<1>6. CASE EndShared(a) \/ Unprotect(a) \/ FinalizeNext(a) \/ FinalizeTemplate(a)
           \/ FinalizeStop(a) \/ FinalizeShutdown(a)
  <2>. HIDE DEF Bad, Good
  <2>1. \/ Goto(a, Finalizing(p))
        \/ \E g : Goto(a, Leave(a, g)) \/ Goto(a, Done(a, g)) \/ Goto(a, Fail(a, g))
                  \/ Goto(a, [p EXCEPT !.pc = "stop", !.guest = g])
        \/ \E c \in {"release", "delete", "shutdown", "confirm", "reconfirm"} :
             Goto(a, [p EXCEPT !.pc = c])
    BY <1>6
    DEF EndShared, Unprotect, FinalizeNext, FinalizeTemplate, FinalizeStop,
        FinalizeShutdown, Doubt
  <2>2. \A c \in {"release", "delete", "shutdown", "confirm", "reconfirm"} : c \notin Bad
    BY <1>d
  <2>. QED BY <1>a, <1>c, <1>d, <1>e, <1>f, <1>g, <2>1, <2>2
<1>7. CASE FinalizeDelete(a)
  <2>1. CASE RemoveGuest(p.guest) /\ Goto(a, [p EXCEPT !.pc = "forget"])
    <3>1. p.guest \in Guest  BY <1>7 DEF FinalizeDelete, Located, Sound, GuestPc
    <3>. QED BY <1>h, <2>1, <3>1 DEF RemoveGuest, Located, TypeOK
  <2>. HIDE DEF Bad, Good
  <2>2. CASE Goto(a, Fail(a, p.guest))  BY <1>a, <1>d, <1>e, <2>2
  <2>3. CASE Doubt(a)
    <3>1. \/ Goto(a, [p EXCEPT !.pc = "confirm"]) \/ Goto(a, [p EXCEPT !.pc = "reconfirm"])
      BY <2>3 DEF Doubt
    <3>. QED BY <1>a, <1>c, <1>d, <3>1
  <2>. QED BY <1>7, <2>1, <2>2, <2>3 DEF FinalizeDelete
<1>8. CASE FinalizeConfirm(a)
  <2>1. CASE ConfirmAbsent(p.guest) /\ UNCHANGED host /\ Goto(a, [p EXCEPT !.pc = "forget"])
    BY <1>h, <2>1 DEF ConfirmAbsent, host
  <2>4. CASE Misread(p.guest) /\ Goto(a, [p EXCEPT !.pc = "forget"])
    BY <1>h, <2>4 DEF Misread
  <2>. HIDE DEF Bad, Good
  <2>2. CASE Goto(a, Fail(a, p.guest))  BY <1>a, <1>d, <1>e, <2>2
  <2>3. CASE Goto(a, [p EXCEPT !.pc = "reconfirm"])  BY <1>a, <1>c, <1>d, <2>3
  <2>. QED BY <1>8, <2>1, <2>2, <2>3, <2>4 DEF FinalizeConfirm
<1>9. CASE ForgetResource(a)
  BY <1>9, <1>a, <1>d, <1>e DEF ForgetResource
<1>10. CASE SaveLease(a)
  <2>. DEFINE d == [Idle EXCEPT !.pc = "save-destroyed", !.cmd = p.cmd, !.lease = p.lease]
  <2>. DEFINE n == [Idle EXCEPT !.pc = "sweep", !.cmd = p.cmd, !.batch = p.batch]
  <2>1. Goto(a, n) \/ Goto(a, d) \/ Goto(a, Idle)  BY <1>10 DEF SaveLease
  <2>2. n.pc \notin Bad /\ d.pc \notin Bad  BY <1>d DEF Idle
  <2>. HIDE DEF n, d
  <2>. QED BY <1>a, <1>b, <2>1, <2>2
<1>. QED
  BY <1>1, <1>2, <1>3, <1>4, <1>5, <1>6, <1>7, <1>8, <1>9, <1>10
  DEF CleanupStep, Sweeps

\* No step writes off a guest that is there, or brings back one that was
\* written off.
LEMMA TombsStep ==
  ASSUME IInv, Booked, Tombs, [Next]_vars, NoVmidTwice PROVE Tombs'
<1>0. Located /\ TombstoneIsTruth /\ \A a \in Actor : Written(a)
  BY TombsParts DEF IInv
<1>1. TombstoneIsTruth'
  <2>. SUFFICES ASSUME NEW l \in Lease, NEW g \in Guest, gone'[l][g]
                PROVE  TakenForGone(g)'
    BY DEF TombstoneIsTruth
  <2>1. TakenForGone(g)  BY <1>0, WrittenOffGone DEF TombstoneIsTruth
  <2>2. g \in Listed  BY <1>0, RowsStay DEF Booked, Listed
  <2>. QED BY <2>1, <2>2, MisreadKept DEF NoVmidTwice, TakenForGone
<1>2. ASSUME NEW a \in Actor PROVE Written(a)'
  <2>1. ASSUME proc'[a] = proc[a] PROVE Written(a)'
    BY <1>0, <2>1, MisreadKept, WrittenStays
  <2>2. CASE Tick \/ ByHand \/ UNCHANGED vars
    BY <2>1, <2>2 DEF Tick, ByHand, ManualRemove, ManualReclaim, vars
  <2>3. ASSUME NEW b \in Actor \ {a}, Step(b) \/ Crash(b) PROVE Written(a)'
    BY <1>0, <2>1, <2>3, StepsOne
  <2>4. CASE Crash(a)
    <3>1. Idle.pc \notin Creating \cup {"forget", "gd-mark"}  BY DEF Idle, Creating
    <3>. QED BY <1>0, <2>4, <3>1, PlainWritten DEF Crash
  <2>5. CASE Step(a)
    BY <1>0, <2>5, WrittenLease, WrittenGuest, WrittenCleanup DEF Step
  <2>. QED BY <2>2, <2>3, <2>4, <2>5 DEF Next
<1>. QED BY <1>1, <1>2 DEF Tombs, Written

LEMMA TombsInit == Init => Tombs
  BY DEF Init, Tombs, TombstoneIsTruth, Idle

\* As long as no vmid is used twice, destroyed_at is set on a guest that is there
\* only if a fresh probe of that guest failed too, in words taken for an absence:
\* not by a destroy that failed with such a text, not by two commands at once, not
\* by one that was killed (cleanup.finalize_lease, store.mark_destroyed).
THEOREM TombstonesTrue ==
  Spec /\ [][NoVmidTwice]_vars => []TombstoneIsTruth
<1>1. IInv /\ Booked /\ [Next]_vars => Booked'  BY BookedStep DEF IInv
<1>2. IInv /\ Booked /\ Tombs /\ [Next]_vars /\ [NoVmidTwice]_vars => Tombs'
  <2>. SUFFICES ASSUME IInv, Booked, Tombs, [Next]_vars, [NoVmidTwice]_vars PROVE Tombs'
    OBVIOUS
  <2>1. CASE NoVmidTwice  BY <2>1, TombsStep
  <2>2. CASE UNCHANGED vars
    <3>1. NoVmidTwice  BY <2>2 DEF NoVmidTwice, vars, host
    <3>. QED BY <3>1, TombsStep
  <2>. QED BY <2>1, <2>2
<1>3. Tombs => TombstoneIsTruth  BY DEF Tombs
<1>. QED BY <1>1, <1>2, <1>3, BookedInit, TombsInit, Invariance, PTL DEF Spec

\* Without create and clone nobody makes a guest, under an old vmid or a new one.
LEMMA NothingMade ==
  ASSUME NoCreates, Located, Idling, [Next]_vars
  PROVE  Idling' /\ NoVmidTwice
<1>1. ASSUME NEW a \in Actor PROVE proc'[a].pc \notin Creating
  <2>1. ASSUME proc'[a] = proc[a] PROVE proc'[a].pc \notin Creating
    BY <2>1 DEF Idling
  <2>2. CASE Tick \/ ByHand \/ UNCHANGED vars
    BY <2>1, <2>2 DEF Tick, ByHand, ManualRemove, ManualReclaim, vars
  <2>3. ASSUME NEW b \in Actor \ {a}, Step(b) \/ Crash(b)
        PROVE  proc'[a].pc \notin Creating
    BY <2>1, <2>3, StepsOne
  <2>4. CASE Crash(a)
    <3>1. Idle.pc \notin Creating \cup {"forget", "gd-mark"}  BY DEF Idle, Creating
    <3>. QED BY <2>4, <3>1, PlainWritten DEF Crash
  <2>5. CASE Step(a)
    BY <2>5, WrittenLease, WrittenGuest, WrittenCleanup DEF Step
  <2>. QED BY <2>2, <2>3, <2>4, <2>5 DEF Next
<1>2. NoVmidTwice  BY AbsentStays DEF NoVmidTwice, Listed
<1>3. Creating' = Creating  BY DEF Creating
<1>. QED BY <1>1, <1>2, <1>3 DEF Idling

LEMMA IdlingInit == Init => Idling
  BY DEF Init, Idling, Idle, Creating

-----------------------------------------------------------------------------
(* EndedLeftNothing.                                                       *)

\* A step after which no guest needs more doing for l than before.
Recedes(l) ==
  /\ UNCHANGED <<rowid, policy>>
  /\ \A g \in Guest : guest[g] = "absent" => guest'[g] = "absent"
  /\ \A g \in Guest : g \in template => g \in template' \/ guest'[g] = "absent"
  /\ \A m \in Lease \ {l} : state[m] \in NonTerminal => state'[m] \in NonTerminal
  /\ \A g \in Guest : \/ \A m \in Lease : gone'[m][g] = gone[m][g]
                      \/ \A m \in Lease : rowid[m][g] # 0 => gone'[m][g]

\* What is settled stays settled, or is written off.
LEMMA SettledStays ==
  ASSUME NEW l \in Lease, Recedes(l), NEW g \in Guest, Settled(l, g)
  PROVE  Settled(l, g)' \/ \A m \in Lease : rowid[m][g] # 0 => gone'[m][g]
<1>1. CASE policy[l][g] # "disposable" \/ guest[g] = "absent" \/ g \in template
  BY <1>1 DEF Recedes, Settled
<1>2. ASSUME NEW m \in Lease \ {l}, LeaseClaims(m, g), state[m] \in NonTerminal,
             ~(\A n \in Lease : rowid[n][g] # 0 => gone'[n][g])
      PROVE  Settled(l, g)'
  <2>1. gone'[m][g] = gone[m][g] /\ rowid' = rowid /\ state'[m] \in NonTerminal
    BY <1>2 DEF Recedes
  <2>2. LeaseClaims(m, g)'
    BY <1>2, <2>1 DEF LeaseClaims, Undestroyed, Rows
  <2>. QED BY <1>2, <2>1, <2>2 DEF Settled
<1>. QED BY <1>1, <1>2 DEF Settled

\* What was on no books is on none, and what is on the books was.
LEMMA BooksShrink ==
  ASSUME NEW l \in Lease, NEW m, Recedes(m), NEW g \in Undestroyed(l)'
  PROVE  g \in Undestroyed(l) /\ gone'[l][g] = gone[l][g] /\ rowid[l][g] # 0
  BY DEF Recedes, Undestroyed, Rows

\* A command whose list was complete, after such a step.
LEMMA CompleteStays ==
  ASSUME NEW q \in Proc, Sound(q), Complete(q), Recedes(q.lease)
  PROVE  Complete(q)'
<1>1. \A b \in q.batch : b.lease \in Lease  BY DEF Proc, Snapshot
<1>2. ASSUME NEW b \in q.batch PROVE Undestroyed(b.lease)' \subseteq b.todo
  BY <1>1, <1>2, BooksShrink DEF Complete
<1>3. ASSUME q.pc \in Finalizer \cup {"claim"}, ~q.failed,
             NEW g \in Undestroyed(q.lease)'
      PROVE  g \in q.todo \/ Settled(q.lease, g)'
  <2>1. q.lease \in Lease  BY <1>3 DEF Sound, Finalizer, Leaseless
  <2>2. g \in Undestroyed(q.lease) /\ gone'[q.lease][g] = gone[q.lease][g]
        /\ rowid[q.lease][g] # 0 /\ g \in Guest
    BY <2>1, BooksShrink DEF Undestroyed, Rows
  <2>3. ~gone'[q.lease][g]  BY <2>2 DEF Undestroyed
  <2>4. g \in q.todo \/ Settled(q.lease, g)  BY <1>3, <2>2 DEF Complete
  <2>. QED BY <2>1, <2>2, <2>3, <2>4, SettledStays
<1>. QED BY <1>2, <1>3 DEF Complete

\* With one command at a time its list is all there is.
LEMMA AccountedGoto ==
  ASSUME OneActor, Located, Located', NEW a \in Actor, NEW q, Goto(a, q), Complete(q)'
  PROVE  Accounted'
<1>1. \A b \in Actor : proc'[b] = q
  BY DEF OneActor, Goto, Located, TypeOK
<1>2. ASSUME NEW b \in Actor PROVE Complete(proc[b])'
  BY <1>1 DEF Complete
<1>. QED BY <1>2 DEF Accounted

LEMMA AccountedMoves ==
  ASSUME OneActor, Located, Located', NEW a \in Actor, NEW q, Goto(a, q), Complete(q),
         Recedes(q.lease)
  PROVE  Accounted'
<1>1. q = proc'[a]  BY DEF Goto, Located, TypeOK
<1>2. q \in Proc /\ Sound(q)  BY <1>1 DEF Located, TypeOK, Sound
<1>3. Complete(q)'  BY <1>2, CompleteStays
<1>. QED BY <1>3, AccountedGoto

\* A command outside a teardown has no list.
LEMMA AccountedPlain ==
  ASSUME OneActor, Located, Located', NEW a \in Actor, NEW q, Goto(a, q),
         q.batch = {}, q.pc \notin Finalizer \cup {"claim"}
  PROVE  Accounted'
<1>1. Complete(q)'  BY DEF Complete
<1>. QED BY <1>1, AccountedGoto

\* finalize_lease leaves a guest only when it is dealt with; whatever it could
\* not deal with is a failure.
LEMMA AccountedInside ==
  ASSUME OneActor, Located, Located', Accounted, NEW a \in Actor,
         \/ EndShared(a) \/ Unprotect(a)
         \/ FinalizeNext(a) \/ FinalizeTemplate(a) \/ FinalizeStop(a)
         \/ FinalizeShutdown(a) \/ FinalizeDelete(a) \/ FinalizeConfirm(a)
         \/ ForgetResource(a)
  PROVE  Accounted'
<1>. DEFINE p == proc[a]
<1>0. p \in Proc /\ Sound(p) /\ Complete(p)  BY DEF Located, TypeOK, Accounted
<1>1. p.pc \in Finalizer
  BY DEF EndShared, Unprotect, FinalizeNext, FinalizeTemplate, FinalizeStop,
         FinalizeShutdown, FinalizeDelete, FinalizeConfirm, ForgetResource, Finalizer
<1>2. p.lease \in Lease /\ (p.pc \in GuestPc => p.guest \in Guest)
  BY <1>0, <1>1 DEF Sound, Finalizer, Leaseless
<1>a. ASSUME NEW q, q.pc \in Finalizer, q.lease = p.lease, q.batch = p.batch,
             q.todo = p.todo, q.failed = p.failed
      PROVE  Complete(q)
  BY <1>0, <1>1, <1>a DEF Complete
<1>b. ASSUME NEW g, Settled(p.lease, g) PROVE Complete(Done(a, g)) /\ Complete(Leave(a, g))
  <2>1. /\ Done(a, g).pc = "finalize" /\ Leave(a, g).pc = "finalize"
        /\ Done(a, g).lease = p.lease /\ Leave(a, g).lease = p.lease
        /\ Done(a, g).batch = p.batch /\ Leave(a, g).batch = p.batch
        /\ Done(a, g).failed = p.failed /\ Leave(a, g).failed = p.failed
        /\ Done(a, g).todo = p.todo \ {g} /\ Leave(a, g).todo = p.todo \ {g}
    BY <1>0 DEF Proc, Done, Leave
  <2>2. "finalize" \in Finalizer  BY DEF Finalizer
  <2>. QED BY <1>0, <1>1, <1>b, <2>1, <2>2 DEF Complete
<1>c. \A g : Complete(Fail(a, g)) /\ Fail(a, g).lease = p.lease
  <2>1. \A g : /\ Fail(a, g).pc = "finalize" /\ Fail(a, g).lease = p.lease
               /\ Fail(a, g).batch = p.batch /\ Fail(a, g).failed = TRUE
    BY <1>0 DEF Proc, Done, Fail
  <2>2. "finalize" \in Finalizer  BY DEF Finalizer
  <2>. QED BY <1>0, <1>1, <2>1, <2>2 DEF Complete
<1>d. ASSUME NEW c \in Finalizer
      PROVE  /\ Complete([p EXCEPT !.pc = c]) /\ [p EXCEPT !.pc = c].lease = p.lease
             /\ \A g : /\ Complete([p EXCEPT !.pc = c, !.guest = g])
                       /\ [p EXCEPT !.pc = c, !.guest = g].lease = p.lease
  BY <1>0, <1>a DEF Proc
<1>e. Complete(Finalizing(p)) /\ Finalizing(p).lease = p.lease
  <2>. DEFINE q == Finalizing(p)
  <2>1. /\ q.pc = "finalize" /\ q.lease = p.lease /\ q.batch = p.batch
        /\ q.todo = p.todo /\ q.failed = p.failed
    BY <1>0 DEF Proc, Finalizing
  <2>2. "finalize" \in Finalizer  BY DEF Finalizer
  <2>. HIDE DEF q
  <2>3. Complete(q) /\ q.lease = p.lease  BY <1>a, <2>1, <2>2
  <2>. QED BY <2>3 DEF q
<1>f. \A g : Done(a, g).lease = p.lease /\ Leave(a, g).lease = p.lease
  BY <1>0 DEF Proc, Done, Leave
<1>g. /\ "release" \in Finalizer /\ "stop" \in Finalizer /\ "delete" \in Finalizer
      /\ "shutdown" \in Finalizer /\ "confirm" \in Finalizer
      /\ "reconfirm" \in Finalizer /\ "forget" \in Finalizer
  BY DEF Finalizer
<1>h. ASSUME NEW q, Goto(a, q), Complete(q), q.lease = p.lease, Recedes(p.lease)
      PROVE  Accounted'
  BY <1>h, AccountedMoves
<1>i. ASSUME UNCHANGED <<store, host>> PROVE Recedes(p.lease)
  BY <1>i DEF Recedes, store, host
<1>j. Doubt(a) => \E c \in Finalizer : Goto(a, [p EXCEPT !.pc = c])
  BY <1>g DEF Doubt
<1>3. CASE EndShared(a)
  <2>1. Recedes(p.lease)  BY <1>3, <1>i DEF EndShared, ReadOnly
  <2>. QED BY <1>3, <1>d, <1>e, <1>g, <1>h, <2>1 DEF EndShared
<1>4. CASE Unprotect(a)
  <2>1. Recedes(p.lease)  BY <1>4 DEF Unprotect, Recedes, store
  <2>. QED BY <1>4, <1>e, <1>h, <2>1 DEF Unprotect
<1>5. CASE FinalizeNext(a)
  <2>1. PICK g \in Guest :
          Goto(a, IF OwnerElsewhere(p.lease, g, p.at) THEN Leave(a, g)
                  ELSE IF policy[p.lease][g] # "disposable" THEN Done(a, g)
                       ELSE [p EXCEPT !.pc = "stop", !.guest = g])
    BY <1>5 DEF FinalizeNext
  <2>2. Recedes(p.lease)  BY <1>5, <1>i DEF FinalizeNext, ReadOnly
  <2>3. CASE OwnerElsewhere(p.lease, g, p.at)
    <3>1. Settled(p.lease, g)  BY <2>3 DEF OwnerElsewhere, LeaseIsLive, Settled
    <3>2. Goto(a, Leave(a, g))  BY <2>1, <2>3
    <3>. QED BY <1>b, <1>f, <1>h, <2>2, <3>1, <3>2
  <2>4. CASE ~OwnerElsewhere(p.lease, g, p.at) /\ policy[p.lease][g] # "disposable"
    <3>1. Settled(p.lease, g)  BY <2>4 DEF Settled
    <3>2. Goto(a, Done(a, g))  BY <2>1, <2>4
    <3>. QED BY <1>b, <1>f, <1>h, <2>2, <3>1, <3>2
  <2>5. CASE ~OwnerElsewhere(p.lease, g, p.at) /\ policy[p.lease][g] = "disposable"
    <3>1. Goto(a, [p EXCEPT !.pc = "stop", !.guest = g])  BY <2>1, <2>5
    <3>. QED BY <1>d, <1>g, <1>h, <2>2, <3>1
  <2>. QED BY <2>3, <2>4, <2>5
<1>6. CASE FinalizeTemplate(a)
  <2>1. Recedes(p.lease)  BY <1>6, <1>i DEF FinalizeTemplate, HostError
  <2>2. Settled(p.lease, p.guest)  BY <1>6 DEF FinalizeTemplate, Settled
  <2>3. Goto(a, Leave(a, p.guest)) \/ Goto(a, [p EXCEPT !.pc = "delete"])
    BY <1>6 DEF FinalizeTemplate
  <2>. QED BY <1>b, <1>d, <1>f, <1>g, <1>h, <2>1, <2>2, <2>3
<1>7. CASE FinalizeStop(a)
  <2>1. Recedes(p.lease)  BY <1>7, <1>i DEF FinalizeStop, HostError
  <2>2. \/ Goto(a, Fail(a, p.guest)) \/ Goto(a, [p EXCEPT !.pc = "delete"])
        \/ Goto(a, [p EXCEPT !.pc = "shutdown"])
    BY <1>7 DEF FinalizeStop
  <2>. QED BY <1>c, <1>d, <1>g, <1>h, <2>1, <2>2
<1>8. CASE FinalizeShutdown(a)
  <2>0. p.guest \in Guest  BY <1>2, <1>8 DEF FinalizeShutdown, GuestPc
  <2>1. /\ UNCHANGED <<store, template>>
        /\ \A g \in Guest : guest[g] = "absent" => guest'[g] = "absent"
    BY <1>8, <2>0 DEF FinalizeShutdown, HostError, SetGuest, host, Located, TypeOK
  <2>2. Recedes(p.lease)  BY <2>1 DEF Recedes, store
  <2>3. \/ Goto(a, Fail(a, p.guest)) \/ Goto(a, [p EXCEPT !.pc = "delete"]) \/ Doubt(a)
    BY <1>8 DEF FinalizeShutdown
  <2>. QED BY <1>c, <1>d, <1>g, <1>h, <1>j, <2>2, <2>3
<1>9. CASE FinalizeDelete(a)
  <2>0. p.guest \in Guest  BY <1>2, <1>9 DEF FinalizeDelete, GuestPc
  <2>1. /\ UNCHANGED store
        /\ \A g \in Guest : guest[g] = "absent" => guest'[g] = "absent"
        /\ \A g \in Guest : g \in template => g \in template' \/ guest'[g] = "absent"
    BY <1>9, <2>0 DEF FinalizeDelete, HostError, RemoveGuest, host, Located, TypeOK
  <2>2. Recedes(p.lease)  BY <2>1 DEF Recedes, store
  <2>3. \/ Goto(a, Fail(a, p.guest)) \/ Goto(a, [p EXCEPT !.pc = "forget"]) \/ Doubt(a)
    BY <1>9 DEF FinalizeDelete
  <2>. QED BY <1>c, <1>d, <1>g, <1>h, <1>j, <2>2, <2>3
<1>10. CASE FinalizeConfirm(a)
  <2>1. Recedes(p.lease)  BY <1>10, <1>i DEF FinalizeConfirm, HostError, Misread
  <2>2. \/ Goto(a, Fail(a, p.guest)) \/ Goto(a, [p EXCEPT !.pc = "reconfirm"])
        \/ Goto(a, [p EXCEPT !.pc = "forget"])
    BY <1>10 DEF FinalizeConfirm
  <2>. QED BY <1>c, <1>d, <1>g, <1>h, <2>1, <2>2
<1>11. CASE ForgetResource(a)
  <2>. DEFINE g == p.guest
  <2>. DEFINE q == Done(a, g)
  <2>0. g \in Guest  BY <1>2, <1>11 DEF ForgetResource, GuestPc
  <2>1. /\ UNCHANGED <<state, rowid, policy, guest, template>> /\ Goto(a, q)
        /\ \A m \in Lease : gone'[m][g] = (rowid[m][g] # 0)
        /\ \A m \in Lease, h \in Guest \ {g} : gone'[m][h] = gone[m][h]
    BY <1>11, <2>0 DEF ForgetResource, host, Located, TypeOK
  <2>2. Recedes(p.lease)  BY <2>0, <2>1 DEF Recedes
  <2>3. PICK r : r = p  OBVIOUS
  <2>4. Complete(r)'  BY <1>0, <2>2, <2>3, CompleteStays
  <2>6. /\ q.pc = "finalize" /\ q.lease = r.lease /\ q.batch = r.batch
        /\ q.failed = r.failed /\ q.todo = r.todo \ {g}
    BY <1>0, <2>3 DEF Proc, Done
  <2>7. PICK s : s = q  OBVIOUS
  <2>8. PICK h : h = g  OBVIOUS
  <2>9. h \notin Undestroyed(r.lease)'
    BY <1>2, <2>1, <2>3, <2>8 DEF Undestroyed, Rows
  <2>10. s.pc = "finalize" /\ s.lease = r.lease /\ s.batch = r.batch
         /\ s.failed = r.failed /\ s.todo = r.todo \ {h} /\ Goto(a, s)
    BY <2>1, <2>6, <2>7, <2>8
  <2>11. "finalize" \in Finalizer /\ r.pc \in Finalizer  BY <1>1, <2>3 DEF Finalizer
  <2>12. Complete(s)'  BY <2>4, <2>9, <2>10, <2>11 DEF Complete
  <2>. QED BY <2>10, <2>12, AccountedGoto
<1>. QED BY <1>3, <1>4, <1>5, <1>6, <1>7, <1>8, <1>9, <1>10, <1>11

\* A command that loads a lease, or a sweep, takes down every row there is.
LEMMA AccountedLoads ==
  ASSUME OneActor, Located, Located', Accounted, NEW a \in Actor,
         \/ \E m \in Lease, c \in {"lease-end", "lease-end-shared"} : EndLoad(a, m, c)
         \/ \E m \in Lease : DestroyLoad(a, m) \/ AbandonCheck(a, m)
         \/ \E c \in Sweeps : SweepList(a, c)
  PROVE  Accounted'
<1>a. ASSUME NEW m, UNCHANGED <<store, host>> PROVE Recedes(m)
  BY <1>a DEF Recedes, store, host
<1>b. ASSUME NEW q, Goto(a, q), Complete(q), UNCHANGED <<store, host>> PROVE Accounted'
  BY <1>a, <1>b, AccountedMoves
<1>c. ASSUME NEW m \in Lease, NEW s, NEW c
      PROVE  Complete([[Idle EXCEPT !.pc = "claim", !.lease = m, !.prior = s,
                                    !.todo = Undestroyed(m)] EXCEPT !.cmd = c])
  BY DEF Complete, Idle
<1>1. ASSUME NEW m \in Lease, NEW c, EndLoad(a, m, c) PROVE Accounted'
  BY <1>1, <1>b, <1>c DEF EndLoad, Start, ReadOnly
<1>2. ASSUME NEW m \in Lease, DestroyLoad(a, m) PROVE Accounted'
  BY <1>2, <1>b, <1>c DEF DestroyLoad, Start, ReadOnly
<1>3. ASSUME NEW m \in Lease, AbandonCheck(a, m) PROVE Accounted'
  <2>. DEFINE q == [[Idle EXCEPT !.pc = "abandon-claim", !.lease = m, !.prior = state[m]]
                    EXCEPT !.cmd = "lease-abandon"]
  <2>1. q.batch = {} /\ q.pc = "abandon-claim"  BY DEF Idle
  <2>2. Goto(a, q) /\ UNCHANGED <<store, host>>  BY <1>3 DEF AbandonCheck, Start
  <2>. HIDE DEF q
  <2>3. Complete(q)  BY <2>1 DEF Complete, Finalizer
  <2>. QED BY <1>b, <2>2, <2>3
<1>4. ASSUME NEW c \in Sweeps, SweepList(a, c) PROVE Accounted'
  <2>. DEFINE list == {[lease |-> l, prior |-> state[l], todo |-> Undestroyed(l)] :
                         l \in {m \in Lease : SweepCandidate(m, c = "cleanup-all")}}
  <2>. DEFINE q == [[Idle EXCEPT !.pc = "sweep", !.batch = list] EXCEPT !.cmd = c]
  <2>1. \A b \in list : Undestroyed(b.lease) \subseteq b.todo  OBVIOUS
  <2>2. q.batch = list /\ q.pc = "sweep"  BY DEF Idle
  <2>3. Goto(a, q) /\ UNCHANGED <<store, host>>  BY <1>4 DEF SweepList, Start, ReadOnly
  <2>. HIDE DEF q, list
  <2>4. Complete(q)  BY <2>1, <2>2 DEF Complete, Finalizer
  <2>. QED BY <1>b, <2>3, <2>4
<1>. QED BY <1>1, <1>2, <1>3, <1>4

\* Everything in cleanup.py keeps count.
LEMMA AccountedCleanup ==
  ASSUME OneActor, IInv, Located', Accounted, NEW a \in Actor, CleanupStep(a)
  PROVE  Accounted'
<1>. USE DEF IInv
<1>. DEFINE p == proc[a]
<1>0. p \in Proc /\ Sound(p) /\ Complete(p)  BY DEF Located, TypeOK, Accounted
<1>a. Idle.batch = {} /\ Idle.pc \notin Finalizer \cup {"claim"}
  BY DEF Idle, Finalizer
<1>b. \A b \in p.batch : /\ b.lease \in Lease
                         /\ Undestroyed(b.lease) \subseteq b.todo
  BY <1>0 DEF Complete, Proc, Snapshot
<1>c. ASSUME NEW l \in Lease, NEW s, state' = [state EXCEPT ![l] = s],
             UNCHANGED <<rowid, policy, gone, host>>
      PROVE  Recedes(l)
  BY <1>c DEF Recedes, host, Located, TypeOK
<1>d. ASSUME NEW l, UNCHANGED <<store, host>> PROVE Recedes(l)
  BY <1>d DEF Recedes, store, host
<1>1. CASE \/ \E m \in Lease, c \in {"lease-end", "lease-end-shared"} : EndLoad(a, m, c)
           \/ \E m \in Lease : DestroyLoad(a, m) \/ AbandonCheck(a, m)
           \/ \E c \in Sweeps : SweepList(a, c)
  BY <1>1, AccountedLoads
<1>2. CASE SweepDone(a) \/ EndRelease(a) \/ AbandonClaim(a) \/ SaveDestroyed(a)
  BY <1>2, <1>a, AccountedPlain DEF SweepDone, EndRelease, AbandonClaim, SaveDestroyed
<1>3. CASE EndClaim(a)
  <2>1. CASE Goto(a, Idle)  BY <1>a, <2>1, AccountedPlain
  <2>2. ASSUME NEW c \in {"unprotect", "shared"}, Goto(a, [p EXCEPT !.pc = c]),
               ClaimLease(p.lease, p.prior, "ending")
        PROVE  Accounted'
    <3>. DEFINE q == [p EXCEPT !.pc = c]
    <3>1. p.pc = "claim" /\ p.lease \in Lease  BY <1>3, HolderSound DEF EndClaim
    <3>2. /\ q.pc = c /\ q.lease = p.lease /\ q.batch = p.batch /\ q.todo = p.todo
          /\ q.failed = p.failed
      BY <1>0 DEF Proc
    <3>3. Recedes(p.lease)  BY <1>3, <1>c, <2>2, <3>1 DEF EndClaim, ClaimLease
    <3>4. Goto(a, q)  BY <2>2
    <3>. HIDE DEF q
    <3>5. Complete(q)  BY <1>0, <3>1, <3>2 DEF Complete, Finalizer
    <3>. QED BY <3>2, <3>3, <3>4, <3>5, AccountedMoves
  <2>. QED BY <1>3, <2>1, <2>2 DEF EndClaim
<1>4. CASE SweepClaim(a)
  <2>1. PICK b \in p.batch :
          LET rest == [p EXCEPT !.batch = @ \ {b}] IN
          \/ /\ ClaimLease(b.lease, b.prior, "ending")
             /\ Goto(a, Finalizing([rest EXCEPT !.lease = b.lease, !.prior = b.prior,
                                                !.todo = b.todo, !.failed = FALSE,
                                                !.left = {}]))
          \/ state[b.lease] # b.prior /\ UNCHANGED store /\ Goto(a, rest)
    BY <1>4 DEF SweepClaim
  <2>. DEFINE rest == [p EXCEPT !.batch = @ \ {b}]
  <2>. DEFINE q == Finalizing([rest EXCEPT !.lease = b.lease, !.prior = b.prior,
                                  !.todo = b.todo, !.failed = FALSE, !.left = {}])
  <2>2. p.pc = "sweep" /\ UNCHANGED host  BY <1>4 DEF SweepClaim
  <2>3. /\ rest.pc = "sweep" /\ rest.batch = p.batch \ {b}
        /\ q.pc = "finalize" /\ q.lease = b.lease /\ q.batch = p.batch \ {b}
        /\ q.todo = b.todo
    BY <1>0, <2>2 DEF Proc, Finalizing
  <2>4. \/ ClaimLease(b.lease, b.prior, "ending") /\ Goto(a, q)
        \/ UNCHANGED store /\ Goto(a, rest)
    BY <2>1
  <2>. HIDE DEF q, rest
  <2>5. Complete(q) /\ Complete(rest)  BY <1>b, <2>3 DEF Complete, Finalizer
  <2>6. CASE ClaimLease(b.lease, b.prior, "ending") /\ Goto(a, q)
    <3>1. Recedes(b.lease)  BY <1>b, <1>c, <2>2, <2>6 DEF ClaimLease
    <3>. QED BY <2>3, <2>5, <2>6, <3>1, AccountedMoves
  <2>7. CASE UNCHANGED store /\ Goto(a, rest)
    <3>1. Recedes(rest.lease)  BY <1>d, <2>2, <2>7
    <3>. QED BY <2>5, <2>7, <3>1, AccountedMoves
  <2>. QED BY <2>4, <2>6, <2>7
<1>5. CASE \/ EndShared(a) \/ Unprotect(a)
           \/ FinalizeNext(a) \/ FinalizeTemplate(a) \/ FinalizeStop(a)
           \/ FinalizeShutdown(a) \/ FinalizeDelete(a) \/ FinalizeConfirm(a)
           \/ ForgetResource(a)
  BY <1>5, AccountedInside
<1>6. CASE SaveLease(a)
  <2>. DEFINE d == [Idle EXCEPT !.pc = "save-destroyed", !.cmd = p.cmd, !.lease = p.lease]
  <2>. DEFINE n == [Idle EXCEPT !.pc = "sweep", !.cmd = p.cmd, !.batch = p.batch]
  <2>1. Goto(a, n) \/ Goto(a, d) \/ Goto(a, Idle)  BY <1>6 DEF SaveLease
  <2>2. /\ d.pc \notin Finalizer \cup {"claim"} /\ d.batch = {}
        /\ n.pc = "sweep" /\ n.batch = p.batch
    BY DEF Idle, Finalizer
  <2>3. p.lease \in Lease  BY <1>6, SaveLeaseFinal
  <2>4. \A l \in Lease : Undestroyed(l)' = Undestroyed(l)
    BY <1>6 DEF SaveLease, SetLeaseState, Undestroyed, Rows
  <2>. HIDE DEF d, n
  <2>5. CASE Goto(a, n)
    <3>1. PICK r : r = n  OBVIOUS
    <3>2. Complete(r)'  BY <1>b, <2>2, <2>4, <3>1 DEF Complete, Finalizer
    <3>. QED BY <2>5, <3>1, <3>2, AccountedGoto
  <2>. QED BY <1>a, <2>1, <2>2, <2>5, AccountedPlain
<1>. QED BY <1>1, <1>2, <1>3, <1>4, <1>5, <1>6 DEF CleanupStep, Sweeps

\* A step after which nothing more needs doing and no command has moved.
LEMMA AccountedStill ==
  ASSUME Located, Accounted, UNCHANGED proc, \A l \in Lease : Recedes(l)
  PROVE  Accounted'
<1>1. ASSUME NEW a \in Actor PROVE Complete(proc[a])'
  <2>1. PICK q : q = proc[a]  OBVIOUS
  <2>2. q \in Proc /\ Sound(q) /\ Complete(q)
    BY <2>1 DEF Located, TypeOK, Accounted
  <2>3. CASE q.lease \in Lease
    <3>1. Complete(q)'  BY <2>2, <2>3, CompleteStays
    <3>. QED BY <2>1, <3>1 DEF Complete
  <2>4. CASE q.lease \notin Lease
    <3>1. q.pc \in Leaseless  BY <2>2, <2>4 DEF Sound
    <3>2. \A b \in q.batch : b.lease \in Lease  BY <2>2 DEF Proc, Snapshot
    <3>3. \A b \in q.batch : Undestroyed(b.lease)' \subseteq b.todo
      BY <2>2, <3>2, BooksShrink DEF Complete
    <3>4. Complete(q)'
      BY <2>2, <3>1, <3>3 DEF Complete, Leaseless, Finalizer
    <3>. QED BY <2>1, <3>4 DEF Complete
  <2>. QED BY <2>3, <2>4
<1>. QED BY <1>1 DEF Accounted

LEMMA AccountedStep ==
  ASSUME OneActor, IInv, Accounted, [Next]_vars PROVE Accounted'
<1>0. Located /\ Located'  BY NextLocated DEF IInv
<1>1. ASSUME UNCHANGED proc, \A l \in Lease : Recedes(l) PROVE Accounted'
  BY <1>0, <1>1, AccountedStill
<1>2. CASE Tick \/ UNCHANGED vars
  <2>1. UNCHANGED proc /\ \A l \in Lease : Recedes(l)
    BY <1>2 DEF Tick, vars, Recedes, store, host
  <2>. QED BY <1>1, <2>1
<1>3. ASSUME NEW g \in Guest, ManualRemove(g) PROVE Accounted'
  <2>1. UNCHANGED proc /\ \A l \in Lease : Recedes(l)
    BY <1>0, <1>3 DEF ManualRemove, RemoveGuest, Recedes, store, Located, TypeOK
  <2>. QED BY <1>1, <2>1
<1>4. ASSUME NEW m \in Lease, ManualReclaim(m) PROVE Accounted'
  <2>1. /\ UNCHANGED <<proc, rowid, policy, gone, host>>
        /\ \A l \in Lease : state[l] \in NonTerminal => state'[l] \in NonTerminal
    BY <1>0, <1>4 DEF ManualReclaim, ClaimLease, NonTerminal, Located, TypeOK
  <2>2. \A l \in Lease : Recedes(l)  BY <2>1 DEF Recedes, host
  <2>. QED BY <1>1, <2>1, <2>2
<1>5. ASSUME NEW a \in Actor, Crash(a) PROVE Accounted'
  <2>1. Idle.batch = {} /\ Idle.pc \notin Finalizer \cup {"claim"}  BY DEF Idle, Finalizer
  <2>. QED BY <1>0, <1>5, <2>1, AccountedPlain DEF Crash
<1>6. ASSUME NEW a \in Actor, LeaseStep(a) \/ GuestStep(a) PROVE Accounted'
  <2>1. proc[a].batch = {}
    BY <1>6, NotTearingDown DEF Accounted, Complete
  <2>2. /\ Goto(a, proc'[a]) /\ proc'[a].pc \in LeasePc \cup OwnPc
        /\ proc'[a].batch = {}
    BY <1>0, <1>6, <2>1, LeaseAhead, GuestAhead
  <2>3. proc'[a].pc \notin Finalizer \cup {"claim"}
    BY <2>2 DEF LeasePc, OwnPc, Finalizer
  <2>. QED BY <1>0, <2>2, <2>3, AccountedPlain
<1>7. ASSUME NEW a \in Actor, CleanupStep(a) PROVE Accounted'
  BY <1>0, <1>7, AccountedCleanup
<1>. QED BY <1>2, <1>3, <1>4, <1>5, <1>6, <1>7 DEF Next, ByHand, Step

\* 'ended' is only ever written by the save of a teardown that failed nowhere.
LEMMA EndedBySave ==
  ASSUME IInv, [Next]_vars, NEW l \in Lease, state[l] # "ended", state'[l] = "ended"
  PROVE  \E a \in Actor : SaveLease(a) /\ proc[a].lease = l /\ ~proc[a].failed
<1>0. Located /\ Located' /\ Young  BY NextLocated DEF IInv
<1>a. ASSUME NEW m, NEW s, s # "ended", state' = [state EXCEPT ![m] = s] PROVE FALSE
  BY <1>0, <1>a DEF Located, TypeOK
<1>b. ASSUME UNCHANGED state PROVE FALSE  BY <1>b
<1>1. ~(Tick \/ ByHand \/ (\E a \in Actor : Crash(a)) \/ UNCHANGED vars)
  <2>1. ~(Tick \/ (\E a \in Actor : Crash(a)) \/ UNCHANGED vars)
    BY <1>b DEF Tick, Crash, vars, store
  <2>2. ~ByHand
    BY <1>a, <1>b DEF ByHand, ManualRemove, ManualReclaim, ClaimLease, store
  <2>. QED BY <2>1, <2>2
<1>2. \A a \in Actor : ~LeaseStep(a)
  BY <1>0, <1>a, <1>b, LeaseStepOutside DEF BeginInsert, BeginFail, SetLeaseState
<1>3. \A a \in Actor : ~GuestStep(a)
  BY <1>0, <1>b, GuestStepOutside
<1>4. PICK a \in Actor : CleanupStep(a)  BY <1>1, <1>2, <1>3 DEF Next, Step
<1>5. CASE EndClaim(a)
  BY <1>5, <1>a, <1>b DEF EndClaim, ClaimLease, store
<1>6. CASE SweepClaim(a)
  <2>1. UNCHANGED store \/ \E m : state' = [state EXCEPT ![m] = "ending"]
    BY <1>6 DEF SweepClaim, ClaimLease
  <2>. QED BY <1>a, <1>b, <2>1 DEF store
<1>7. CASE EndRelease(a)
  <2>1. proc[a].prior # "ended"
    BY <1>0, <1>7, HolderSound DEF EndRelease, Finalizer, OpenState
  <2>. QED BY <1>7, <1>a, <1>b, <2>1 DEF EndRelease, ClaimLease, store
<1>8. CASE AbandonClaim(a)
  BY <1>8, <1>a, <1>b DEF AbandonClaim, ClaimLease, store
<1>9. CASE SaveDestroyed(a)
  BY <1>9, <1>a DEF SaveDestroyed, SetLeaseState
<1>10. CASE \/ EndShared(a) \/ Unprotect(a)
            \/ FinalizeNext(a) \/ FinalizeTemplate(a) \/ FinalizeStop(a)
            \/ FinalizeShutdown(a) \/ FinalizeDelete(a) \/ FinalizeConfirm(a)
            \/ ForgetResource(a)
  BY <1>0, <1>b, <1>10, TeardownInside
<1>11. CASE \/ \E m \in Lease, c \in {"lease-end", "lease-end-shared"} : EndLoad(a, m, c)
            \/ \E m \in Lease : DestroyLoad(a, m) \/ AbandonCheck(a, m)
  BY <1>0, <1>11, <1>b, LoadOutside
<1>13. CASE (\E c \in Sweeps : SweepList(a, c)) \/ SweepDone(a)
  BY <1>13, <1>b DEF SweepList, SweepDone, ReadOnly, store
<1>12. CASE SaveLease(a)
  <2>1. ~proc[a].failed
    BY <1>12, <1>a DEF SaveLease, SetLeaseState
  <2>2. proc[a].lease = l
    BY <1>0, <1>12 DEF SaveLease, SetLeaseState, Located, TypeOK
  <2>. QED BY <1>12, <2>1, <2>2
<1>. QED
  BY <1>4, <1>5, <1>6, <1>7, <1>8, <1>9, <1>10, <1>11, <1>12, <1>13
  DEF CleanupStep, Sweeps

\* The save finds every guest still on the lease's books settled.
LEMMA SaveSettled ==
  ASSUME Accounted, NEW a \in Actor, SaveLease(a), ~proc[a].failed,
         NEW g \in Undestroyed(proc[a].lease)
  PROVE  Settled(proc[a].lease, g)
<1>1. Complete(proc[a])  BY DEF Accounted
<1>. QED BY <1>1 DEF SaveLease, Complete, Finalizer

LEMMA AccountedInit == Init => Accounted
  BY DEF Init, Accounted, Complete, Idle, Finalizer

\* A lease that ends has settled every guest still on its books: with one command
\* at a time, whatever fails, hangs or is killed on the way, and whoever else has
\* removed guests by hand. TombstonesTrue says what it takes to get off the books.
THEOREM EndedIsEmpty ==
  ASSUME OneActor PROVE Spec => EndedLeftNothing
<1>2. IInv /\ Accounted /\ [Next]_vars => Accounted'  BY AccountedStep
<1>3. IInv /\ Accounted /\ [Next]_vars =>
        [\A l \in Lease : state[l] # "ended" /\ state'[l] = "ended" =>
           \A g \in Undestroyed(l) : Settled(l, g)]_vars
  BY EndedBySave, SaveSettled
<1>. QED BY <1>2, <1>3, AccountedInit, Invariance, PTL DEF Spec, EndedLeftNothing

\* The whole inductive invariant of the commands, with the parts that need no
\* command to make a guest, or one command at a time, where that is so.
THEOREM InductiveAlways == Spec => []Inductive
<1>. DEFINE T == NoCreates => Idling /\ Tombs
            A == OneActor => Accounted
<1>1. Init => Booked /\ T /\ A
  BY BookedInit, IdlingInit, TombsInit, AccountedInit
<1>2. IInv /\ Booked /\ [Next]_vars => Booked'  BY BookedStep DEF IInv
<1>3. IInv /\ Booked /\ T /\ [Next]_vars => T'
  BY NothingMade, TombsStep DEF IInv, NoCreates
<1>4. IInv /\ A /\ [Next]_vars => A'
  BY AccountedStep DEF OneActor
<1>5. IInv /\ Stamps /\ Booked /\ T /\ A => Inductive  BY DEF Inductive
<1>. HIDE DEF T, A
<1>. QED BY <1>1, <1>2, <1>3, <1>4, <1>5, Invariance, StampsAlways, PTL DEF Spec

-----------------------------------------------------------------------------
(* The same with the collector at work beside the commands.                *)

\* A step of the collector removes guests, stops guests, and does nothing else
\* that a command can see.
LEMMA CollectorOnly ==
  ASSUME TypeOK, NEW r \in Run, Gc!GcStep(r), UNCHANGED <<store, errors, crashes, misread, proc>>
  PROVE  /\ TypeOK' /\ UNCHANGED now
         /\ \A g \in Guest : guest[g] = "absent" => guest'[g] = "absent"
         /\ \A g \in Guest : g \in template => g \in template' \/ guest'[g] = "absent"
         /\ \A g \in Guest : meta'[g] = meta[g] \/ meta'[g] = Unstamped
<1>. DEFINE Kept == /\ guest' \in [Guest -> GuestStatus] /\ template' \in SUBSET Guest
                    /\ meta' \in [Guest -> [lease : Lease \cup {NoLease}, expiry : Nat]]
                    /\ UNCHANGED now
                    /\ \A g \in Guest : guest[g] = "absent" => guest'[g] = "absent"
                    /\ \A g \in Guest : g \in template => g \in template' \/ guest'[g] = "absent"
                    /\ \A g \in Guest : meta'[g] = meta[g] \/ meta'[g] = Unstamped
<1>. SUFFICES Kept  BY DEF TypeOK, store
<1>a. ASSUME UNCHANGED <<guest, template, meta, now>> PROVE Kept
  BY <1>a DEF TypeOK
<1>b. "stopped" \in GuestStatus /\ "absent" \in GuestStatus  BY DEF GuestStatus
<1>1. CASE Gc!GcStart(r) \/ Gc!GcListQemu(r) \/ Gc!GcListLxc(r) \/ Gc!GcScan(r)
           \/ Gc!GcScanned(r) \/ Gc!GcLock(r)
  BY <1>1, <1>a
  DEF Gc!GcStart, Gc!GcListQemu, Gc!GcListLxc, Gc!GcList, Gc!GcScan, Gc!GcScanned,
      Gc!GcLock, Gc!OnlyGc, Gc!hostvars
<1>2. CASE Gc!GcJudge(r)
  BY <1>2, <1>a DEF Gc!GcJudge, Gc!Due, Gc!OnlyGc, Gc!hostvars
<1>3. CASE Gc!GcStop(r)
  <2>1. PICK g \in gc[r].target :
          guest' = guest \/ (guest[g] # "absent" /\ guest' = [guest EXCEPT ![g] = "stopped"])
    BY <1>3 DEF Gc!GcStop
  <2>2. UNCHANGED <<template, meta, now>>  BY <1>3 DEF Gc!GcStop
  <2>. QED BY <1>b, <2>1, <2>2 DEF TypeOK
<1>4. CASE Gc!GcDestroy(r)
  <2>1. PICK g \in gc[r].target : Gc!Remove(g) \/ UNCHANGED <<guest, template, meta>>
    BY <1>4 DEF Gc!GcDestroy, Gc!hostvars
  <2>2. UNCHANGED now  BY <1>4 DEF Gc!GcDestroy
  <2>3. CASE UNCHANGED <<guest, template, meta>>  BY <1>a, <2>2, <2>3
  <2>4. CASE Gc!Remove(g)
    <3>1. /\ guest' = [guest EXCEPT ![g] = "absent"] /\ template' = template \ {g}
          /\ meta' = [meta EXCEPT ![g] = Unstamped]
      BY <2>4 DEF Gc!Remove, Gc!NoMeta, Unstamped
    <3>2. Unstamped \in [lease : Lease \cup {NoLease}, expiry : Nat]  BY DEF Unstamped
    <3>. QED BY <1>b, <2>2, <3>1, <3>2 DEF TypeOK
  <2>. QED BY <2>1, <2>3, <2>4
<1>. QED BY <1>1, <1>2, <1>3, <1>4 DEF Gc!GcStep

\* What the proofs about Lab rest on is nothing the collector can disturb.
LEMMA CollectorKeeps ==
  ASSUME IInv, NEW r \in Run, Gc!GcStep(r), UNCHANGED <<store, errors, crashes, misread, proc>>
  PROVE  /\ IInv'
         /\ EndingIsHeld => EndingIsHeld'
         /\ Stamps => Stamps'
         /\ Booked => Booked'
         /\ Booked /\ Tombs => Tombs'
         /\ Accounted => Accounted'
<1>1. /\ TypeOK' /\ UNCHANGED now
      /\ \A g \in Guest : guest[g] = "absent" => guest'[g] = "absent"
      /\ \A g \in Guest : g \in template => g \in template' \/ guest'[g] = "absent"
      /\ \A g \in Guest : meta'[g] = meta[g] \/ meta'[g] = Unstamped
  BY CollectorOnly DEF IInv, Located
<1>2. UNCHANGED <<state, expires, rowid, policy, gone, crashes, misread, proc>>  BY DEF store
<1>3. Located'  BY <1>1, <1>2 DEF IInv, Located, Sound
<1>4. Claimed'  BY <1>2 DEF IInv, Claimed, OneFinalizer, Holds
<1>5. Young'  BY <1>2 DEF IInv, Young, Rows, Holds, Empty
<1>6. EndingIsHeld => EndingIsHeld'  BY <1>2 DEF EndingIsHeld, Holds
<1>7. Stamps => Stamps'
  <2>1. \A g \in Guest : meta'[g] = meta[g] \/ GoodStamp(meta'[g])
    BY <1>1, UnstampedGood
  <2>2. now' >= now  BY <1>1 DEF IInv, Located, TypeOK
  <2>. QED BY <1>2, <1>3, <2>1, <2>2, StampsKept DEF IInv
<1>10. Booked => Booked'
  BY <1>2, BookedKept DEF IInv
<1>8. Booked /\ Tombs => Tombs'
  <2>. SUFFICES ASSUME Booked, Tombs PROVE Tombs'  OBVIOUS
  <2>0. NoVmidTwice  BY <1>1 DEF NoVmidTwice, Listed
  <2>1. TombstoneIsTruth'  BY <1>1, <1>2 DEF Tombs, TombstoneIsTruth, TakenForGone
  <2>2. ASSUME NEW a \in Actor PROVE Written(a)'
    BY <1>2, <2>0, WrittenStays DEF Tombs, Written
  <2>. QED BY <2>1, <2>2 DEF Tombs, Written
<1>9. Accounted => Accounted'
  <2>. SUFFICES ASSUME Accounted PROVE Accounted'  OBVIOUS
  <2>1. \A l \in Lease : Recedes(l)  BY <1>1, <1>2 DEF Recedes
  <2>. QED BY <1>2, <2>1, AccountedStill DEF IInv
<1>. QED BY <1>3, <1>4, <1>5, <1>6, <1>7, <1>8, <1>9, <1>10 DEF IInv

\* A step of the two together.
LEMMA LgStep ==
  ASSUME IInv, [LgNext]_lgvars
  PROVE  /\ IInv'
         /\ EndingIsHeld => EndingIsHeld'
         /\ Stamps => Stamps'
         /\ Booked => Booked'
         /\ Booked /\ NoVmidTwice /\ Tombs => Tombs'
         /\ OneActor /\ Accounted => Accounted'
<1>1. CASE [Next]_vars
  BY <1>1, NextInv, EndingStep, StampsStep, BookedStep, TombsStep, AccountedStep DEF IInv
<1>2. ASSUME NEW r \in Run, Gc!GcStep(r), UNCHANGED <<store, errors, crashes, misread, proc>>
      PROVE  /\ IInv'
             /\ EndingIsHeld => EndingIsHeld'
             /\ Stamps => Stamps'
             /\ Booked => Booked'
             /\ Booked /\ Tombs => Tombs'
             /\ Accounted => Accounted'
  BY <1>2, CollectorKeeps
<1>. QED BY <1>1, <1>2 DEF LgNext, lgvars

\* The commands' own safety does not depend on the collector leaving them
\* alone: claims stay exclusive, no lease is stuck in 'ending', and what the
\* collector reads tells it the kind of lease, however it interferes.
THEOREM SafeBesideCollector ==
  LgSpec => [](OneFinalizer /\ EndingIsHeld /\ StampsMatchKind)
<1>1. LgInit => IInv /\ EndingIsHeld /\ Stamps
  BY InitInv, EndingInit, StampsInit DEF LgInit
<1>2. IInv /\ EndingIsHeld /\ Stamps /\ [LgNext]_lgvars => (IInv /\ EndingIsHeld /\ Stamps)'
  BY LgStep
<1>3. IInv => OneFinalizer  BY DEF IInv, Claimed
<1>. QED BY <1>1, <1>2, <1>3, StampsTell, PTL DEF LgSpec

\* Nor does what a lease promises: with the collector stopping and destroying
\* guests at any moment, every lease still goes through the phases of LeaseSpec,
\* and a closed one stays closed.
THEOREM RefinementBesideCollector == LgSpec => ImplementsLeaseSpec
<1>1. LgInit => LS!LInit
  BY DEF LgInit, Init, LS!LInit, Phase, Holder
<1>2. IInv /\ [LgNext]_lgvars => [LS!LNext]_LS!lvars
  <2>. SUFFICES ASSUME IInv, [LgNext]_lgvars PROVE [LS!LNext]_LS!lvars  OBVIOUS
  <2>1. CASE [Next]_vars  BY <2>1, StepRefines
  <2>2. CASE UNCHANGED <<state, proc>>
    <3>1. \A b \in Actor, m \in Lease : Holds(b, m)' <=> Holds(b, m)  BY <2>2 DEF Holds
    <3>. QED BY <2>2, <3>1, SameClaims
  <2>. QED BY <2>1, <2>2 DEF LgNext, lgvars, store
<1>3. LgInit => IInv  BY InitInv DEF LgInit
<1>4. IInv /\ [LgNext]_lgvars => IInv'  BY LgStep
<1>. QED BY <1>1, <1>2, <1>3, <1>4, PTL DEF LgSpec, ImplementsLeaseSpec, LS!Spec

\* A teardown that meets the collector on its guests still keeps its promise:
\* with one command at a time and no vmid used twice, a lease ends only when
\* every disposable guest that is on its books alone has left the host, or a
\* probe of it failed in words taken for its absence.
THEOREM SweepBesideCollector ==
  ASSUME OneActor PROVE LgSpec /\ [][NoVmidTwice]_lgvars => RacingSweepIsHarmless
<1>. DEFINE J == IInv /\ Booked /\ Tombs /\ Accounted
<1>. DEFINE Harmless ==
       \A l \in Lease :
         state[l] # "ended" /\ state'[l] = "ended" =>
           \A g \in Rows(l) : policy[l][g] = "disposable" /\ g \notin template
                              /\ ~(\E m \in Lease \ {l} : g \in Rows(m))
                              /\ g \notin misread
                              => guest[g] = "absent"
<1>1. LgInit => J  BY InitInv, BookedInit, TombsInit, AccountedInit DEF LgInit
<1>2. J /\ [LgNext]_lgvars /\ [NoVmidTwice]_lgvars => J'
  <2>1. UNCHANGED lgvars => NoVmidTwice  BY DEF NoVmidTwice, lgvars, vars, host
  <2>. QED BY <2>1, LgStep
<1>3. J /\ [LgNext]_lgvars => Harmless
  <2>. SUFFICES ASSUME J, [LgNext]_lgvars,
                       NEW l \in Lease, state[l] # "ended", state'[l] = "ended",
                       NEW g \in Rows(l), policy[l][g] = "disposable", g \notin template,
                       ~(\E m \in Lease \ {l} : g \in Rows(m)), g \notin misread
                PROVE  guest[g] = "absent"
    OBVIOUS
  <2>1. [Next]_vars  BY DEF LgNext, lgvars, store
  <2>2. PICK a \in Actor : SaveLease(a) /\ proc[a].lease = l /\ ~proc[a].failed
    BY <2>1, EndedBySave
  <2>3. CASE gone[l][g]
    BY <2>3 DEF Tombs, TombstoneIsTruth, TakenForGone, Rows
  <2>4. CASE ~gone[l][g]
    <3>1. g \in Undestroyed(l)  BY <2>4 DEF Undestroyed
    <3>2. Settled(l, g)  BY <2>2, <3>1, SaveSettled
    <3>3. \A m \in Lease \ {l} : ~LeaseClaims(m, g)  BY DEF LeaseClaims, Undestroyed
    <3>. QED BY <3>2, <3>3 DEF Settled
  <2>. QED BY <2>3, <2>4
<1>4. J /\ [LgNext]_lgvars => [Harmless]_lgvars  BY <1>3
<1>. HIDE DEF J
<1>. QED BY <1>1, <1>2, <1>4, PTL DEF LgSpec, RacingSweepIsHarmless

\* A failure is noted for a guest only if a host call failed or the host still
\* has the guest.
LEMMA FailsLoudly ==
  ASSUME Located, NEW a \in Actor, Step(a) \/ Crash(a),
         ~proc[a].failed, proc'[a].failed, errors' = errors
  PROVE  guest[proc[a].guest] # "absent"
<1>. DEFINE p == proc[a]
<1>0. p \in Proc /\ errors \in Nat  BY DEF Located, TypeOK
<1>a. ASSUME NEW q, Goto(a, q) PROVE q.failed # FALSE /\ q.failed # p.failed
  BY <1>a DEF Goto, Located, TypeOK
<1>b. Idle.failed = FALSE  BY DEF Idle
<1>c. ~AnswerLost /\ ~HostError  BY <1>0 DEF AnswerLost, HostError
<1>d. \A c : [p EXCEPT !.pc = c].failed = p.failed  BY <1>0 DEF Proc
<1>e. \A g : Done(a, g).failed = p.failed /\ Leave(a, g).failed = p.failed
  BY <1>0 DEF Proc, Done, Leave
<1>f. Finalizing(p).failed = p.failed  BY <1>0 DEF Proc, Finalizing
<1>1. ~Crash(a)  BY <1>a, <1>b DEF Crash
<1>2. ~LeaseStep(a)  BY LeaseAhead
<1>3. ~GuestStep(a)  BY GuestAhead
<1>4. CleanupStep(a)  BY <1>1, <1>2, <1>3 DEF Step
<1>5. ~(SweepDone(a) \/ EndRelease(a) \/ AbandonClaim(a) \/ SaveDestroyed(a))
  BY <1>a, <1>b DEF SweepDone, EndRelease, AbandonClaim, SaveDestroyed
<1>6. ~(EndClaim(a) \/ EndShared(a) \/ Unprotect(a))
  <2>1. EndClaim(a) => \/ Goto(a, Idle) \/ Goto(a, [p EXCEPT !.pc = "unprotect"])
                       \/ Goto(a, [p EXCEPT !.pc = "shared"])
    BY DEF EndClaim
  <2>2. EndShared(a) => Goto(a, [p EXCEPT !.pc = "release"]) \/ Goto(a, Finalizing(p))
    BY DEF EndShared
  <2>3. Unprotect(a) => Goto(a, Finalizing(p))  BY DEF Unprotect
  <2>. QED BY <1>a, <1>b, <1>d, <1>f, <2>1, <2>2, <2>3
<1>7. ~(FinalizeNext(a) \/ FinalizeTemplate(a) \/ ForgetResource(a))
  <2>1. ASSUME FinalizeNext(a) PROVE FALSE
    <3>1. PICK g : \/ Goto(a, Leave(a, g)) \/ Goto(a, Done(a, g))
                   \/ Goto(a, [p EXCEPT !.pc = "stop", !.guest = g])
      BY <2>1 DEF FinalizeNext
    <3>2. CASE Goto(a, Leave(a, g)) \/ Goto(a, Done(a, g))  BY <1>a, <1>e, <3>2
    <3>. DEFINE q == [p EXCEPT !.pc = "stop", !.guest = g]
    <3>3. CASE Goto(a, q)
      <4>1. q.failed = p.failed  BY <1>0 DEF Proc
      <4>. HIDE DEF q
      <4>. QED BY <1>a, <3>3, <4>1
    <3>. QED BY <3>1, <3>2, <3>3
  <2>2. FinalizeTemplate(a) => Goto(a, Leave(a, p.guest)) \/ HostError
    BY DEF FinalizeTemplate
  <2>3. ForgetResource(a) => Goto(a, Done(a, p.guest))  BY DEF ForgetResource
  <2>. QED BY <1>a, <1>c, <1>e, <2>1, <2>2, <2>3
<1>8. ~Doubt(a)
  <2>1. Doubt(a) => \/ Goto(a, [p EXCEPT !.pc = "confirm"])
                    \/ Goto(a, [p EXCEPT !.pc = "reconfirm"])
    BY DEF Doubt
  <2>. QED BY <1>a, <1>d, <2>1
<1>9. ~FinalizeStop(a)
  <2>1. FinalizeStop(a) => \/ HostError \/ Goto(a, [p EXCEPT !.pc = "delete"])
                           \/ Goto(a, [p EXCEPT !.pc = "shutdown"])
    BY DEF FinalizeStop
  <2>. QED BY <1>a, <1>c, <1>d, <2>1
<1>10. ~FinalizeShutdown(a)
  <2>1. FinalizeShutdown(a) => \/ AnswerLost \/ HostError \/ Doubt(a)
                               \/ Goto(a, [p EXCEPT !.pc = "delete"])
    BY DEF FinalizeShutdown
  <2>. QED BY <1>a, <1>c, <1>d, <1>8, <2>1
<1>11. CASE FinalizeDelete(a)
  <2>1. \/ AnswerLost \/ HostError \/ Doubt(a) \/ Goto(a, [p EXCEPT !.pc = "forget"])
        \/ guest[p.guest] = "running"
    BY <1>11 DEF FinalizeDelete
  <2>. QED BY <1>a, <1>c, <1>d, <1>8, <2>1
<1>12. CASE FinalizeConfirm(a)
  <2>1. \/ HostError \/ Goto(a, [p EXCEPT !.pc = "forget"]) \/ guest[p.guest] # "absent"
    BY <1>12 DEF FinalizeConfirm, ConfirmAbsent
  <2>. QED BY <1>a, <1>c, <1>d, <2>1
<1>13. ~SweepClaim(a)
  <2>. SUFFICES ASSUME SweepClaim(a) PROVE FALSE  OBVIOUS
  <2>1. PICK b \in p.batch :
          LET rest == [p EXCEPT !.batch = @ \ {b}] IN
          \/ Goto(a, Finalizing([rest EXCEPT !.lease = b.lease, !.prior = b.prior,
                                   !.todo = b.todo, !.failed = FALSE, !.left = {}]))
          \/ Goto(a, rest)
    BY DEF SweepClaim
  <2>. DEFINE rest == [p EXCEPT !.batch = @ \ {b}]
  <2>. DEFINE q == Finalizing([rest EXCEPT !.lease = b.lease, !.prior = b.prior,
                                  !.todo = b.todo, !.failed = FALSE, !.left = {}])
  <2>2. rest.failed = p.failed /\ q.failed = FALSE  BY <1>0 DEF Proc, Finalizing
  <2>3. Goto(a, q) \/ Goto(a, rest)  BY <2>1
  <2>. HIDE DEF q, rest
  <2>. QED BY <1>a, <2>2, <2>3
<1>14. ~SaveLease(a)
  <2>. DEFINE d == [Idle EXCEPT !.pc = "save-destroyed", !.cmd = p.cmd, !.lease = p.lease]
  <2>. DEFINE n == [Idle EXCEPT !.pc = "sweep", !.cmd = p.cmd, !.batch = p.batch]
  <2>1. SaveLease(a) => Goto(a, n) \/ Goto(a, d) \/ Goto(a, Idle)  BY DEF SaveLease
  <2>2. n.failed = FALSE /\ d.failed = FALSE  BY DEF Idle
  <2>. HIDE DEF n, d
  <2>. QED BY <1>a, <1>b, <2>1, <2>2
<1>15. ~(\E m \in Lease : \/ \E c \in {"lease-end", "lease-end-shared"} : EndLoad(a, m, c)
                          \/ DestroyLoad(a, m) \/ AbandonCheck(a, m))
  <2>1. ASSUME NEW m \in Lease, NEW c, EndLoad(a, m, c) PROVE FALSE
    BY <2>1 DEF EndLoad, Start, Goto, Idle, Located, TypeOK
  <2>2. ASSUME NEW m \in Lease, DestroyLoad(a, m) PROVE FALSE
    BY <2>2 DEF DestroyLoad, Start, Goto, Idle, Located, TypeOK
  <2>3. ASSUME NEW m \in Lease, AbandonCheck(a, m) PROVE FALSE
    BY <2>3 DEF AbandonCheck, Start, Goto, Idle, Located, TypeOK
  <2>. QED BY <2>1, <2>2, <2>3
<1>16. ASSUME NEW c, SweepList(a, c) PROVE FALSE
  <2>1. PICK list : Goto(a, [[Idle EXCEPT !.pc = "sweep", !.batch = list] EXCEPT !.cmd = c])
    BY <1>16 DEF SweepList, Start
  <2>. DEFINE q == [[Idle EXCEPT !.pc = "sweep", !.batch = list] EXCEPT !.cmd = c]
  <2>2. q.failed = FALSE  BY DEF Idle
  <2>. HIDE DEF q
  <2>. QED BY <1>a, <2>1, <2>2 DEF q
<1>. QED
  BY <1>4, <1>5, <1>6, <1>7, <1>9, <1>10, <1>11, <1>12, <1>13, <1>14, <1>15, <1>16
  DEF CleanupStep

\* An already-gone guest is success: whoever removed it, the collector, another
\* command or a person, a teardown counts no failure against a guest that is
\* not there unless the host failed a call.
THEOREM GoneCounts == LgSpec => GoneIsSuccess
<1>. DEFINE Loud ==
       \A a \in Actor : ~proc[a].failed /\ proc'[a].failed /\ errors' = errors
                        => guest[proc[a].guest] # "absent"
<1>1. LgInit => IInv  BY InitInv DEF LgInit
<1>2. IInv /\ [LgNext]_lgvars => IInv'  BY LgStep
<1>3. IInv /\ [LgNext]_lgvars => Loud
  <2>. SUFFICES ASSUME IInv, [LgNext]_lgvars, NEW a \in Actor,
                       ~proc[a].failed, proc'[a].failed, errors' = errors
                PROVE  guest[proc[a].guest] # "absent"
    OBVIOUS
  <2>1. ~UNCHANGED proc  OBVIOUS
  <2>2. PICK b \in Actor : Step(b) \/ Crash(b)
    BY <2>1
    DEF LgNext, lgvars, vars, Next, Tick, ByHand, ManualRemove, ManualReclaim
  <2>3. b = a  BY <2>2, StepsOne DEF IInv
  <2>. QED BY <2>2, <2>3, FailsLoudly DEF IInv
<1>4. IInv /\ [LgNext]_lgvars => [Loud]_lgvars  BY <1>3
<1>. QED BY <1>1, <1>2, <1>4, PTL DEF LgSpec, GoneIsSuccess
===============================================================================
