------------------------------ MODULE LabProofs ------------------------------
(***************************************************************************)
(* What holds of Lab for any number of leases, guests and commands: the    *)
(* types, the exclusive claim and the finality of a closed lease.          *)
(***************************************************************************)
EXTENDS LabInv, FiniteSetTheorems, TLAPS

-----------------------------------------------------------------------------
(* Located, split by who owns the variables.                               *)

StoreOK ==
  /\ state \in [Lease -> States]
  /\ expires \in [Lease -> Nat]
  /\ rowid \in [Lease -> [Guest -> Nat]]
  /\ policy \in [Lease -> [Guest -> {"disposable", "retain"}]]
  /\ gone \in [Lease -> [Guest -> BOOLEAN]]

HostOK ==
  /\ guest \in [Guest -> GuestStatus]
  /\ template \in SUBSET Guest
  /\ meta \in [Guest -> [lease : Lease \cup {NoLease}, expiry : Nat]]

EnvOK ==
  /\ now \in Nat \ {0} /\ errors \in Nat /\ crashes \in Nat
  /\ misread \in SUBSET Guest

ProcOK == proc \in [Actor -> Proc] /\ \A a \in Actor : Sound(proc[a])

\* Located is nothing but the four parts, in this state and in the next.
LEMMA LocatedParts ==
  /\ Located <=> StoreOK /\ HostOK /\ EnvOK /\ ProcOK
  /\ Located' <=> StoreOK' /\ HostOK' /\ EnvOK' /\ ProcOK'
  BY DEF Located, TypeOK, StoreOK, HostOK, EnvOK, ProcOK

\* Steps that touch a part only by leaving it alone.
LEMMA StoreStays == ASSUME StoreOK, UNCHANGED store PROVE StoreOK'
  BY DEF StoreOK, store
LEMMA HostStays == ASSUME HostOK, UNCHANGED host PROVE HostOK'
  BY DEF HostOK, host
LEMMA EnvStays == ASSUME EnvOK, UNCHANGED env PROVE EnvOK'
  BY DEF EnvOK, env

-----------------------------------------------------------------------------
(* The statements and seam calls the actions are made of.                  *)

\* store.claim_lease writes a state there is.
LEMMA ClaimLeaseType ==
  ASSUME StoreOK, NEW l \in Lease, NEW from, NEW to \in States, ClaimLease(l, from, to)
  PROVE  StoreOK'
  BY DEF StoreOK, ClaimLease

\* store.set_lease_state likewise.
LEMMA SetLeaseStateType ==
  ASSUME StoreOK, NEW l \in Lease, NEW to \in States, SetLeaseState(l, to)
  PROVE  StoreOK'
  BY DEF StoreOK, SetLeaseState

\* store.heartbeat writes a time.
LEMMA StoreHeartbeatType ==
  ASSUME StoreOK, NEW l \in Lease, NEW e \in Nat, StoreHeartbeat(l, e)
  PROVE  StoreOK'
  BY DEF StoreOK, StoreHeartbeat

\* A row's rank is a natural number, and never the 0 of "no row".
LEMMA RowRank ==
  ASSUME NEW l \in Lease PROVE Cardinality(Rows(l)) + 1 \in Nat \ {0}
  BY GuestAssumption, FS_Subset, FS_CardinalityType DEF Rows

\* store.register_resource inserts a well-formed row.
LEMMA InsertRowType ==
  ASSUME StoreOK, NEW l \in Lease, NEW g \in Guest,
         NEW pol \in {"disposable", "retain"}, InsertRow(l, g, pol)
  PROVE  StoreOK'
<1>. DEFINE n == Cardinality(Rows(l)) + 1
<1>1. n \in Nat  BY RowRank
<1>. HIDE DEF n
<1>2. rowid' = [rowid EXCEPT ![l][g] = n]  BY DEF InsertRow, n
<1>3. rowid' \in [Lease -> [Guest -> Nat]]  BY <1>1, <1>2 DEF StoreOK
<1>4. policy' \in [Lease -> [Guest -> {"disposable", "retain"}]]
  BY DEF StoreOK, InsertRow
<1>. QED BY <1>3, <1>4 DEF StoreOK, InsertRow

\* store.mark_destroyed sets a flag.
LEMMA MarkDestroyedType ==
  ASSUME StoreOK, NEW l \in Lease, NEW g \in Guest, MarkDestroyed(l, g)
  PROVE  StoreOK'
  BY DEF StoreOK, MarkDestroyed

\* A lost answer counts itself; if the call failed on the host too, the host
\* is as before.
LEMMA AnswerLostType == ASSUME EnvOK, AnswerLost PROVE EnvOK'
  BY DEF EnvOK, AnswerLost

\* So does a probe that is misread.
LEMMA MisreadType ==
  ASSUME HostOK, EnvOK, NEW g \in Guest, Misread(g) PROVE HostOK' /\ EnvOK'
  BY DEF HostOK, EnvOK, Misread, host

LEMMA HostErrorType == ASSUME HostOK, EnvOK, HostError PROVE HostOK' /\ EnvOK'
  BY AnswerLostType, HostStays DEF HostError

\* qm start, qm stop.
LEMMA SetGuestType ==
  ASSUME HostOK, NEW g \in Guest, NEW status \in GuestStatus, SetGuest(g, status)
  PROVE  HostOK'
  BY DEF HostOK, SetGuest

\* qm set --description.
LEMMA SetMetaType ==
  ASSUME HostOK, NEW g \in Guest, NEW m \in [lease : Lease \cup {NoLease}, expiry : Nat],
         SetMeta(g, m)
  PROVE  HostOK'
  BY DEF HostOK, SetMeta

\* What is written into a description.
LEMMA StampType ==
  ASSUME NEW l \in Lease, NEW e \in Nat
  PROVE  Stamp(l, e) \in [lease : Lease \cup {NoLease}, expiry : Nat]
  BY DEF Stamp

LEMMA RedatedType ==
  ASSUME NEW l \in Lease, NEW e \in Nat, NEW g
  PROVE  Redated(g, l, e) \in [lease : Lease \cup {NoLease}, expiry : Nat]
  BY DEF Redated, Stamp, Unstamped

\* qm destroy.
LEMMA RemoveGuestType ==
  ASSUME HostOK, NEW g \in Guest, RemoveGuest(g) PROVE HostOK'
  BY DEF HostOK, RemoveGuest, GuestStatus, Unstamped

\* qm create, qm clone.
LEMMA AddGuestType ==
  ASSUME HostOK, NEW g \in Guest,
         NEW m \in [lease : Lease \cup {NoLease}, expiry : Nat], AddGuest(g, m)
  PROVE  HostOK'
  BY DEF HostOK, AddGuest, GuestStatus

-----------------------------------------------------------------------------
(* The statement that moves a command on.                                  *)

\* A command between commands is a sound one.
LEMMA IdleSound == Idle \in Proc /\ Sound(Idle)
  BY DEF Idle, Proc, PcNames, States, Sound, Leaseless, GuestPc, Finalizer

\* Goto keeps the commands sound if the record it writes is.
LEMMA GotoSound ==
  ASSUME ProcOK, NEW a \in Actor, NEW p \in Proc, Sound(p), Goto(a, p)
  PROVE  ProcOK'
<1>1. proc' \in [Actor -> Proc]  BY DEF ProcOK, Goto
<1>2. ASSUME NEW b \in Actor PROVE Sound(proc'[b])
  BY DEF ProcOK, Goto
<1>. QED BY <1>1, <1>2 DEF ProcOK

\* Going back to idle does.
LEMMA GotoIdle == ASSUME ProcOK, NEW a \in Actor, Goto(a, Idle) PROVE ProcOK'
  BY IdleSound, GotoSound

\* Starting a command does, if the record it starts with is sound; a sweep is
\* only once it has its name.
LEMMA StartSound ==
  ASSUME ProcOK, NEW a \in Actor, NEW c, NEW p \in Proc, Sound(p), p.pc # "sweep",
         Start(a, c, p)
  PROVE  ProcOK'
<1>1. c \in CommandNames  BY ScenarioAssumption DEF Start
<1>2. [p EXCEPT !.cmd = c] \in Proc  BY <1>1 DEF Proc
<1>3. Sound([p EXCEPT !.cmd = c])  BY DEF Sound, Proc
<1>. QED BY <1>2, <1>3, GotoSound DEF Start

\* The value of expires_at a command computes.
LEMMA ExpiryType == ASSUME EnvOK, NEW l \in Lease PROVE Expiry(l) \in Nat
  BY BoundAssumption DEF EnvOK, Expiry

-----------------------------------------------------------------------------
(* Located is preserved: leases.py                                         *)

\* Every step of lease-begin, lease-heartbeat and lease-register keeps the
\* variables well typed and the command's lease and guest in place.
LEMMA LeaseStepLocated ==
  ASSUME Located, NEW a \in Actor, LeaseStep(a) PROVE Located'
<1>. USE LocatedParts
<1>. DEFINE p == proc[a]
<1>0. p \in Proc /\ Sound(p)  BY DEF ProcOK
<1>1. ASSUME NEW l \in Lease, BeginInsert(a, l) PROVE Located'
  <2>1. [Idle EXCEPT !.pc = "begun", !.lease = l] \in Proc
    BY IdleSound DEF Proc, PcNames
  <2>2. /\ Sound([Idle EXCEPT !.pc = "begun", !.lease = l])
        /\ [Idle EXCEPT !.pc = "begun", !.lease = l].pc # "sweep"
    BY DEF Idle, Sound, GuestPc, Finalizer
  <2>3. ProcOK'  BY <1>1, <2>1, <2>2, StartSound DEF BeginInsert
  <2>4. StoreOK'  BY <1>1, ExpiryType DEF BeginInsert, StoreOK, States, NonTerminal
  <2>. QED BY <1>1, <2>3, <2>4, HostStays, EnvStays DEF BeginInsert
<1>2. ASSUME NEW l \in Lease, HeartbeatLoad(a, l) PROVE Located'
  <2>. DEFINE q == [Idle EXCEPT !.pc = "hb-store", !.lease = l, !.todo = Undestroyed(l)]
  <2>1. q \in Proc  BY IdleSound DEF Proc, PcNames, Undestroyed, Rows
  <2>2. Sound(q) /\ q.pc # "sweep"  BY DEF Idle, Sound, GuestPc, Finalizer
  <2>3. ProcOK'  BY <1>2, <2>1, <2>2, StartSound DEF HeartbeatLoad
  <2>. QED BY <1>2, <2>3, StoreStays, HostStays, EnvStays DEF HeartbeatLoad, ReadOnly
<1>3. ASSUME NEW l \in Lease, NEW g \in Guest, RegisterCheck(a, l, g) PROVE Located'
  <2>. DEFINE q == [Idle EXCEPT !.pc = "reg-row", !.lease = l, !.guest = g]
  <2>1. q \in Proc  BY IdleSound DEF Proc, PcNames
  <2>2. Sound(q) /\ q.pc # "sweep"  BY DEF Idle, Sound, Finalizer
  <2>3. ProcOK'  BY <1>3, <2>1, <2>2, StartSound DEF RegisterCheck
  <2>. QED BY <1>3, <2>3, StoreStays, HostStays, EnvStays DEF RegisterCheck, ReadOnly
<1>4. CASE BeginPrint(a)
  BY <1>4, GotoIdle, StoreStays, HostStays, EnvStays DEF BeginPrint, ReadOnly
<1>5. CASE BeginFail(a)
  <2>1. p.lease \in Lease  BY <1>0, <1>5 DEF BeginFail, Sound, Leaseless
  <2>2. StoreOK'
    BY <1>5, <2>1, SetLeaseStateType DEF BeginFail, States, Terminal
  <2>3. HostOK' /\ EnvOK'  BY <1>5, HostErrorType, HostStays, EnvStays DEF BeginFail
  <2>. QED BY <1>5, <2>2, <2>3, GotoIdle DEF BeginFail
<1>6. CASE HeartbeatStore(a)
  <2>1. p.lease \in Lease  BY <1>0, <1>6 DEF HeartbeatStore, Sound, Leaseless
  <2>2. now + TTL \in Nat  BY BoundAssumption DEF EnvOK
  <2>. DEFINE q == [p EXCEPT !.pc = "hb-stamp", !.at = now + TTL]
  <2>3. q \in Proc  BY <1>0, <2>2 DEF Proc, PcNames
  <2>4. Sound(q)  BY <1>0, <2>1 DEF Proc, Sound, GuestPc, Finalizer
  <2>5. ProcOK'  BY <1>6, <2>3, <2>4, GotoSound, GotoIdle DEF HeartbeatStore
  <2>6. StoreOK'  BY <1>6, <2>1, <2>2, StoreHeartbeatType DEF HeartbeatStore
  <2>. QED BY <1>6, <2>5, <2>6, HostStays, EnvStays DEF HeartbeatStore
<1>7. CASE HeartbeatStamp(a)
  <2>1. p.lease \in Lease /\ p.at \in Nat /\ p.todo \subseteq Guest
    BY <1>0, <1>7 DEF HeartbeatStamp, Sound, Leaseless, Proc
  <2>2. PICK g \in p.todo :
          \/ /\ SetMeta(g, Redated(g, p.lease, p.at))
             /\ \/ UNCHANGED env /\ Goto(a, [p EXCEPT !.todo = @ \ {g}])
                \/ AnswerLost /\ Goto(a, Idle)
          \/ HostError /\ Goto(a, Idle)
    BY <1>7 DEF HeartbeatStamp
  <2>. DEFINE q == [p EXCEPT !.todo = @ \ {g}]
  <2>3. q \in Proc  BY <1>0 DEF Proc
  <2>4. Sound(q)  BY <1>0 DEF Proc, Sound
  <2>5. ProcOK'  BY <2>2, <2>3, <2>4, GotoSound, GotoIdle
  <2>6. HostOK'  BY <2>1, <2>2, RedatedType, SetMetaType, HostStays DEF HostError
  <2>7. EnvOK'  BY <2>2, AnswerLostType, EnvStays DEF HostError
  <2>. QED BY <1>7, <2>5, <2>6, <2>7, StoreStays DEF HeartbeatStamp
<1>8. CASE HeartbeatDone(a)
  BY <1>8, GotoIdle, StoreStays, HostStays, EnvStays DEF HeartbeatDone, ReadOnly
<1>9. CASE RegisterRow(a)
  <2>1. p.lease \in Lease /\ p.guest \in Guest
    BY <1>0, <1>9 DEF RegisterRow, Sound, Leaseless, GuestPc
  <2>2. \A c \in {"reg-stamp", "reg-beat"} :
          [p EXCEPT !.pc = c, !.at = Expiry(p.lease)] \in Proc
    BY <1>0, <2>1, ExpiryType DEF Proc, PcNames
  <2>3. \A c \in {"reg-stamp", "reg-beat"} :
          Sound([p EXCEPT !.pc = c, !.at = Expiry(p.lease)])
    BY <1>0, <2>1 DEF Proc, Sound, Finalizer
  <2>4. ProcOK'  BY <1>9, <2>2, <2>3, GotoSound DEF RegisterRow
  <2>5. StoreOK'
    BY <1>9, <2>1, InsertRowType, StoreStays, ScenarioAssumption DEF RegisterRow
  <2>. QED BY <1>9, <2>4, <2>5, HostStays, EnvStays DEF RegisterRow
<1>10. CASE RegisterBeat(a)
  <2>1. p.lease \in Lease /\ p.guest \in Guest /\ p.at \in Nat
    BY <1>0, <1>10 DEF RegisterBeat, Sound, Leaseless, GuestPc, Proc
  <2>. DEFINE q == [p EXCEPT !.pc = "reg-stamp"]
  <2>2. q \in Proc  BY <1>0 DEF Proc, PcNames
  <2>3. Sound(q)  BY <1>0, <2>1 DEF Proc, Sound, Finalizer
  <2>4. ProcOK'  BY <1>10, <2>2, <2>3, GotoSound DEF RegisterBeat
  <2>5. StoreOK'  BY <1>10, <2>1, StoreHeartbeatType DEF RegisterBeat
  <2>. QED BY <1>10, <2>4, <2>5, HostStays, EnvStays DEF RegisterBeat
<1>11. CASE RegisterStamp(a)
  <2>1. p.lease \in Lease /\ p.guest \in Guest /\ p.at \in Nat
    BY <1>0, <1>11 DEF RegisterStamp, Sound, Leaseless, GuestPc, Proc
  <2>2. HostOK'
    BY <1>11, <2>1, StampType, SetMetaType, HostStays DEF RegisterStamp, HostError
  <2>3. EnvOK'  BY <1>11, AnswerLostType, EnvStays DEF RegisterStamp, HostError
  <2>. QED BY <1>11, <2>2, <2>3, GotoIdle, StoreStays DEF RegisterStamp
<1>. QED
  BY <1>1, <1>2, <1>3, <1>4, <1>5, <1>6, <1>7, <1>8, <1>9, <1>10, <1>11 DEF LeaseStep

-----------------------------------------------------------------------------
(* Located is preserved: guest.py                                          *)

\* A gate of guest.py only picks the lease and the guest and starts.
LEMMA GateLocated ==
  ASSUME Located, NEW a \in Actor, NEW l \in Lease, NEW g \in Guest, NEW c,
         NEW pc \in {"start", "halt", "gd-check", "convert"},
         Start(a, c, [Idle EXCEPT !.pc = pc, !.lease = l, !.guest = g]), ReadOnly
  PROVE  Located'
<1>. USE LocatedParts
<1>. DEFINE q == [Idle EXCEPT !.pc = pc, !.lease = l, !.guest = g]
<1>1. q \in Proc  BY IdleSound DEF Proc, PcNames
<1>2. Sound(q) /\ q.pc # "sweep"  BY DEF Idle, Sound, Finalizer
<1>3. ProcOK'  BY <1>1, <1>2, StartSound
<1>. QED BY <1>3, StoreStays, HostStays, EnvStays DEF ReadOnly

\* guest create and guest clone keep the types.
LEMMA CreateLocated ==
  ASSUME Located, NEW a \in Actor,
         \/ \E l \in Lease, g \in Guest, c \in {"guest-create", "guest-clone"} :
              CreateLoad(a, l, g, c)
         \/ CreateFresh(a) \/ CreateClone(a) \/ CreateRefused(a)
         \/ CloneStamp(a) \/ CreateRow(a)
  PROVE  Located'
<1>. USE LocatedParts
<1>. DEFINE p == proc[a]
<1>0. p \in Proc /\ Sound(p)  BY DEF ProcOK
<1>a. p.pc \in {"create", "clone-stamp", "create-row"}
      => p.lease \in Lease /\ p.guest \in Guest /\ p.at \in Nat
  BY <1>0 DEF Sound, Leaseless, GuestPc, Proc
<1>b. ASSUME p.pc \in {"create", "clone-stamp", "create-row"},
             NEW c \in {"clone-stamp", "create-row", "create-start"}
      PROVE  [p EXCEPT !.pc = c] \in Proc /\ Sound([p EXCEPT !.pc = c])
  <2>1. [p EXCEPT !.pc = c] \in Proc  BY <1>0 DEF Proc, PcNames
  <2>2. Sound([p EXCEPT !.pc = c])  BY <1>0, <1>a, <1>b DEF Proc, Sound, Finalizer
  <2>. QED BY <2>1, <2>2
<1>1. ASSUME NEW l \in Lease, NEW g \in Guest, NEW c, CreateLoad(a, l, g, c)
      PROVE Located'
  <2>. DEFINE q == [Idle EXCEPT !.pc = "create", !.lease = l, !.guest = g,
                                !.at = expires[l]]
  <2>1. q \in Proc  BY IdleSound DEF Proc, PcNames, StoreOK
  <2>2. Sound(q) /\ q.pc # "sweep"  BY DEF Idle, Sound, Finalizer
  <2>3. ProcOK'  BY <1>1, <2>1, <2>2, StartSound DEF CreateLoad
  <2>. QED BY <1>1, <2>3, StoreStays, HostStays, EnvStays DEF CreateLoad, ReadOnly
<1>2. CASE CreateFresh(a)
  <2>1. ProcOK'  BY <1>2, <1>b, GotoSound, GotoIdle DEF CreateFresh
  <2>2. Unstamped \in [lease : Lease \cup {NoLease}, expiry : Nat]  BY DEF Unstamped
  <2>3. HostOK'  BY <1>2, <1>a, <2>2, StampType, AddGuestType DEF CreateFresh
  <2>4. EnvOK'  BY <1>2, AnswerLostType, EnvStays DEF CreateFresh
  <2>. QED BY <1>2, <2>1, <2>3, <2>4, StoreStays DEF CreateFresh
<1>3. CASE CreateClone(a)
  <2>1. ProcOK'  BY <1>3, <1>b, GotoSound, GotoIdle DEF CreateClone
  <2>2. HostOK'  BY <1>3, <1>a, AddGuestType DEF CreateClone, HostOK
  <2>3. EnvOK'  BY <1>3, AnswerLostType, EnvStays DEF CreateClone
  <2>. QED BY <1>3, <2>1, <2>2, <2>3, StoreStays DEF CreateClone
<1>4. CASE CreateRefused(a)
  BY <1>4, GotoIdle, HostErrorType, StoreStays, HostStays, EnvStays DEF CreateRefused
<1>5. CASE CloneStamp(a)
  <2>1. ProcOK'  BY <1>5, <1>b, GotoSound, GotoIdle DEF CloneStamp
  <2>2. HostOK'
    BY <1>5, <1>a, StampType, SetMetaType, HostStays DEF CloneStamp, HostError
  <2>3. EnvOK'  BY <1>5, AnswerLostType, EnvStays DEF CloneStamp, HostError
  <2>. QED BY <1>5, <2>1, <2>2, <2>3, StoreStays DEF CloneStamp
<1>6. CASE CreateRow(a)
  <2>1. ProcOK'  BY <1>6, <1>b, GotoSound, GotoIdle DEF CreateRow
  <2>2. StoreOK'  BY <1>6, <1>a, InsertRowType, StoreStays DEF CreateRow
  <2>. QED BY <1>6, <2>1, <2>2, HostStays, EnvStays DEF CreateRow
<1>. QED BY <1>1, <1>2, <1>3, <1>4, <1>5, <1>6

\* guest start, stop, destroy and template keep the types.
LEMMA GuestOpLocated ==
  ASSUME Located, NEW a \in Actor,
         \/ StartGuest(a) \/ StopGuest(a) \/ ConvertGuest(a)
         \/ DestroyCheck(a) \/ DestroyStop(a) \/ DestroyDelete(a) \/ DestroyMark(a)
  PROVE  Located'
<1>. USE LocatedParts
<1>. DEFINE p == proc[a]
<1>0. p \in Proc /\ Sound(p)  BY DEF ProcOK
<1>a. p.pc \in {"start", "create-start", "halt", "convert",
                "gd-check", "gd-stop", "gd-delete", "gd-mark"}
      => p.lease \in Lease /\ p.guest \in Guest
  BY <1>0 DEF Sound, Leaseless, GuestPc
<1>b. ASSUME p.pc \in {"gd-check", "gd-stop", "gd-delete"},
             NEW c \in {"gd-stop", "gd-delete", "gd-mark"}
      PROVE  [p EXCEPT !.pc = c] \in Proc /\ Sound([p EXCEPT !.pc = c])
  <2>1. [p EXCEPT !.pc = c] \in Proc  BY <1>0 DEF Proc, PcNames
  <2>2. Sound([p EXCEPT !.pc = c])  BY <1>0, <1>a, <1>b DEF Proc, Sound, Finalizer
  <2>. QED BY <2>1, <2>2
<1>1. CASE StartGuest(a)
  <2>1. HostOK'
    BY <1>1, <1>a, SetGuestType, HostStays DEF StartGuest, GuestStatus, HostError
  <2>2. EnvOK'  BY <1>1, AnswerLostType, EnvStays DEF StartGuest, HostError
  <2>. QED BY <1>1, <2>1, <2>2, GotoIdle, StoreStays DEF StartGuest
<1>2. CASE StopGuest(a)
  <2>1. HostOK'
    BY <1>2, <1>a, SetGuestType, HostStays DEF StopGuest, GuestStatus, HostError
  <2>2. EnvOK'  BY <1>2, AnswerLostType, EnvStays DEF StopGuest, HostError
  <2>. QED BY <1>2, <2>1, <2>2, GotoIdle, StoreStays DEF StopGuest
<1>3. CASE ConvertGuest(a)
  <2>1. ASSUME template' = template \cup {p.guest}, UNCHANGED <<guest, meta>>
        PROVE  HostOK'
    BY <1>3, <1>a, <2>1 DEF ConvertGuest, HostOK
  <2>2. HostOK'  BY <1>3, <2>1, HostStays DEF ConvertGuest, HostError
  <2>3. EnvOK'  BY <1>3, AnswerLostType, EnvStays DEF ConvertGuest, HostError
  <2>. QED BY <1>3, <2>2, <2>3, GotoIdle, StoreStays DEF ConvertGuest
<1>4. CASE DestroyCheck(a)
  <2>1. ProcOK'  BY <1>4, <1>b, GotoSound, GotoIdle DEF DestroyCheck
  <2>2. HostOK' /\ EnvOK'
    BY <1>4, HostErrorType, HostStays, EnvStays DEF DestroyCheck
  <2>. QED BY <1>4, <2>1, <2>2, StoreStays DEF DestroyCheck
<1>5. CASE DestroyStop(a)
  <2>1. ProcOK'  BY <1>5, <1>b, GotoSound, GotoIdle DEF DestroyStop
  <2>2. HostOK'
    BY <1>5, <1>a, SetGuestType, HostStays DEF DestroyStop, GuestStatus, HostError
  <2>3. EnvOK'  BY <1>5, AnswerLostType, EnvStays DEF DestroyStop, HostError
  <2>. QED BY <1>5, <2>1, <2>2, <2>3, StoreStays DEF DestroyStop
<1>6. CASE DestroyDelete(a)
  <2>1. ProcOK'  BY <1>6, <1>b, GotoSound, GotoIdle DEF DestroyDelete
  <2>2. HostOK'
    BY <1>6, <1>a, RemoveGuestType, HostStays DEF DestroyDelete, HostError
  <2>3. EnvOK'  BY <1>6, AnswerLostType, EnvStays DEF DestroyDelete, HostError
  <2>. QED BY <1>6, <2>1, <2>2, <2>3, StoreStays DEF DestroyDelete
<1>7. CASE DestroyMark(a)
  BY <1>7, <1>a, MarkDestroyedType, GotoIdle, HostStays, EnvStays DEF DestroyMark
<1>. QED BY <1>1, <1>2, <1>3, <1>4, <1>5, <1>6, <1>7

\* Every step of guest.py keeps the types.
LEMMA GuestStepLocated ==
  ASSUME Located, NEW a \in Actor, GuestStep(a) PROVE Located'
<1>1. ASSUME NEW l \in Lease, NEW g \in Guest,
             \/ StartGate(a, l, g) \/ StopGate(a, l, g)
             \/ DestroyGate(a, l, g) \/ TemplateGate(a, l, g)
      PROVE  Located'
  BY <1>1, GateLocated DEF StartGate, StopGate, DestroyGate, TemplateGate
<1>. QED BY <1>1, CreateLocated, GuestOpLocated DEF GuestStep

-----------------------------------------------------------------------------
(* Located is preserved: cleanup.py                                        *)

\* The commands of cleanup.py up to the point where they hold a claim.
LEMMA LoadLocated ==
  ASSUME Located, NEW a \in Actor,
         \/ \E l \in Lease, c \in {"lease-end", "lease-end-shared"} : EndLoad(a, l, c)
         \/ \E l \in Lease : DestroyLoad(a, l) \/ AbandonCheck(a, l)
         \/ \E c \in Sweeps : SweepList(a, c)
  PROVE  Located'
<1>. USE LocatedParts
<1>1. ASSUME NEW l \in Lease, state[l] \in OpenState, NEW c, ReadOnly,
             Start(a, c, [Idle EXCEPT !.pc = "claim", !.lease = l,
                                      !.prior = state[l], !.todo = Undestroyed(l)])
      PROVE  Located'
  <2>. DEFINE q == [Idle EXCEPT !.pc = "claim", !.lease = l, !.prior = state[l],
                                !.todo = Undestroyed(l)]
  <2>1. q \in Proc  BY IdleSound DEF Proc, PcNames, StoreOK, Undestroyed, Rows
  <2>2. Sound(q) /\ q.pc # "sweep"  BY <1>1 DEF Idle, Sound, GuestPc
  <2>3. ProcOK'  BY <1>1, <2>1, <2>2, StartSound
  <2>. QED BY <1>1, <2>3, StoreStays, HostStays, EnvStays DEF ReadOnly
<1>2. ASSUME NEW l \in Lease, NEW c, EndLoad(a, l, c) PROVE Located'
  BY <1>1, <1>2 DEF EndLoad, OpenState
<1>3. ASSUME NEW l \in Lease, DestroyLoad(a, l) PROVE Located'
  BY <1>1, <1>3 DEF DestroyLoad, OpenState
<1>4. ASSUME NEW l \in Lease, AbandonCheck(a, l) PROVE Located'
  <2>. DEFINE q == [Idle EXCEPT !.pc = "abandon-claim", !.lease = l, !.prior = state[l]]
  <2>1. q \in Proc  BY IdleSound DEF Proc, PcNames, StoreOK
  <2>2. Sound(q) /\ q.pc # "sweep"  BY <1>4 DEF AbandonCheck, OpenState, Idle, Sound, GuestPc
  <2>3. ProcOK'  BY <1>4, <2>1, <2>2, StartSound DEF AbandonCheck
  <2>4. PICK unread \in SUBSET Rows(l) : errors' = errors + Cardinality(unread)
    BY <1>4 DEF AbandonCheck
  <2>5. Cardinality(unread) \in Nat
    BY <2>4, GuestAssumption, FS_Subset, FS_CardinalityType DEF Rows
  <2>6. UNCHANGED <<store, host, now, crashes, misread>>  BY <1>4 DEF AbandonCheck
  <2>7. EnvOK'  BY <2>4, <2>5, <2>6 DEF EnvOK
  <2>. QED BY <2>3, <2>6, <2>7, StoreStays, HostStays
<1>5. ASSUME NEW c \in Sweeps, SweepList(a, c) PROVE Located'
  <2>. DEFINE batch == {[lease |-> l, prior |-> state[l], todo |-> Undestroyed(l)] :
                          l \in {m \in Lease : SweepCandidate(m, c = "cleanup-all")}}
  <2>. DEFINE q == [Idle EXCEPT !.pc = "sweep", !.batch = batch]
  <2>1. \A m \in Lease : SweepCandidate(m, c = "cleanup-all") => state[m] \in OpenState
    BY DEF SweepCandidate, OpenState
  <2>2. batch \subseteq Snapshot /\ \A b \in batch : b.prior \in OpenState
    BY <2>1 DEF Snapshot, NonTerminal, OpenState, Undestroyed, Rows
  <2>. HIDE DEF batch
  <2>. DEFINE r == [q EXCEPT !.cmd = c]
  <2>3. r \in Proc  BY <2>2, IdleSound DEF Proc, PcNames, Sweeps, CommandNames
  <2>4. Sound(r)  BY <2>2 DEF Idle, Sound, GuestPc, Finalizer, Leaseless
  <2>5. ProcOK'  BY <1>5, <2>3, <2>4, GotoSound DEF SweepList, Start, batch
  <2>. QED BY <1>5, <2>5, StoreStays, HostStays, EnvStays DEF SweepList, ReadOnly
<1>. QED BY <1>2, <1>3, <1>4, <1>5

\* What a command that holds a lease may rely on.
LEMMA HolderSound ==
  ASSUME Located, NEW a \in Actor,
         proc[a].pc \in Finalizer \cup {"claim", "abandon-claim", "save-destroyed"}
  PROVE  /\ proc[a].lease \in Lease
         /\ proc[a].pc # "save-destroyed" => proc[a].prior \in OpenState
         /\ proc[a].pc \in {"stop", "shutdown", "delete", "confirm", "reconfirm", "forget"}
            => proc[a].guest \in Guest
  BY DEF Located, Sound, Leaseless, GuestPc, Finalizer

\* From one point of the teardown to another; only those that work on one
\* guest need it.
LEMMA MoveSound ==
  ASSUME Located, NEW a \in Actor, proc[a].pc \in Finalizer \cup {"claim"},
         NEW c \in Finalizer,
         c \in {"stop", "shutdown", "delete", "confirm", "reconfirm", "forget"}
         => proc[a].guest \in Guest
  PROVE  /\ [proc[a] EXCEPT !.pc = c] \in Proc
         /\ Sound([proc[a] EXCEPT !.pc = c])
<1>1. proc[a] \in Proc /\ Sound(proc[a])  BY DEF Located, TypeOK
<1>2. c \in PcNames  BY DEF Finalizer, PcNames
<1>3. [proc[a] EXCEPT !.pc = c] \in Proc  BY <1>1, <1>2 DEF Proc
<1>4. Sound([proc[a] EXCEPT !.pc = c])
  BY <1>1, HolderSound DEF Proc, Sound, GuestPc, Finalizer
<1>. QED BY <1>3, <1>4

\* The three ways a teardown is done with a guest.
LEMMA DoneSound ==
  ASSUME Located, NEW a \in Actor, proc[a].pc \in Finalizer, NEW g \in Guest
  PROVE  /\ Done(a, g) \in Proc /\ Sound(Done(a, g))
         /\ Leave(a, g) \in Proc /\ Sound(Leave(a, g))
         /\ Fail(a, g) \in Proc /\ Sound(Fail(a, g))
<1>1. proc[a] \in Proc /\ Sound(proc[a])  BY DEF Located, TypeOK
<1>2. Done(a, g) \in Proc  BY <1>1 DEF Proc, PcNames, Done
<1>3. Sound(Done(a, g))
  BY <1>1, HolderSound DEF Proc, Sound, GuestPc, Finalizer, Done
<1>4. Leave(a, g) \in Proc  BY <1>2 DEF Proc, Leave
<1>5. Sound(Leave(a, g))  BY <1>2, <1>3 DEF Proc, Leave, Sound
<1>6. Fail(a, g) \in Proc  BY <1>2 DEF Proc, Fail
<1>7. Sound(Fail(a, g))  BY <1>2, <1>3 DEF Proc, Fail, Sound
<1>. QED BY <1>2, <1>3, <1>4, <1>5, <1>6, <1>7

\* finalize_lease begins.
LEMMA FinalizingSound ==
  ASSUME EnvOK, NEW q \in Proc, Sound(q), q.lease \in Lease, q.prior \in OpenState
  PROVE  Finalizing(q) \in Proc /\ Sound(Finalizing(q))
<1>1. Finalizing(q) \in Proc  BY DEF Proc, PcNames, Finalizing, EnvOK
<1>2. Sound(Finalizing(q))  BY DEF Proc, Sound, GuestPc, Finalizer, Finalizing
<1>. QED BY <1>1, <1>2

\* The claims, the release and the loops of cleanup.py keep the types.
LEMMA ClaimLocated ==
  ASSUME Located, NEW a \in Actor,
         \/ EndClaim(a) \/ EndShared(a) \/ EndRelease(a) \/ AbandonClaim(a)
         \/ SweepClaim(a) \/ SweepDone(a) \/ Unprotect(a) \/ SaveDestroyed(a)
  PROVE  Located'
<1>. USE LocatedParts
<1>. DEFINE p == proc[a]
<1>0. p \in Proc /\ Sound(p)  BY DEF ProcOK
<1>a. "ending" \in States /\ "abandoned" \in States /\ "destroyed" \in States
      /\ OpenState \subseteq States
  BY DEF States, NonTerminal, Terminal, OpenState
<1>1. CASE EndClaim(a)
  <2>1. p.lease \in Lease  BY <1>1, HolderSound DEF EndClaim
  <2>2. StoreOK'  BY <1>1, <1>a, <2>1, ClaimLeaseType, StoreStays DEF EndClaim
  <2>3. ProcOK'
    BY <1>1, MoveSound, GotoSound, GotoIdle DEF EndClaim, Finalizer
  <2>. QED BY <1>1, <2>2, <2>3, HostStays, EnvStays DEF EndClaim
<1>2. CASE EndShared(a)
  <2>1. p.lease \in Lease /\ p.prior \in OpenState
    BY <1>2, HolderSound DEF EndShared, Finalizer
  <2>2. [p EXCEPT !.pc = "release"] \in Proc /\ Sound([p EXCEPT !.pc = "release"])
    BY <1>2, MoveSound DEF EndShared, Finalizer
  <2>3. ProcOK'
    BY <1>0, <1>2, <2>1, <2>2, FinalizingSound, GotoSound DEF EndShared
  <2>. QED BY <1>2, <2>3, StoreStays, HostStays, EnvStays DEF EndShared, ReadOnly
<1>3. CASE EndRelease(a)
  <2>1. p.lease \in Lease /\ p.prior \in OpenState
    BY <1>3, HolderSound DEF EndRelease, Finalizer
  <2>2. StoreOK'  BY <1>3, <1>a, <2>1, ClaimLeaseType, StoreStays DEF EndRelease
  <2>. QED BY <1>3, <2>2, GotoIdle, HostStays, EnvStays DEF EndRelease
<1>4. CASE AbandonClaim(a)
  <2>1. p.lease \in Lease  BY <1>4, HolderSound DEF AbandonClaim
  <2>2. StoreOK'  BY <1>4, <1>a, <2>1, ClaimLeaseType, StoreStays DEF AbandonClaim
  <2>. QED BY <1>4, <2>2, GotoIdle, HostStays, EnvStays DEF AbandonClaim
<1>5. CASE SweepClaim(a)
  <2>1. PICK b \in p.batch :
          LET rest == [p EXCEPT !.batch = @ \ {b}] IN
          \/ /\ ClaimLease(b.lease, b.prior, "ending")
             /\ Goto(a, Finalizing([rest EXCEPT !.lease = b.lease, !.prior = b.prior,
                                                !.todo = b.todo, !.failed = FALSE,
                                                !.left = {}]))
          \/ state[b.lease] # b.prior /\ UNCHANGED store /\ Goto(a, rest)
    BY <1>5 DEF SweepClaim
  <2>. DEFINE rest == [p EXCEPT !.batch = @ \ {b}]
  <2>. DEFINE q == [rest EXCEPT !.lease = b.lease, !.prior = b.prior,
                                !.todo = b.todo, !.failed = FALSE, !.left = {}]
  <2>2. b \in Snapshot /\ b.prior \in OpenState  BY <1>0 DEF Proc, Sound
  <2>3. b.lease \in Lease /\ b.prior \in States /\ b.todo \subseteq Guest
    BY <2>2, <1>a DEF Snapshot
  <2>4. p.pc = "sweep"  BY <1>5 DEF SweepClaim
  <2>5. rest \in Proc  BY <1>0 DEF Proc
  <2>6. Sound(rest)  BY <1>0 DEF Proc, Sound
  <2>7. q \in Proc  BY <2>3, <2>5 DEF Proc
  <2>8. Sound(q) /\ q.lease \in Lease /\ q.prior \in OpenState
    BY <2>2, <2>3, <2>4, <2>5, <2>6 DEF Proc, Sound, Leaseless, GuestPc, Finalizer
  <2>9. ProcOK'
    BY <2>1, <2>5, <2>6, <2>7, <2>8, FinalizingSound, GotoSound
  <2>10. StoreOK'  BY <1>a, <2>1, <2>3, ClaimLeaseType, StoreStays
  <2>. QED BY <1>5, <2>9, <2>10, HostStays, EnvStays DEF SweepClaim
<1>6. CASE SweepDone(a)
  BY <1>6, GotoIdle, StoreStays, HostStays, EnvStays DEF SweepDone, ReadOnly
<1>7. CASE Unprotect(a)
  <2>1. p.lease \in Lease /\ p.prior \in OpenState /\ p.todo \subseteq Guest
    BY <1>0, <1>7, HolderSound DEF Unprotect, Finalizer, Proc
  <2>2. ProcOK'  BY <1>0, <1>7, <2>1, FinalizingSound, GotoSound DEF Unprotect
  <2>3. PICK reached \in SUBSET p.todo, lost \in SUBSET p.todo :
          /\ meta' = [g \in Guest |->
                        IF g \in reached THEN Redated(g, p.lease, now - 1) ELSE meta[g]]
          /\ UNCHANGED <<guest, template>>
          /\ errors' = errors + Cardinality(lost)
    BY <1>7 DEF Unprotect
  <2>4. now - 1 \in Nat  BY DEF EnvOK
  <2>5. HostOK'  BY <2>1, <2>3, <2>4, RedatedType DEF HostOK
  <2>6. Cardinality(lost) \in Nat
    BY <2>1, GuestAssumption, FS_Subset, FS_CardinalityType
  <2>7. EnvOK'  BY <1>7, <2>3, <2>6 DEF EnvOK, Unprotect
  <2>. QED BY <1>7, <2>2, <2>5, <2>7, StoreStays DEF Unprotect
<1>8. CASE SaveDestroyed(a)
  <2>1. p.lease \in Lease  BY <1>8, HolderSound DEF SaveDestroyed
  <2>2. StoreOK'  BY <1>8, <1>a, <2>1, SetLeaseStateType DEF SaveDestroyed
  <2>. QED BY <1>8, <2>2, GotoIdle, HostStays, EnvStays DEF SaveDestroyed
<1>. QED BY <1>1, <1>2, <1>3, <1>4, <1>5, <1>6, <1>7, <1>8

\* The loop over the resources keeps the types.
LEMMA FinalizeLocated ==
  ASSUME Located, NEW a \in Actor,
         \/ FinalizeNext(a) \/ FinalizeTemplate(a) \/ FinalizeStop(a)
         \/ FinalizeShutdown(a) \/ FinalizeDelete(a) \/ FinalizeConfirm(a)
         \/ ForgetResource(a) \/ SaveLease(a)
  PROVE  Located'
<1>. USE LocatedParts
<1>. DEFINE p == proc[a]
<1>0. p \in Proc /\ Sound(p)  BY DEF ProcOK
<1>a. p.pc \in Finalizer
  BY DEF FinalizeNext, FinalizeTemplate, FinalizeStop, FinalizeShutdown,
         FinalizeDelete, FinalizeConfirm, ForgetResource, SaveLease, Finalizer
<1>b. p.lease \in Lease  BY <1>a, HolderSound
<1>c. p.pc \in {"stop", "shutdown", "delete", "confirm", "reconfirm", "forget"} => p.guest \in Guest
  BY <1>a, HolderSound
<1>d. ASSUME NEW c \in {"stop", "shutdown", "delete", "confirm", "reconfirm", "forget"},
             p.guest \in Guest
      PROVE  [p EXCEPT !.pc = c] \in Proc /\ Sound([p EXCEPT !.pc = c])
  BY <1>a, <1>d, MoveSound DEF Finalizer
<1>1. CASE FinalizeNext(a)
  <2>1. PICK g \in Guest :
          Goto(a, IF OwnerElsewhere(p.lease, g, p.at)
                  THEN Leave(a, g)
                  ELSE IF policy[p.lease][g] # "disposable"
                       THEN Done(a, g)
                       ELSE [p EXCEPT !.pc = "stop", !.guest = g])
    BY <1>1 DEF FinalizeNext
  <2>. DEFINE q == [p EXCEPT !.pc = "stop", !.guest = g]
  <2>2. q \in Proc  BY <1>0 DEF Proc, PcNames
  <2>3. p.prior \in OpenState  BY <1>a, HolderSound DEF Finalizer
  <2>4. Sound(q)  BY <1>0, <1>b, <2>3 DEF Proc, Sound
  <2>5. ProcOK'  BY <1>a, <2>1, <2>2, <2>4, DoneSound, GotoSound
  <2>. QED BY <1>1, <2>5, StoreStays, HostStays, EnvStays DEF FinalizeNext, ReadOnly
<1>2. CASE FinalizeTemplate(a)
  <2>1. p.guest \in Guest  BY <1>2, <1>c DEF FinalizeTemplate
  <2>2. ProcOK'
    BY <1>2, <1>a, <1>d, <2>1, DoneSound, GotoSound DEF FinalizeTemplate
  <2>. QED
    BY <1>2, <2>2, StoreStays, HostErrorType, HostStays, EnvStays DEF FinalizeTemplate
<1>3. CASE FinalizeStop(a)
  <2>1. p.guest \in Guest  BY <1>3, <1>c DEF FinalizeStop
  <2>2. ProcOK'
    BY <1>3, <1>a, <1>d, <2>1, DoneSound, GotoSound DEF FinalizeStop
  <2>. QED
    BY <1>3, <2>2, StoreStays, HostErrorType, HostStays, EnvStays DEF FinalizeStop
<1>4. CASE FinalizeShutdown(a)
  <2>1. p.guest \in Guest  BY <1>4, <1>c DEF FinalizeShutdown
  <2>2. ProcOK'
    BY <1>4, <1>a, <1>d, <2>1, DoneSound, GotoSound DEF FinalizeShutdown, Doubt
  <2>3. HostOK'
    BY <1>4, <2>1, SetGuestType, HostStays DEF FinalizeShutdown, GuestStatus, HostError
  <2>4. EnvOK'  BY <1>4, AnswerLostType, EnvStays DEF FinalizeShutdown, HostError
  <2>. QED BY <1>4, <2>2, <2>3, <2>4, StoreStays DEF FinalizeShutdown
<1>5. CASE FinalizeDelete(a)
  <2>1. p.guest \in Guest  BY <1>5, <1>c DEF FinalizeDelete
  <2>2. ProcOK'
    BY <1>5, <1>a, <1>d, <2>1, DoneSound, GotoSound DEF FinalizeDelete, Doubt
  <2>3. HostOK'
    BY <1>5, <2>1, RemoveGuestType, HostStays DEF FinalizeDelete, HostError
  <2>4. EnvOK'  BY <1>5, AnswerLostType, EnvStays DEF FinalizeDelete, HostError
  <2>. QED BY <1>5, <2>2, <2>3, <2>4, StoreStays DEF FinalizeDelete
<1>8. CASE FinalizeConfirm(a)
  <2>1. p.guest \in Guest  BY <1>8, <1>c DEF FinalizeConfirm
  <2>2. ProcOK'
    BY <1>8, <1>a, <1>d, <2>1, DoneSound, GotoSound DEF FinalizeConfirm
  <2>3. (UNCHANGED <<host, env>>) \/ HostError \/ Misread(p.guest)
    BY <1>8 DEF FinalizeConfirm
  <2>4. HostOK' /\ EnvOK'
    BY <2>1, <2>3, HostErrorType, MisreadType, HostStays, EnvStays
  <2>. QED BY <1>8, <2>2, <2>4, StoreStays DEF FinalizeConfirm
<1>6. CASE ForgetResource(a)
  <2>1. p.guest \in Guest  BY <1>6, <1>c DEF ForgetResource
  <2>2. ProcOK'  BY <1>6, <1>a, <2>1, DoneSound, GotoSound DEF ForgetResource
  <2>3. StoreOK'  BY <1>6, <2>1 DEF ForgetResource, StoreOK
  <2>. QED BY <1>6, <2>2, <2>3, HostStays, EnvStays DEF ForgetResource
<1>7. CASE SaveLease(a)
  <2>1. StoreOK'
    BY <1>7, <1>b, SetLeaseStateType DEF SaveLease, States, NonTerminal, Terminal
  <2>. DEFINE q == [Idle EXCEPT !.pc = "sweep", !.cmd = p.cmd, !.batch = p.batch]
  <2>. DEFINE d == [Idle EXCEPT !.pc = "save-destroyed", !.cmd = p.cmd,
                                !.lease = p.lease]
  <2>2. q \in Proc  BY <1>0, IdleSound DEF Proc, PcNames
  <2>3. p.cmd \in Sweeps => Sound(q)
    BY <1>0 DEF Idle, Sound, GuestPc, Finalizer, Leaseless
  <2>4. d \in Proc  BY <1>0, <1>b, IdleSound DEF Proc, PcNames
  <2>5. Sound(d)  BY <1>b DEF Idle, Sound, GuestPc, Finalizer
  <2>6. (Goto(a, q) /\ p.cmd \in Sweeps) \/ Goto(a, d) \/ Goto(a, Idle)
    BY <1>7 DEF SaveLease, Sweeps
  <2>7. ProcOK'  BY <2>2, <2>3, <2>4, <2>5, <2>6, GotoSound, GotoIdle
  <2>. QED BY <1>7, <2>1, <2>7, HostStays, EnvStays DEF SaveLease
<1>. QED BY <1>1, <1>2, <1>3, <1>4, <1>5, <1>6, <1>7, <1>8

\* Every step of cleanup.py keeps the types.
LEMMA CleanupStepLocated ==
  ASSUME Located, NEW a \in Actor, CleanupStep(a) PROVE Located'
  BY LoadLocated, ClaimLocated, FinalizeLocated DEF CleanupStep, Sweeps

-----------------------------------------------------------------------------

\* Ticks, killed commands and a person's doings included.
LEMMA NextLocated == Located /\ [Next]_vars => Located'
<1>. SUFFICES ASSUME Located, [Next]_vars PROVE Located'  OBVIOUS
<1>. USE LocatedParts
<1>1. CASE Tick
  BY <1>1, StoreStays, HostStays DEF Tick, EnvOK, ProcOK
<1>2. ASSUME NEW g \in Guest, ManualRemove(g) PROVE Located'
  BY <1>2, StoreStays, RemoveGuestType, EnvStays DEF ManualRemove, ProcOK
<1>3. ASSUME NEW l \in Lease, ManualReclaim(l) PROVE Located'
  BY <1>3, ClaimLeaseType, HostStays, EnvStays
  DEF ManualReclaim, ProcOK, States, NonTerminal
<1>4. ASSUME NEW a \in Actor, Crash(a) PROVE Located'
  BY <1>4, StoreStays, HostStays, GotoIdle DEF Crash, EnvOK
<1>5. ASSUME NEW a \in Actor, Step(a) PROVE Located'
  BY <1>5, LeaseStepLocated, GuestStepLocated, CleanupStepLocated DEF Step
<1>6. CASE UNCHANGED vars
  BY <1>6, StoreStays, HostStays, EnvStays DEF vars, ProcOK
<1>. QED BY <1>1, <1>2, <1>3, <1>4, <1>5, <1>6 DEF Next, ByHand

\* The controller starts well typed.
LEMMA InitLocated == Init => Located
  BY IdleSound, GuestAssumption
  DEF Init, Epoch, Located, TypeOK, States, GuestStatus, Unstamped

\* Every variable and every command's locals have their types in every state,
\* and a command at a step that needs a lease or a guest has one.
THEOREM TypeCorrect == Spec => [](TypeOK /\ Located)
<1>1. Located => TypeOK  BY DEF Located
<1>. QED BY <1>1, InitLocated, NextLocated, PTL DEF Spec

-----------------------------------------------------------------------------
(* The claim. A step of a command that is not tearing anything down, and   *)
(* does not begin to, can disturb neither the claims nor a young lease; a  *)
(* step inside a teardown keeps its claim, and is not taken on a young one.*)

\* The command carries on, or ends, or starts, outside a teardown.
Outside(a) ==
  \E p \in Proc :
    /\ Goto(a, p)
    /\ p.pc \notin Finalizer \cup {"save-destroyed", "begun"}
    /\ p.batch \subseteq proc[a].batch
    /\ \/ p.pc \in Leaseless
       \/ p.lease = proc[a].lease /\ proc[a].pc \notin Leaseless \cup Finalizer
       \/ Published(p.lease)

\* The command carries on inside its teardown, which has rows to deal with.
Inside(a) ==
  \E p \in Proc :
    /\ Goto(a, p)
    /\ p.pc \in Finalizer /\ proc[a].pc \in Finalizer /\ ~Empty(proc[a])
    /\ p.lease = proc[a].lease /\ p.batch = proc[a].batch

\* Rows are added only to the lease of a command that is past lease-begin.
RowsOfOwnLease(a) ==
  \A l \in Lease :
    rowid'[l] # rowid[l] =>
      /\ l = proc[a].lease
      /\ proc[a].pc \notin Leaseless \cup Finalizer \cup {"begun"}

\* What Goto does to the other commands: nothing.
LEMMA GotoOthers ==
  ASSUME Located, NEW a \in Actor, NEW p \in Proc, Goto(a, p)
  PROVE  /\ proc'[a] = p
         /\ \A b \in Actor : b # a => proc'[b] = proc[b]
  BY DEF Located, TypeOK, Goto

\* Claims are not disturbed from outside.
LEMMA OutsideClaimed ==
  ASSUME Located, Claimed, NEW a \in Actor, Outside(a), UNCHANGED state
  PROVE  Claimed'
<1>1. PICK p \in Proc : Goto(a, p) /\ p.pc \notin Finalizer \cup {"save-destroyed"}
  BY DEF Outside
<1>2. /\ proc'[a] = p
      /\ \A b \in Actor : b # a => proc'[b] = proc[b]
  BY <1>1, GotoOthers
<1>3. \A b \in Actor, l \in Lease : Holds(b, l)' => b # a /\ Holds(b, l)
  BY <1>1, <1>2 DEF Holds
<1>4. OneFinalizer'  BY <1>3 DEF Claimed, OneFinalizer
<1>5. \A b \in Actor, l \in Lease : Holds(b, l)' => state'[l] \in {"ending", "abandoned"}
  BY <1>3 DEF Claimed
<1>6. ASSUME NEW b \in Actor, NEW c \in Actor, proc'[b].pc = "save-destroyed"
      PROVE  state'[proc'[b].lease] \in Terminal /\ ~Holds(c, proc[b].lease)'
  <2>1. b # a /\ proc'[b] = proc[b]  BY <1>1, <1>2, <1>6
  <2>2. proc[b].lease \in Lease  BY <1>6, <2>1, HolderSound
  <2>. QED BY <1>3, <1>6, <2>1, <2>2 DEF Claimed
<1>. QED BY <1>2, <1>4, <1>5, <1>6 DEF Claimed, Holds

\* Nor from inside.
LEMMA InsideClaimed ==
  ASSUME Located, Claimed, NEW a \in Actor, Inside(a), UNCHANGED state
  PROVE  Claimed'
<1>1. PICK p \in Proc : /\ Goto(a, p) /\ p.pc \in Finalizer
                        /\ proc[a].pc \in Finalizer /\ p.lease = proc[a].lease
  BY DEF Inside
<1>2. /\ proc'[a] = p
      /\ \A b \in Actor : b # a => proc'[b] = proc[b]
  BY <1>1, GotoOthers
<1>3. \A b \in Actor, l \in Lease : Holds(b, l)' <=> Holds(b, l)
  BY <1>1, <1>2 DEF Holds
<1>4. OneFinalizer'  BY <1>3 DEF Claimed, OneFinalizer
<1>5. \A b \in Actor, l \in Lease : Holds(b, l)' => state'[l] \in {"ending", "abandoned"}
  BY <1>3 DEF Claimed
<1>6. ASSUME NEW b \in Actor, NEW c \in Actor, proc'[b].pc = "save-destroyed"
      PROVE  state'[proc'[b].lease] \in Terminal /\ ~Holds(c, proc[b].lease)'
  <2>1. b # a /\ proc'[b] = proc[b]  BY <1>1, <1>2, <1>6 DEF Finalizer
  <2>2. proc[b].lease \in Lease  BY <1>6, <2>1, HolderSound
  <2>. QED BY <1>3, <1>6, <2>1, <2>2 DEF Claimed
<1>. QED BY <1>2, <1>4, <1>5, <1>6 DEF Claimed, Holds

\* A young lease is not disturbed from outside.
LEMMA OutsideYoung ==
  ASSUME Located, Young, NEW a \in Actor, Outside(a), UNCHANGED state, RowsOfOwnLease(a)
  PROVE  Young'
<1>1. PICK p \in Proc :
        /\ Goto(a, p)
        /\ p.pc \notin Finalizer \cup {"save-destroyed", "begun"}
        /\ p.batch \subseteq proc[a].batch
        /\ \/ p.pc \in Leaseless
           \/ p.lease = proc[a].lease /\ proc[a].pc \notin Leaseless \cup Finalizer
           \/ Published(p.lease)
  BY DEF Outside
<1>2. /\ proc'[a] = p
      /\ \A b \in Actor : b # a => proc'[b] = proc[b]
  BY <1>1, GotoOthers
<1>. DEFINE Begun(b) == proc[b].pc = "begun"
<1>3. \A b \in Actor : Begun(b)' => b # a /\ Begun(b)  BY <1>1, <1>2
<1>4. \A b \in Actor : Begun(b) => proc[b].lease \in Lease
  BY DEF Located, Sound, Leaseless
<1>5. \A b \in Actor : b # a /\ Begun(b) => rowid'[proc[b].lease] = rowid[proc[b].lease]
  BY <1>4 DEF RowsOfOwnLease, Young, Empty, Finalizer
<1>6. \A b \in Actor : Begun(b)' => state'[proc'[b].lease] # "none" /\ Rows(proc[b].lease)' = {}
  BY <1>2, <1>3, <1>5 DEF Young, Rows
<1>7. \A l \in Lease : state'[l] = "none" => Rows(l)' = {}
  BY DEF Young, Rows, RowsOfOwnLease
<1>8. \A b \in Actor : proc'[b].pc \notin Leaseless => state'[proc'[b].lease] # "none"
  BY <1>1, <1>2 DEF Young, Published
<1>9. \A b \in Actor : \A c \in proc'[b].batch : state'[c.lease] # "none"
  BY <1>1, <1>2 DEF Young
<1>10. ASSUME NEW b \in Actor, NEW c \in Actor,
              Begun(b)', b # c, proc'[c].lease = proc'[b].lease
       PROVE  proc'[c].pc \in Leaseless \/ Empty(proc'[c])
  <2>1. b # a /\ Begun(b) /\ proc'[b] = proc[b]  BY <1>2, <1>3, <1>10
  <2>2. CASE c # a  BY <1>2, <1>10, <2>1, <2>2 DEF Young
  <2>3. CASE c = a
    <3>1. ~Published(proc[b].lease)  BY <2>1 DEF Published
    <3>2. p.lease = proc[b].lease  BY <1>2, <1>10, <2>1, <2>3
    <3>3. CASE p.pc \in Leaseless  BY <1>2, <2>3, <3>3
    <3>4. CASE p.lease = proc[a].lease /\ proc[a].pc \notin Leaseless \cup Finalizer
      BY <2>1, <3>2, <3>4 DEF Young, Empty, Finalizer
    <3>. QED BY <1>1, <3>1, <3>2, <3>3, <3>4
  <2>. QED BY <2>2, <2>3
<1>11. ASSUME NEW b \in Actor, NEW d \in Actor, NEW c \in proc'[d].batch,
              Begun(b)', c.lease = proc'[b].lease
       PROVE  c.todo = {}
  BY <1>1, <1>2, <1>3, <1>11 DEF Young
<1>12. ASSUME NEW b \in Actor, NEW l \in Lease, Holds(b, l)', state'[l] = "abandoned"
       PROVE  Empty(proc'[b])
  BY <1>1, <1>2, <1>12 DEF Young, Holds
<1>. QED BY <1>2, <1>6, <1>7, <1>8, <1>9, <1>10, <1>11, <1>12 DEF Young, Rows

\* A teardown that has rows to deal with is not on a young lease.
LEMMA InsideYoung ==
  ASSUME Located, Young, NEW a \in Actor, Inside(a), UNCHANGED <<state, rowid>>
  PROVE  Young'
<1>1. PICK p \in Proc :
        /\ Goto(a, p)
        /\ p.pc \in Finalizer /\ proc[a].pc \in Finalizer /\ ~Empty(proc[a])
        /\ p.lease = proc[a].lease /\ p.batch = proc[a].batch
  BY DEF Inside
<1>2. /\ proc'[a] = p
      /\ \A b \in Actor : b # a => proc'[b] = proc[b]
  BY <1>1, GotoOthers
<1>3. p.pc # "begun" /\ p.pc \notin Leaseless /\ proc[a].pc \notin Leaseless
  BY <1>1 DEF Finalizer, Leaseless
<1>4. \A b \in Actor : proc'[b].pc = "begun" => b # a /\ proc[b].pc = "begun"
  BY <1>2, <1>3
<1>5. \A b \in Actor : proc[b].pc = "begun" => b # a /\ proc[a].lease # proc[b].lease
  BY <1>1, <1>3 DEF Young, Finalizer
<1>6. \A b \in Actor : proc'[b].lease = proc[b].lease /\ proc'[b].batch = proc[b].batch
  BY <1>1, <1>2
<1>7. proc[a].lease \in Lease  BY <1>1, HolderSound
<1>8. state[proc[a].lease] # "abandoned"  BY <1>1, <1>7 DEF Young, Holds
<1>9. \A b \in Actor, l \in Lease :
        Holds(b, l)' /\ state'[l] = "abandoned" => Empty(proc'[b])
  BY <1>1, <1>2, <1>8 DEF Young, Holds
<1>10. \A b, c \in Actor :
         proc'[b].pc = "begun" /\ b # c /\ proc'[c].lease = proc'[b].lease =>
           proc'[c].pc \in Leaseless \/ Empty(proc'[c])
  BY <1>2, <1>4, <1>5, <1>6 DEF Young
<1>11. \A b, c \in Actor : \A d \in proc'[c].batch :
         proc'[b].pc = "begun" /\ d.lease = proc'[b].lease => d.todo = {}
  BY <1>4, <1>6 DEF Young
<1>12. \A b \in Actor :
         proc'[b].pc = "begun" =>
           state'[proc'[b].lease] # "none" /\ Rows(proc[b].lease)' = {}
  BY <1>4, <1>6 DEF Young, Rows
<1>13. \A b \in Actor : proc'[b].pc \notin Leaseless => state'[proc'[b].lease] # "none"
  BY <1>2, <1>3, <1>6 DEF Young
<1>. QED BY <1>6, <1>9, <1>10, <1>11, <1>12, <1>13 DEF Young, Rows

\* How to see that a step is outside: the record it writes is sound anyway.
LEMMA OutsideIntro ==
  ASSUME Located, Located', NEW a \in Actor, NEW p, Goto(a, p),
         p.pc \notin Finalizer \cup {"save-destroyed", "begun"},
         p.batch \subseteq proc[a].batch,
         \/ p.pc \in Leaseless
         \/ p.lease = proc[a].lease /\ proc[a].pc \notin Leaseless \cup Finalizer
         \/ Published(p.lease)
  PROVE  Outside(a)
<1>1. proc'[a] = p  BY DEF Located, TypeOK, Goto
<1>2. p \in Proc  BY <1>1 DEF Located, TypeOK
<1>. QED BY <1>2 DEF Outside

\* A command that ends is outside.
LEMMA EndsOutside ==
  ASSUME NEW a \in Actor, Goto(a, Idle) PROVE Outside(a)
  BY IdleSound DEF Idle, Outside, Finalizer, Leaseless

\* How to see that a step is inside.
LEMMA InsideIntro ==
  ASSUME Located, Located', NEW a \in Actor, NEW p, Goto(a, p),
         p.pc \in Finalizer, proc[a].pc \in Finalizer, ~Empty(proc[a]),
         p.lease = proc[a].lease, p.batch = proc[a].batch
  PROVE  Inside(a)
<1>1. proc'[a] = p  BY DEF Located, TypeOK, Goto
<1>2. p \in Proc  BY <1>1 DEF Located, TypeOK
<1>. QED BY <1>2 DEF Inside

\* store.register_resource adds a row to the command's own lease.
LEMMA InsertRowOwn ==
  ASSUME Located, NEW a \in Actor, NEW g, NEW pol, InsertRow(proc[a].lease, g, pol),
         proc[a].pc \in {"reg-row", "create-row"}
  PROVE  RowsOfOwnLease(a) /\ UNCHANGED state
<1>1. \A l \in Lease : rowid'[l] # rowid[l] => l = proc[a].lease
  BY DEF InsertRow, Located, TypeOK
<1>. QED BY <1>1 DEF InsertRow, RowsOfOwnLease, Leaseless, Finalizer

\* No row at all is added by a step that leaves lab.db's rows alone.
LEMMA NoRowAdded ==
  ASSUME NEW a \in Actor, UNCHANGED rowid PROVE RowsOfOwnLease(a)
  BY DEF RowsOfOwnLease

\* leases.py once lease-begin has inserted its row.
LEMMA LeaseStepOutside ==
  ASSUME Located, Located', NEW a \in Actor, LeaseStep(a), ~BeginFail(a),
         \A l \in Lease : ~BeginInsert(a, l)
  PROVE  Outside(a) /\ UNCHANGED state /\ RowsOfOwnLease(a)
<1>. DEFINE p == proc[a]
<1>0. p \in Proc  BY DEF Located, TypeOK
<1>1. ASSUME NEW l \in Lease, HeartbeatLoad(a, l)
      PROVE  Outside(a) /\ UNCHANGED state /\ RowsOfOwnLease(a)
  <2>1. Outside(a)
    BY <1>1, OutsideIntro DEF HeartbeatLoad, Start, Idle, Finalizer
  <2>. QED BY <1>1, <2>1, NoRowAdded DEF HeartbeatLoad, ReadOnly, store
<1>2. ASSUME NEW l \in Lease, NEW g \in Guest, RegisterCheck(a, l, g)
      PROVE  Outside(a) /\ UNCHANGED state /\ RowsOfOwnLease(a)
  <2>1. Outside(a)
    BY <1>2, OutsideIntro DEF RegisterCheck, Start, Idle, Finalizer
  <2>. QED BY <1>2, <2>1, NoRowAdded DEF RegisterCheck, ReadOnly, store
<1>3. CASE BeginPrint(a) \/ HeartbeatDone(a)
  BY <1>3, EndsOutside, NoRowAdded DEF BeginPrint, HeartbeatDone, ReadOnly, store
<1>4. CASE HeartbeatStore(a)
  <2>1. Outside(a)
    BY <1>0, <1>4, OutsideIntro, EndsOutside
    DEF HeartbeatStore, Proc, Finalizer, Leaseless
  <2>. QED BY <1>4, <2>1, NoRowAdded DEF HeartbeatStore, StoreHeartbeat
<1>5. CASE HeartbeatStamp(a)
  <2>1. Outside(a)
    BY <1>0, <1>5, OutsideIntro, EndsOutside
    DEF HeartbeatStamp, Proc, Finalizer, Leaseless
  <2>. QED BY <1>5, <2>1, NoRowAdded DEF HeartbeatStamp, store
<1>6. CASE RegisterRow(a)
  <2>1. Outside(a)
    BY <1>0, <1>6, OutsideIntro DEF RegisterRow, Proc, Finalizer, Leaseless
  <2>. QED BY <1>6, <2>1, NoRowAdded, InsertRowOwn DEF RegisterRow, store
<1>7. CASE RegisterBeat(a)
  <2>1. Outside(a)
    BY <1>0, <1>7, OutsideIntro DEF RegisterBeat, Proc, Finalizer, Leaseless
  <2>. QED BY <1>7, <2>1, NoRowAdded DEF RegisterBeat, StoreHeartbeat
<1>8. CASE RegisterStamp(a)
  BY <1>8, EndsOutside, NoRowAdded DEF RegisterStamp, store
<1>. QED BY <1>1, <1>2, <1>3, <1>4, <1>5, <1>6, <1>7, <1>8 DEF LeaseStep

\* A lease with a row that is not tombstoned has been printed.
LEMMA RowsArePublished ==
  ASSUME Young, NEW l \in Lease, NEW g \in Guest, LeaseClaims(l, g)
  PROVE  Published(l)
  BY DEF Young, LeaseClaims, Undestroyed, Published

\* All of guest.py.
LEMMA GuestStepOutside ==
  ASSUME Located, Located', Young, NEW a \in Actor, GuestStep(a)
  PROVE  Outside(a) /\ UNCHANGED state /\ RowsOfOwnLease(a)
<1>. DEFINE p == proc[a]
<1>0. p \in Proc  BY DEF Located, TypeOK
<1>1. ASSUME NEW l \in Lease, NEW g \in Guest, NEW c, CreateLoad(a, l, g, c)
      PROVE  Outside(a) /\ UNCHANGED state /\ RowsOfOwnLease(a)
  <2>1. Outside(a)
    BY <1>1, OutsideIntro DEF CreateLoad, Start, Idle, Finalizer
  <2>. QED BY <1>1, <2>1, NoRowAdded DEF CreateLoad, ReadOnly, store
<1>2. ASSUME NEW l \in Lease, NEW g \in Guest,
             \/ StartGate(a, l, g) \/ StopGate(a, l, g)
             \/ DestroyGate(a, l, g) \/ TemplateGate(a, l, g)
      PROVE  Outside(a) /\ UNCHANGED state /\ RowsOfOwnLease(a)
  <2>1. Published(l)
    BY <1>2, RowsArePublished
    DEF StartGate, StopGate, DestroyGate, TemplateGate, RequireOwned
  <2>2. \E c : \E pc \in {"start", "halt", "gd-check", "convert"} :
          Start(a, c, [Idle EXCEPT !.pc = pc, !.lease = l, !.guest = g])
    BY <1>2 DEF StartGate, StopGate, DestroyGate, TemplateGate
  <2>3. Outside(a)
    BY <2>1, <2>2, OutsideIntro DEF Start, Idle, Finalizer
  <2>4. ReadOnly  BY <1>2 DEF StartGate, StopGate, DestroyGate, TemplateGate
  <2>. QED BY <2>3, <2>4, NoRowAdded DEF ReadOnly, store
<1>3. CASE CreateFresh(a) \/ CreateClone(a) \/ CloneStamp(a)
  <2>1. Outside(a)
    BY <1>0, <1>3, OutsideIntro, EndsOutside
    DEF CreateFresh, CreateClone, CloneStamp, Proc, Finalizer, Leaseless
  <2>. QED
    BY <1>3, <2>1, NoRowAdded DEF CreateFresh, CreateClone, CloneStamp, store
<1>4. CASE CreateRow(a)
  <2>1. Outside(a)
    BY <1>0, <1>4, OutsideIntro, EndsOutside DEF CreateRow, Proc, Finalizer, Leaseless
  <2>. QED BY <1>4, <2>1, NoRowAdded, InsertRowOwn DEF CreateRow, store
<1>5. CASE CreateRefused(a) \/ StartGuest(a) \/ StopGuest(a) \/ ConvertGuest(a)
  BY <1>5, EndsOutside, NoRowAdded
  DEF CreateRefused, StartGuest, StopGuest, ConvertGuest, store
<1>6. CASE DestroyCheck(a) \/ DestroyStop(a) \/ DestroyDelete(a)
  <2>1. Outside(a)
    BY <1>0, <1>6, OutsideIntro, EndsOutside
    DEF DestroyCheck, DestroyStop, DestroyDelete, Proc, Finalizer, Leaseless
  <2>. QED
    BY <1>6, <2>1, NoRowAdded DEF DestroyCheck, DestroyStop, DestroyDelete, store
<1>7. CASE DestroyMark(a)
  BY <1>7, EndsOutside, NoRowAdded DEF DestroyMark, MarkDestroyed
<1>. QED BY <1>1, <1>2, <1>3, <1>4, <1>5, <1>6, <1>7 DEF GuestStep

-----------------------------------------------------------------------------
(* The steps that change a lease's state.                                  *)

\* lease-begin inserts a row nobody knows yet.
LEMMA BeginInsertInv ==
  ASSUME Located, Located', Claimed, Young, NEW a \in Actor, NEW l \in Lease,
         BeginInsert(a, l)
  PROVE  Claimed' /\ Young'
<1>. DEFINE q == [[Idle EXCEPT !.pc = "begun", !.lease = l] EXCEPT !.cmd = "lease-begin"]
<1>1. Goto(a, q)  BY DEF BeginInsert, Start
<1>2. proc'[a] = q /\ \A b \in Actor : b # a => proc'[b] = proc[b]
  BY <1>1 DEF Goto, Located, TypeOK
<1>3. q.pc = "begun" /\ q.lease = l /\ q.batch = {}  BY DEF Idle
<1>. HIDE DEF q
<1>4. state[l] = "none" /\ Rows(l) = {}  BY DEF BeginInsert, Young
<1>5. state'[l] = "active" /\ \A m \in Lease \ {l} : state'[m] = state[m]
  BY DEF BeginInsert, Located, TypeOK
<1>6. rowid' = rowid  BY DEF BeginInsert
<1>7. \A b \in Actor : b # a /\ proc[b].pc \notin Leaseless =>
        proc[b].lease \in Lease \ {l}
  BY <1>4 DEF Young, Located, Sound
<1>8. \A b \in Actor, m \in Lease :
        Holds(b, m)' => b # a /\ m # l /\ Holds(b, m)
  BY <1>2, <1>3, <1>7 DEF Holds, Finalizer, Leaseless
<1>9. \A b \in Actor : \A c \in proc[b].batch : c.lease # l /\ c.lease \in Lease
  BY <1>4 DEF Young, Located, TypeOK, Proc, Snapshot
<1>10. Claimed'
  <2>1. OneFinalizer'  BY <1>8 DEF Claimed, OneFinalizer
  <2>2. \A b \in Actor, m \in Lease : Holds(b, m)' => state'[m] \in {"ending", "abandoned"}
    BY <1>5, <1>8 DEF Claimed
  <2>3. ASSUME NEW b \in Actor, NEW c \in Actor, proc'[b].pc = "save-destroyed"
        PROVE  state'[proc'[b].lease] \in Terminal /\ ~Holds(c, proc[b].lease)'
    <3>1. b # a /\ proc'[b] = proc[b]  BY <1>2, <1>3, <2>3
    <3>2. proc[b].lease \in Lease \ {l}  BY <1>7, <2>3, <3>1 DEF Leaseless
    <3>. QED BY <1>5, <1>8, <2>3, <3>1, <3>2 DEF Claimed
  <2>. QED BY <1>2, <2>1, <2>2, <2>3 DEF Claimed, Holds
<1>11. Young'
  <2>1. \A b \in Actor :
          proc'[b].pc = "begun" =>
            state'[proc'[b].lease] # "none" /\ Rows(proc[b].lease)' = {}
    BY <1>2, <1>3, <1>4, <1>5, <1>6, <1>7 DEF Young, Rows, Leaseless
  <2>2. \A m \in Lease : state'[m] = "none" => Rows(m)' = {}
    BY <1>5, <1>6 DEF Young, Rows
  <2>3. \A b \in Actor : proc'[b].pc \notin Leaseless => state'[proc'[b].lease] # "none"
    BY <1>2, <1>3, <1>5, <1>7 DEF Young
  <2>4. \A b \in Actor : \A c \in proc'[b].batch : state'[c.lease] # "none"
    BY <1>2, <1>3, <1>5, <1>9 DEF Young
  <2>5. ASSUME NEW b \in Actor, NEW c \in Actor,
               proc'[b].pc = "begun", b # c, proc'[c].lease = proc'[b].lease
        PROVE  proc'[c].pc \in Leaseless \/ Empty(proc'[c])
    <3>1. CASE b = a  BY <1>2, <1>3, <1>7, <2>5, <3>1
    <3>2. CASE c = a  BY <1>2, <1>3, <1>7, <2>5, <3>2 DEF Leaseless
    <3>3. CASE b # a /\ c # a  BY <1>2, <2>5, <3>3 DEF Young
    <3>. QED BY <3>1, <3>2, <3>3
  <2>6. \A b, c \in Actor : \A d \in proc'[c].batch :
          proc'[b].pc = "begun" /\ d.lease = proc'[b].lease => d.todo = {}
    BY <1>2, <1>3, <1>9 DEF Young
  <2>7. \A b \in Actor, m \in Lease :
          Holds(b, m)' /\ state'[m] = "abandoned" => Empty(proc'[b])
    BY <1>2, <1>5, <1>8 DEF Young
  <2>. QED BY <1>2, <2>1, <2>2, <2>3, <2>4, <2>5, <2>6, <2>7 DEF Young, Rows
<1>. QED BY <1>10, <1>11

\* A failed lease-begin closes a lease nobody holds but a sweep with nothing
\* to do.
LEMMA BeginFailInv ==
  ASSUME Located, Claimed, Young, NEW a \in Actor, BeginFail(a)
  PROVE  Claimed' /\ Young'
<1>. DEFINE l == proc[a].lease
<1>1. proc'[a] = Idle /\ \A b \in Actor : b # a => proc'[b] = proc[b]
  BY DEF BeginFail, Goto, Located, TypeOK
<1>2. proc[a].pc = "begun" /\ l \in Lease
  BY DEF BeginFail, Located, Sound, Leaseless
<1>3. state'[l] = "abandoned" /\ \A m \in Lease \ {l} : state'[m] = state[m]
  BY <1>2 DEF BeginFail, SetLeaseState, Located, TypeOK
<1>4. rowid' = rowid  BY DEF BeginFail, SetLeaseState
<1>5. Idle.pc = "idle" /\ Idle.batch = {}  BY DEF Idle
<1>6. \A b \in Actor, m \in Lease : Holds(b, m)' => b # a /\ Holds(b, m)
  BY <1>1, <1>5 DEF Holds, Finalizer
<1>7. \A m \in Lease : state'[m] = "none" => m # l /\ state[m] = "none"  BY <1>3
<1>8. Claimed'
  <2>1. OneFinalizer'  BY <1>6 DEF Claimed, OneFinalizer
  <2>2. \A b \in Actor, m \in Lease : Holds(b, m)' => state'[m] \in {"ending", "abandoned"}
    BY <1>3, <1>6 DEF Claimed
  <2>3. ASSUME NEW b \in Actor, NEW c \in Actor, proc'[b].pc = "save-destroyed"
        PROVE  state'[proc'[b].lease] \in Terminal /\ ~Holds(c, proc[b].lease)'
    <3>1. b # a /\ proc'[b] = proc[b]  BY <1>1, <1>5, <2>3
    <3>2. proc[b].lease \in Lease  BY <2>3, <3>1, HolderSound
    <3>. QED BY <1>3, <1>6, <2>3, <3>1, <3>2 DEF Claimed, Terminal
  <2>. QED BY <1>1, <2>1, <2>2, <2>3 DEF Claimed, Holds
<1>9. Young'
  <2>0. \A b \in Actor : proc[b].pc \notin Leaseless => proc[b].lease \in Lease
    BY DEF Located, Sound
  <2>1. \A b \in Actor :
          proc'[b].pc = "begun" =>
            state'[proc'[b].lease] # "none" /\ Rows(proc[b].lease)' = {}
    BY <1>1, <1>4, <1>5, <1>7, <2>0 DEF Young, Rows, Leaseless
  <2>2. \A m \in Lease : state'[m] = "none" => Rows(m)' = {}
    BY <1>4, <1>7 DEF Young, Rows
  <2>3. \A b \in Actor : proc'[b].pc \notin Leaseless => state'[proc'[b].lease] # "none"
    BY <1>1, <1>5, <1>7, <2>0 DEF Young, Leaseless
  <2>4. \A b \in Actor : \A c \in proc'[b].batch : state'[c.lease] # "none"
    <3>1. \A b \in Actor : \A c \in proc[b].batch : c.lease \in Lease
      BY DEF Located, TypeOK, Proc, Snapshot
    <3>. QED BY <1>1, <1>5, <1>7, <3>1 DEF Young
  <2>5. \A b, c \in Actor :
          proc'[b].pc = "begun" /\ b # c /\ proc'[c].lease = proc'[b].lease =>
            proc'[c].pc \in Leaseless \/ Empty(proc'[c])
    BY <1>1, <1>5 DEF Young, Leaseless
  <2>6. \A b, c \in Actor : \A d \in proc'[c].batch :
          proc'[b].pc = "begun" /\ d.lease = proc'[b].lease => d.todo = {}
    BY <1>1, <1>5 DEF Young
  <2>7. ASSUME NEW b \in Actor, NEW m \in Lease, Holds(b, m)', state'[m] = "abandoned"
        PROVE  Empty(proc'[b])
    <3>1. b # a /\ Holds(b, m) /\ proc'[b] = proc[b]  BY <1>1, <1>6, <2>7
    <3>2. CASE m # l  BY <1>3, <2>7, <3>1, <3>2 DEF Young
    <3>3. CASE m = l  BY <1>2, <3>1, <3>3 DEF Young, Holds, Leaseless, Finalizer
    <3>. QED BY <3>2, <3>3
  <2>. QED BY <1>1, <2>1, <2>2, <2>3, <2>4, <2>5, <2>6, <2>7 DEF Young, Rows
<1>. QED BY <1>8, <1>9

\* A sweep's list holds no row of a young lease.
LEMMA SweepListInv ==
  ASSUME Located, Claimed, Young, NEW a \in Actor, NEW c, SweepList(a, c)
  PROVE  Claimed' /\ Young'
<1>. DEFINE q == [pc |-> proc'[a].pc, batch |-> proc'[a].batch]
<1>1. /\ proc'[a].pc = "sweep"
      /\ proc'[a].batch =
           {[lease |-> l, prior |-> state[l], todo |-> Undestroyed(l)] :
              l \in {m \in Lease : SweepCandidate(m, c = "cleanup-all")}}
  BY DEF SweepList, Start, Goto, Located, TypeOK, Idle
<1>2. \A b \in Actor : b # a => proc'[b] = proc[b]
  BY DEF SweepList, Start, Goto, Located, TypeOK
<1>3. UNCHANGED <<state, rowid>>  BY DEF SweepList, ReadOnly, store
<1>4. \A d \in proc'[a].batch :
        state[d.lease] # "none" /\ d.lease \in Lease /\ d.todo \subseteq Rows(d.lease)
  BY <1>1 DEF SweepCandidate, Undestroyed
<1>5. \A b \in Actor, l \in Lease : Holds(b, l)' => b # a /\ Holds(b, l)
  BY <1>1, <1>2 DEF Holds, Finalizer
<1>6. \A b \in Actor : proc'[b].pc = "begun" => b # a /\ proc[b].pc = "begun"
  BY <1>1, <1>2
<1>7. Claimed'
  <2>1. OneFinalizer'  BY <1>5 DEF Claimed, OneFinalizer
  <2>2. \A b \in Actor, l \in Lease : Holds(b, l)' => state'[l] \in {"ending", "abandoned"}
    BY <1>3, <1>5 DEF Claimed
  <2>3. ASSUME NEW b \in Actor, NEW d \in Actor, proc'[b].pc = "save-destroyed"
        PROVE  state'[proc'[b].lease] \in Terminal /\ ~Holds(d, proc[b].lease)'
    <3>1. b # a /\ proc'[b] = proc[b]  BY <1>1, <1>2, <2>3
    <3>2. proc[b].lease \in Lease  BY <2>3, <3>1, HolderSound
    <3>. QED BY <1>3, <1>5, <2>3, <3>1, <3>2 DEF Claimed
  <2>4. \A b \in Actor : proc'[b].pc = "save-destroyed" => proc'[b] = proc[b]
    BY <1>1, <1>2
  <2>. QED BY <2>1, <2>2, <2>3, <2>4 DEF Claimed, Holds
<1>8. Young'
  <2>1. \A b \in Actor :
          proc'[b].pc = "begun" =>
            state'[proc'[b].lease] # "none" /\ rowid' = rowid /\ Rows(proc[b].lease) = {}
            /\ proc'[b] = proc[b]
    BY <1>2, <1>3, <1>6 DEF Young
  <2>2. \A m \in Lease : state'[m] = "none" => Rows(m)' = {}
    BY <1>3 DEF Young, Rows
  <2>3. \A b \in Actor : proc'[b].pc \notin Leaseless => state'[proc'[b].lease] # "none"
    BY <1>1, <1>2, <1>3 DEF Young, Leaseless
  <2>4. \A b \in Actor : \A d \in proc'[b].batch : state'[d.lease] # "none"
    BY <1>2, <1>3, <1>4 DEF Young
  <2>5. \A b, d \in Actor :
          proc'[b].pc = "begun" /\ b # d /\ proc'[d].lease = proc'[b].lease =>
            proc'[d].pc \in Leaseless \/ Empty(proc'[d])
    BY <1>1, <1>2, <1>6 DEF Young, Leaseless
  <2>6. \A b, d \in Actor : \A e \in proc'[d].batch :
          proc'[b].pc = "begun" /\ e.lease = proc'[b].lease => e.todo = {}
    BY <1>2, <1>4, <1>6 DEF Young
  <2>7. \A b \in Actor, m \in Lease :
          Holds(b, m)' /\ state'[m] = "abandoned" => Empty(proc'[b])
    BY <1>2, <1>3, <1>5 DEF Young
  <2>. QED BY <2>1, <2>2, <2>3, <2>4, <2>5, <2>6, <2>7 DEF Young, Rows
<1>. QED BY <1>7, <1>8

\* Winning the claim: the compare-and-swap found the lease open, and an open
\* lease has no holder. q is the winner's record, its todo the rows the
\* command read.
LEMMA WinInv ==
  ASSUME Located, Claimed, Young, NEW a \in Actor, NEW l \in Lease,
         NEW from \in OpenState, ClaimLease(l, from, "ending"),
         NEW q, Goto(a, q), q.pc \in Finalizer, q.lease = l,
         q.batch \subseteq proc[a].batch,
         \A b \in Actor : proc[b].pc = "begun" /\ proc[b].lease = l => Empty(q)
  PROVE  Claimed' /\ Young'
<1>1. proc'[a] = q /\ \A b \in Actor : b # a => proc'[b] = proc[b]
  BY DEF Goto, Located, TypeOK
<1>2. /\ state[l] \in OpenState /\ state'[l] = "ending"
      /\ \A m \in Lease \ {l} : state'[m] = state[m]
      /\ rowid' = rowid
  BY DEF ClaimLease, Located, TypeOK
<1>3. \A b \in Actor : ~Holds(b, l)
  BY <1>2 DEF Claimed, OpenState
<1>4. \A b \in Actor, m \in Lease :
        Holds(b, m)' => (b = a /\ m = l) \/ (b # a /\ m # l /\ Holds(b, m))
  BY <1>1, <1>3 DEF Holds
<1>5. \A b \in Actor : proc'[b].pc = "begun" => b # a /\ proc[b].pc = "begun"
  BY <1>1 DEF Finalizer
<1>6. \A m \in Lease : state'[m] = "none" => state[m] = "none"  BY <1>2
<1>7. \A b \in Actor : proc[b].pc \notin Leaseless => proc[b].lease \in Lease
  BY DEF Located, Sound
<1>8. Claimed'
  <2>1. OneFinalizer'  BY <1>4 DEF Claimed, OneFinalizer
  <2>2. \A b \in Actor, m \in Lease : Holds(b, m)' => state'[m] \in {"ending", "abandoned"}
    BY <1>2, <1>4 DEF Claimed
  <2>3. ASSUME NEW b \in Actor, NEW c \in Actor, proc'[b].pc = "save-destroyed"
        PROVE  state'[proc'[b].lease] \in Terminal /\ ~Holds(c, proc[b].lease)'
    <3>1. b # a /\ proc'[b] = proc[b]  BY <1>1, <2>3 DEF Finalizer
    <3>2. proc[b].lease \in Lease /\ state[proc[b].lease] \in Terminal
      BY <2>3, <3>1, HolderSound DEF Claimed
    <3>3. proc[b].lease # l  BY <1>2, <3>2 DEF OpenState, Terminal
    <3>. QED BY <1>2, <1>4, <2>3, <3>1, <3>2, <3>3 DEF Claimed
  <2>4. \A b \in Actor : proc'[b].pc = "save-destroyed" => proc'[b] = proc[b]
    BY <1>1 DEF Finalizer
  <2>. QED BY <2>1, <2>2, <2>3, <2>4 DEF Claimed, Holds
<1>9. Young'
  <2>1. \A b \in Actor :
          proc'[b].pc = "begun" =>
            state'[proc'[b].lease] # "none" /\ rowid' = rowid /\ Rows(proc[b].lease) = {}
            /\ proc'[b] = proc[b]
    BY <1>1, <1>2, <1>5, <1>6, <1>7 DEF Young, Leaseless
  <2>2. \A m \in Lease : state'[m] = "none" => Rows(m)' = {}
    BY <1>2, <1>6 DEF Young, Rows
  <2>3. \A b \in Actor : proc'[b].pc \notin Leaseless => state'[proc'[b].lease] # "none"
    BY <1>1, <1>2, <1>6, <1>7 DEF Young
  <2>4. \A b \in Actor : \A d \in proc'[b].batch : d \in proc[b].batch
    BY <1>1
  <2>5. \A b \in Actor : \A d \in proc'[b].batch : state'[d.lease] # "none"
    BY <1>6, <2>4 DEF Young, Located, TypeOK, Proc, Snapshot
  <2>6. \A b, d \in Actor :
          proc'[b].pc = "begun" /\ b # d /\ proc'[d].lease = proc'[b].lease =>
            proc'[d].pc \in Leaseless \/ Empty(proc'[d])
    BY <1>1, <1>5 DEF Young
  <2>7. \A b, d \in Actor : \A e \in proc'[d].batch :
          proc'[b].pc = "begun" /\ e.lease = proc'[b].lease => e.todo = {}
    BY <1>1, <1>5, <2>4 DEF Young
  <2>8. \A b \in Actor, m \in Lease :
          Holds(b, m)' /\ state'[m] = "abandoned" => Empty(proc'[b])
    BY <1>1, <1>2, <1>4 DEF Young
  <2>. QED BY <2>1, <2>2, <2>3, <2>5, <2>6, <2>7, <2>8 DEF Young, Rows
<1>. QED BY <1>8, <1>9

\* Letting go of the claim: back to idle, to the sweep's loop, or to the
\* second save of lease-destroy. Only a lease that is no longer held, or held
\* by this command, is written.
LEMMA LetGoInv ==
  ASSUME Located, Claimed, Young, NEW a \in Actor, NEW l \in Lease, NEW to \in States,
         to # "none", state[l] # "none", UNCHANGED rowid,
         state' = [state EXCEPT ![l] = to],
         to = "abandoned" => \A b \in Actor : ~Holds(b, l),
         \A b \in Actor : b # a => ~Holds(b, l),
         \A b \in Actor : b # a /\ proc[b].pc = "save-destroyed" /\ proc[b].lease = l
                          => to \in Terminal,
         NEW q, Goto(a, q), q.pc \in Leaseless \cup {"save-destroyed"},
         q.pc = "save-destroyed" => q.lease = l /\ to \in Terminal /\ ~Empty(proc[a])
                                    /\ proc[a].pc \in Finalizer /\ proc[a].lease = l,
         q.batch \subseteq proc[a].batch
  PROVE  Claimed' /\ Young'
<1>1. proc'[a] = q /\ \A b \in Actor : b # a => proc'[b] = proc[b]
  BY DEF Goto, Located, TypeOK
<1>2. state'[l] = to /\ \A m \in Lease \ {l} : state'[m] = state[m]
  BY DEF Located, TypeOK
<1>3. \A b \in Actor, m \in Lease : Holds(b, m)' => b # a /\ m # l /\ Holds(b, m)
  BY <1>1 DEF Holds, Finalizer, Leaseless
<1>4. \A b \in Actor : proc'[b].pc = "begun" => b # a /\ proc[b].pc = "begun"
  BY <1>1 DEF Leaseless
<1>5. \A m \in Lease : state'[m] = "none" => state[m] = "none"  BY <1>2
<1>6. \A b \in Actor : proc[b].pc \notin Leaseless => proc[b].lease \in Lease
  BY DEF Located, Sound
<1>7. Claimed'
  <2>1. OneFinalizer'  BY <1>3 DEF Claimed, OneFinalizer
  <2>2. \A b \in Actor, m \in Lease : Holds(b, m)' => state'[m] \in {"ending", "abandoned"}
    BY <1>2, <1>3 DEF Claimed
  <2>3. ASSUME NEW b \in Actor, NEW c \in Actor, proc'[b].pc = "save-destroyed"
        PROVE  state'[proc'[b].lease] \in Terminal /\ ~Holds(c, proc[b].lease)'
    <3>1. CASE b = a
      <4>1. proc'[b].lease = l /\ to \in Terminal  BY <1>1, <2>3, <3>1 DEF Leaseless
      <4>2. ~Holds(c, l)'  BY <1>3
      <4>. QED BY <1>2, <4>1, <4>2 DEF Holds
    <3>2. CASE b # a
      <4>1. proc'[b] = proc[b] /\ proc[b].lease \in Lease
        BY <1>1, <1>6, <2>3, <3>2 DEF Leaseless
      <4>2. state'[proc[b].lease] \in Terminal
        BY <1>2, <2>3, <3>2, <4>1 DEF Claimed
      <4>3. ~Holds(c, proc[b].lease)  BY <2>3, <3>2, <4>1 DEF Claimed
      <4>4. \A m \in Lease : ~Holds(c, m) => ~Holds(c, m)'  BY <1>3
      <4>5. ~(proc'[c].pc \in Finalizer /\ proc'[c].lease = proc[b].lease)
        BY <4>1, <4>3, <4>4 DEF Holds
      <4>. QED BY <4>1, <4>2, <4>5 DEF Holds
    <3>. QED BY <3>1, <3>2
  <2>. QED BY <2>1, <2>2, <2>3 DEF Claimed, Holds
<1>8. Young'
  <2>1. \A b \in Actor :
          proc'[b].pc = "begun" =>
            state'[proc'[b].lease] # "none" /\ rowid' = rowid /\ Rows(proc[b].lease) = {}
            /\ proc'[b] = proc[b]
    BY <1>1, <1>2, <1>4, <1>5, <1>6 DEF Young, Leaseless
  <2>2. \A m \in Lease : state'[m] = "none" => Rows(m)' = {}
    BY <1>5 DEF Young, Rows
  <2>3. \A b \in Actor : proc'[b].pc \notin Leaseless => state'[proc'[b].lease] # "none"
    BY <1>1, <1>2, <1>5, <1>6 DEF Young
  <2>4. \A b \in Actor : \A d \in proc'[b].batch : d \in proc[b].batch
    BY <1>1
  <2>5. \A b \in Actor : \A d \in proc'[b].batch : state'[d.lease] # "none"
    BY <1>5, <2>4 DEF Young, Located, TypeOK, Proc, Snapshot
  <2>6. \A b, d \in Actor :
          proc'[b].pc = "begun" /\ b # d /\ proc'[d].lease = proc'[b].lease =>
            proc'[d].pc \in Leaseless \/ Empty(proc'[d])
    BY <1>1, <1>4 DEF Young, Leaseless, Finalizer
  <2>7. \A b, d \in Actor : \A e \in proc'[d].batch :
          proc'[b].pc = "begun" /\ e.lease = proc'[b].lease => e.todo = {}
    BY <1>1, <1>4, <2>4 DEF Young
  <2>8. \A b \in Actor, m \in Lease :
          Holds(b, m)' /\ state'[m] = "abandoned" => Empty(proc'[b])
    BY <1>1, <1>2, <1>3 DEF Young
  <2>. QED BY <2>1, <2>2, <2>3, <2>5, <2>6, <2>7, <2>8 DEF Young, Rows
<1>. QED BY <1>7, <1>8

-----------------------------------------------------------------------------
(* cleanup.py, step by step.                                               *)

\* The commands that load a lease have claimed nothing yet.
LEMMA LoadOutside ==
  ASSUME Located, Located', NEW a \in Actor,
         \/ \E l \in Lease, c \in {"lease-end", "lease-end-shared"} : EndLoad(a, l, c)
         \/ \E l \in Lease : DestroyLoad(a, l) \/ AbandonCheck(a, l)
  PROVE  Outside(a) /\ UNCHANGED <<state, rowid>>
<1>1. ASSUME NEW l \in Lease, NEW c, EndLoad(a, l, c) PROVE Outside(a)
  BY <1>1, OutsideIntro DEF EndLoad, Start, Idle, Finalizer
<1>2. ASSUME NEW l \in Lease, DestroyLoad(a, l) PROVE Outside(a)
  BY <1>2, OutsideIntro DEF DestroyLoad, Start, Idle, Finalizer
<1>3. ASSUME NEW l \in Lease, AbandonCheck(a, l) PROVE Outside(a)
  BY <1>3, OutsideIntro DEF AbandonCheck, Start, Idle, Finalizer
<1>4. UNCHANGED store  BY DEF EndLoad, DestroyLoad, AbandonCheck, ReadOnly
<1>. QED BY <1>1, <1>2, <1>3, <1>4 DEF store

\* Every step of the teardown between the claim and the save is inside.
LEMMA TeardownInside ==
  ASSUME Located, Located', NEW a \in Actor,
         \/ EndShared(a) \/ Unprotect(a)
         \/ FinalizeNext(a) \/ FinalizeTemplate(a) \/ FinalizeStop(a)
         \/ FinalizeShutdown(a) \/ FinalizeDelete(a) \/ FinalizeConfirm(a)
         \/ ForgetResource(a)
  PROVE  Inside(a) /\ UNCHANGED <<state, rowid>>
<1>. DEFINE p == proc[a]
<1>0. p \in Proc  BY DEF Located, TypeOK
<1>a. \A g : /\ Done(a, g).pc = "finalize" /\ Done(a, g).lease = p.lease
             /\ Done(a, g).batch = p.batch
             /\ Leave(a, g).pc = "finalize" /\ Leave(a, g).lease = p.lease
             /\ Leave(a, g).batch = p.batch
             /\ Fail(a, g).pc = "finalize" /\ Fail(a, g).lease = p.lease
             /\ Fail(a, g).batch = p.batch
  BY <1>0 DEF Proc, Done, Leave, Fail
<1>b. "finalize" \in Finalizer /\ "release" \in Finalizer /\ "stop" \in Finalizer
      /\ "shutdown" \in Finalizer /\ "delete" \in Finalizer /\ "forget" \in Finalizer
      /\ "confirm" \in Finalizer /\ "reconfirm" \in Finalizer
      /\ "shared" \in Finalizer /\ "unprotect" \in Finalizer
  BY DEF Finalizer
<1>c. \A c : /\ [p EXCEPT !.pc = c].pc = c /\ [p EXCEPT !.pc = c].lease = p.lease
             /\ [p EXCEPT !.pc = c].batch = p.batch
  BY <1>0 DEF Proc
<1>1. CASE EndShared(a)
  <2>1. Inside(a)
    BY <1>0, <1>1, <1>b, InsideIntro DEF EndShared, Finalizing, Proc, Empty
  <2>. QED BY <1>1, <2>1 DEF EndShared, ReadOnly, store
<1>2. CASE Unprotect(a)
  <2>1. Inside(a)
    BY <1>0, <1>2, <1>b, InsideIntro DEF Unprotect, Finalizing, Proc, Empty
  <2>. QED BY <1>2, <2>1 DEF Unprotect, store
<1>3. CASE FinalizeNext(a)
  <2>1. p.todo # {} /\ p.pc = "finalize"  BY <1>3 DEF FinalizeNext, IsNext
  <2>2. ~Empty(p)  BY <2>1 DEF Empty
  <2>3. \A g : [p EXCEPT !.pc = "stop", !.guest = g].lease = p.lease
               /\ [p EXCEPT !.pc = "stop", !.guest = g].batch = p.batch
               /\ [p EXCEPT !.pc = "stop", !.guest = g].pc = "stop"
    BY <1>0 DEF Proc
  <2>4. Inside(a)
    BY <1>3, <1>a, <1>b, <2>1, <2>2, <2>3, InsideIntro DEF FinalizeNext
  <2>. QED BY <1>3, <2>4 DEF FinalizeNext, ReadOnly, store
<1>4. CASE FinalizeTemplate(a)
  <2>1. Inside(a)
    BY <1>0, <1>4, <1>a, <1>b, InsideIntro DEF FinalizeTemplate, Proc, Empty
  <2>. QED BY <1>4, <2>1 DEF FinalizeTemplate, store
<1>5. CASE FinalizeStop(a)
  <2>1. Inside(a)
    BY <1>0, <1>5, <1>a, <1>b, InsideIntro DEF FinalizeStop, Proc, Empty
  <2>. QED BY <1>5, <2>1 DEF FinalizeStop, store
<1>6. CASE FinalizeShutdown(a)
  <2>1. Inside(a)
    BY <1>6, <1>a, <1>b, <1>c, InsideIntro DEF FinalizeShutdown, Doubt, Empty
  <2>. QED BY <1>6, <2>1 DEF FinalizeShutdown, store
<1>7. CASE FinalizeDelete(a)
  <2>1. Inside(a)
    BY <1>0, <1>7, <1>a, <1>b, InsideIntro DEF FinalizeDelete, Doubt, Proc, Empty
  <2>. QED BY <1>7, <2>1 DEF FinalizeDelete, store
<1>8. CASE ForgetResource(a)
  <2>1. Inside(a)
    BY <1>8, <1>a, <1>b, InsideIntro DEF ForgetResource, Empty
  <2>. QED BY <1>8, <2>1 DEF ForgetResource
<1>9. CASE FinalizeConfirm(a)
  <2>1. Inside(a)
    BY <1>9, <1>a, <1>b, <1>c, InsideIntro DEF FinalizeConfirm, Empty
  <2>. QED BY <1>9, <2>1 DEF FinalizeConfirm, store
<1>. QED BY <1>1, <1>2, <1>3, <1>4, <1>5, <1>6, <1>7, <1>8, <1>9

\* lease-end, lease-destroy: the claim.
LEMMA EndClaimInv ==
  ASSUME Located, Located', Claimed, Young, NEW a \in Actor, EndClaim(a)
  PROVE  Claimed' /\ Young'
<1>. DEFINE l == proc[a].lease
<1>0. proc[a] \in Proc /\ proc[a].pc = "claim"  BY DEF Located, TypeOK, EndClaim
<1>1. l \in Lease /\ proc[a].prior \in OpenState  BY <1>0, HolderSound
<1>2. CASE Goto(a, Idle) /\ UNCHANGED store
  BY <1>2, EndsOutside, NoRowAdded, OutsideClaimed, OutsideYoung DEF store
<1>3. ASSUME NEW pc \in {"unprotect", "shared"},
             ClaimLease(l, proc[a].prior, "ending"), Goto(a, [proc[a] EXCEPT !.pc = pc])
      PROVE  Claimed' /\ Young'
  <2>. DEFINE q == [proc[a] EXCEPT !.pc = pc]
  <2>1. q.pc \in Finalizer /\ q.lease = l /\ q.batch = proc[a].batch
    BY <1>0 DEF Proc, Finalizer
  <2>2. \A b \in Actor : ~(proc[b].pc = "begun" /\ proc[b].lease = l)
    BY <1>0 DEF Young, Leaseless, Empty
  <2>. HIDE DEF q
  <2>. QED BY <1>1, <1>3, <2>1, <2>2, WinInv DEF q
<1>. QED BY <1>2, <1>3 DEF EndClaim

\* cleanup-expired: the claim on the next lease of its list.
LEMMA SweepClaimInv ==
  ASSUME Located, Located', Claimed, Young, NEW a \in Actor, SweepClaim(a)
  PROVE  Claimed' /\ Young'
<1>0. proc[a] \in Proc /\ proc[a].pc = "sweep" /\ proc[a].cmd \in Sweeps
  BY DEF Located, TypeOK, Sound, SweepClaim
<1>1. PICK b \in proc[a].batch :
        LET rest == [proc[a] EXCEPT !.batch = @ \ {b}] IN
        \/ /\ ClaimLease(b.lease, b.prior, "ending")
           /\ Goto(a, Finalizing([rest EXCEPT !.lease = b.lease, !.prior = b.prior,
                                              !.todo = b.todo, !.failed = FALSE,
                                              !.left = {}]))
        \/ state[b.lease] # b.prior /\ UNCHANGED store /\ Goto(a, rest)
  BY DEF SweepClaim
<1>2. b.lease \in Lease /\ b.prior \in OpenState
  BY <1>0 DEF Located, Sound, Proc, Snapshot
<1>. DEFINE rest == [proc[a] EXCEPT !.batch = @ \ {b}]
<1>. DEFINE q == Finalizing([rest EXCEPT !.lease = b.lease, !.prior = b.prior,
                                         !.todo = b.todo, !.failed = FALSE, !.left = {}])
<1>3. CASE UNCHANGED store /\ Goto(a, rest)
  <2>1. rest.pc = "sweep" /\ rest.batch \subseteq proc[a].batch  BY <1>0 DEF Proc
  <2>. HIDE DEF rest
  <2>2. Outside(a)  BY <1>3, <2>1, OutsideIntro DEF Finalizer, Leaseless
  <2>. QED BY <1>3, <2>2, NoRowAdded, OutsideClaimed, OutsideYoung DEF store
<1>4. CASE ClaimLease(b.lease, b.prior, "ending") /\ Goto(a, q)
  <2>1. /\ q.pc = "finalize" /\ q.lease = b.lease /\ q.batch \subseteq proc[a].batch
        /\ q.cmd \in Sweeps /\ q.todo = b.todo /\ ~q.failed
    BY <1>0 DEF Proc, Finalizing
  <2>. HIDE DEF q
  <2>2. \A c \in Actor : proc[c].pc = "begun" /\ proc[c].lease = b.lease => Empty(q)
    BY <2>1 DEF Young, Empty
  <2>3. q.pc \in Finalizer  BY <2>1 DEF Finalizer
  <2>. QED BY <1>2, <1>4, <2>1, <2>2, <2>3, WinInv
<1>. QED BY <1>1, <1>3, <1>4

\* What the one holder of a lease knows about the others.
LEMMA HolderAlone ==
  ASSUME Located, Claimed, Young, NEW a \in Actor, proc[a].pc \in Finalizer
  PROVE  /\ proc[a].lease \in Lease /\ state[proc[a].lease] \in {"ending", "abandoned"}
         /\ \A b \in Actor : b # a => ~Holds(b, proc[a].lease)
         /\ \A b \in Actor : ~(proc[b].pc = "save-destroyed" /\ proc[b].lease = proc[a].lease)
<1>1. proc[a].lease \in Lease  BY HolderSound
<1>2. Holds(a, proc[a].lease)  BY DEF Holds
<1>. QED BY <1>1, <1>2 DEF Claimed, OneFinalizer

\* _release_claim hands the lease back as it was found.
LEMMA EndReleaseInv ==
  ASSUME Located, Claimed, Young, NEW a \in Actor, EndRelease(a)
  PROVE  Claimed' /\ Young'
<1>. DEFINE l == proc[a].lease
<1>0. proc[a].pc \in Finalizer  BY DEF EndRelease, Finalizer
<1>1. l \in Lease /\ proc[a].prior \in OpenState
  BY <1>0, HolderSound DEF Finalizer
<1>2. CASE UNCHANGED store
  BY <1>2, EndsOutside, NoRowAdded, OutsideClaimed, OutsideYoung DEF store, EndRelease
<1>3. CASE ClaimLease(l, "ending", proc[a].prior)
  <2>1. proc[a].prior \in States /\ proc[a].prior \notin {"none", "abandoned"}
    BY <1>1 DEF OpenState, States, NonTerminal
  <2>2. Idle.pc \in Leaseless /\ Idle.batch = {}  BY DEF Idle, Leaseless
  <2>3. Idle.pc # "save-destroyed"  BY DEF Idle
  <2>4. /\ state[l] # "none" /\ UNCHANGED rowid /\ Goto(a, Idle)
        /\ state' = [state EXCEPT ![l] = proc[a].prior]
    BY <1>3 DEF EndRelease, ClaimLease
  <2>5. /\ \A b \in Actor : b # a => ~Holds(b, l)
        /\ \A b \in Actor : ~(proc[b].pc = "save-destroyed" /\ proc[b].lease = l)
    BY <1>0, HolderAlone
  <2>. HIDE DEF l
  <2>. QED BY <1>1, <2>1, <2>2, <2>3, <2>4, <2>5, LetGoInv
<1>. QED BY <1>2, <1>3 DEF EndRelease

\* lease-abandon closes an open lease, which nobody holds.
LEMMA AbandonClaimInv ==
  ASSUME Located, Claimed, Young, NEW a \in Actor, AbandonClaim(a)
  PROVE  Claimed' /\ Young'
<1>. DEFINE l == proc[a].lease
<1>1. l \in Lease /\ proc[a].prior \in OpenState
  BY HolderSound DEF AbandonClaim
<1>2. CASE UNCHANGED store
  BY <1>2, EndsOutside, NoRowAdded, OutsideClaimed, OutsideYoung DEF store, AbandonClaim
<1>3. CASE ClaimLease(l, proc[a].prior, "abandoned")
  <2>1. "abandoned" \in States /\ "abandoned" \in Terminal  BY DEF States, Terminal
  <2>2. Idle.pc \in Leaseless /\ Idle.batch = {}  BY DEF Idle, Leaseless
  <2>3. Idle.pc # "save-destroyed"  BY DEF Idle
  <2>4. \A b \in Actor : ~Holds(b, l)
    BY <1>1, <1>3 DEF Claimed, ClaimLease, OpenState
  <2>. QED
    BY <1>1, <1>3, <2>1, <2>2, <2>3, <2>4, LetGoInv
    DEF AbandonClaim, ClaimLease, OpenState
<1>. QED BY <1>2, <1>3 DEF AbandonClaim

\* lease-destroy writes 'destroyed' over a lease that is closed already.
LEMMA SaveDestroyedInv ==
  ASSUME Located, Claimed, Young, NEW a \in Actor, SaveDestroyed(a)
  PROVE  Claimed' /\ Young'
<1>. DEFINE l == proc[a].lease
<1>1. proc[a].pc = "save-destroyed"  BY DEF SaveDestroyed
<1>2. l \in Lease  BY <1>1, HolderSound
<1>3. state[l] # "none" /\ \A b \in Actor : ~Holds(b, l)
  BY <1>1 DEF Claimed, Terminal
<1>4. "destroyed" \in States /\ "destroyed" \in Terminal  BY DEF States, Terminal
<1>5. Idle.pc \in Leaseless /\ Idle.batch = {}  BY DEF Idle, Leaseless
<1>6. Idle.pc # "save-destroyed"  BY DEF Idle
<1>. QED
  BY <1>2, <1>3, <1>4, <1>5, <1>6, LetGoInv DEF SaveDestroyed, SetLeaseState

\* The save of finalize_lease.
LEMMA SaveLeaseInv ==
  ASSUME Located, Claimed, Young, NEW a \in Actor, SaveLease(a)
  PROVE  Claimed' /\ Young'
<1>. DEFINE p == proc[a]
<1>. DEFINE to == IF p.failed THEN "cleanup_failed" ELSE "ended"
<1>0. p \in Proc /\ p.pc \in Finalizer  BY DEF SaveLease, Finalizer, Located, TypeOK
<1>1. p.lease \in Lease /\ state[p.lease] # "none"  BY <1>0, HolderAlone
<1>2. to \in States /\ to # "none" /\ to # "abandoned"
  BY DEF States, NonTerminal, Terminal
<1>3. state' = [state EXCEPT ![p.lease] = to] /\ UNCHANGED rowid
  BY DEF SaveLease, SetLeaseState
<1>. DEFINE q == [Idle EXCEPT !.pc = "sweep", !.cmd = p.cmd, !.batch = p.batch]
<1>. DEFINE d == [Idle EXCEPT !.pc = "save-destroyed", !.cmd = p.cmd, !.lease = p.lease]
<1>4. \/ Goto(a, q)
      \/ Goto(a, d) /\ ~p.failed /\ p.cmd = "lease-destroy"
      \/ Goto(a, Idle)
  BY DEF SaveLease
<1>5. q.pc = "sweep" /\ q.batch = p.batch  BY DEF Idle
<1>6. d.pc = "save-destroyed" /\ d.batch = {} /\ d.lease = p.lease  BY DEF Idle
<1>7. Idle.pc = "idle" /\ Idle.batch = {}  BY DEF Idle
<1>. HIDE DEF q, d
<1>a. /\ \A b \in Actor : b # a => ~Holds(b, p.lease)
      /\ \A b \in Actor : ~(proc[b].pc = "save-destroyed" /\ proc[b].lease = p.lease)
  BY <1>0, HolderAlone
<1>8. CASE Goto(a, q)
  <2>1. q.pc \in Leaseless /\ q.pc # "save-destroyed"  BY <1>5 DEF Leaseless
  <2>2. q.batch \subseteq p.batch  BY <1>5
  <2>. DEFINE l == p.lease
  <2>3. /\ l \in Lease /\ state[l] # "none" /\ UNCHANGED rowid
        /\ state' = [state EXCEPT ![l] = to]
    BY <1>1, <1>3
  <2>4. /\ \A b \in Actor : b # a => ~Holds(b, l)
        /\ \A b \in Actor : ~(proc[b].pc = "save-destroyed" /\ proc[b].lease = l)
    BY <1>a
  <2>. HIDE DEF to, l
  <2>. QED BY <1>2, <1>8, <2>1, <2>2, <2>3, <2>4, LetGoInv
<1>9. CASE Goto(a, d) /\ ~p.failed /\ p.cmd = "lease-destroy"
  <2>1. to \in Terminal  BY <1>9 DEF Terminal
  <2>2. ~Empty(p)  BY <1>9 DEF Empty, Sweeps
  <2>. HIDE DEF to
  <2>. QED BY <1>0, <1>1, <1>2, <1>3, <1>6, <1>9, <1>a, <2>1, <2>2, LetGoInv
<1>10. CASE Goto(a, Idle)
  <2>1. Idle.pc \in Leaseless /\ Idle.pc # "save-destroyed"  BY <1>7 DEF Leaseless
  <2>2. Idle.batch \subseteq p.batch  BY <1>7
  <2>. DEFINE l == p.lease
  <2>3. /\ l \in Lease /\ state[l] # "none" /\ UNCHANGED rowid
        /\ state' = [state EXCEPT ![l] = to]
    BY <1>1, <1>3
  <2>4. /\ \A b \in Actor : b # a => ~Holds(b, l)
        /\ \A b \in Actor : ~(proc[b].pc = "save-destroyed" /\ proc[b].lease = l)
    BY <1>a
  <2>. HIDE DEF to, l
  <2>. QED BY <1>2, <1>10, <2>1, <2>2, <2>3, <2>4, LetGoInv
<1>. QED BY <1>4, <1>8, <1>9, <1>10

\* troubleshooting.md's update: only of a lease nobody holds.
LEMMA ManualReclaimInv ==
  ASSUME Located, Claimed, Young, NEW l \in Lease, ManualReclaim(l)
  PROVE  Claimed' /\ Young'
<1>1. /\ state[l] = "ending" /\ state'[l] = "cleanup_failed"
      /\ \A m \in Lease \ {l} : state'[m] = state[m]
      /\ UNCHANGED <<rowid, proc>> /\ \A b \in Actor : ~Holds(b, l)
  BY DEF ManualReclaim, ClaimLease, Located, TypeOK
<1>2. \A m \in Lease : (state'[m] = "none" <=> state[m] = "none")
                       /\ (state'[m] = "abandoned" => state[m] = "abandoned")
  BY <1>1
<1>3. Claimed'
  <2>1. \A b \in Actor : proc[b].pc = "save-destroyed" =>
          proc[b].lease \in Lease /\ proc[b].lease # l
    BY <1>1, HolderSound DEF Claimed, Terminal
  <2>. QED BY <1>1, <2>1 DEF Claimed, OneFinalizer, Holds
<1>4. Young'
  <2>1. \A b \in Actor : proc[b].pc \notin Leaseless => proc[b].lease \in Lease
    BY DEF Located, Sound
  <2>2. \A b \in Actor : \A c \in proc[b].batch : c.lease \in Lease
    BY DEF Located, TypeOK, Proc, Snapshot
  <2>. QED BY <1>1, <1>2, <2>1, <2>2 DEF Young, Holds, Rows, Leaseless
<1>. QED BY <1>3, <1>4

-----------------------------------------------------------------------------
(* The theorems.                                                           *)

\* The invariant holds before the first command.
LEMMA InitInv == Init => IInv
<1>. SUFFICES ASSUME Init PROVE IInv  OBVIOUS
<1>1. \A a \in Actor : proc[a] = Idle  BY DEF Init
<1>2. Idle.pc = "idle" /\ Idle.batch = {}  BY DEF Idle
<1>3. Claimed
  BY <1>1, <1>2 DEF Claimed, OneFinalizer, Holds, Finalizer
<1>4. Young
  BY <1>1, <1>2 DEF Young, Holds, Finalizer, Leaseless, Init, Rows
<1>. QED BY <1>3, <1>4, InitLocated DEF IInv

\* Every step keeps it.
LEMMA NextInv == IInv /\ [Next]_vars => IInv'
<1>. SUFFICES ASSUME IInv, [Next]_vars PROVE IInv'  OBVIOUS
<1>. USE DEF IInv
<1>0. Located'  BY NextLocated
<1>1. ASSUME UNCHANGED <<state, rowid, proc>> PROVE Claimed' /\ Young'
  <2>1. Claimed'  BY <1>1 DEF Claimed, OneFinalizer, Holds
  <2>2. Young'  BY <1>1 DEF Young, Holds, Rows
  <2>. QED BY <2>1, <2>2
<1>2. CASE Tick  BY <1>0, <1>1, <1>2 DEF Tick, store
<1>3. ASSUME NEW g \in Guest, ManualRemove(g) PROVE Claimed' /\ Young'
  BY <1>1, <1>3 DEF ManualRemove, store
<1>4. ASSUME NEW l \in Lease, ManualReclaim(l) PROVE Claimed' /\ Young'
  BY <1>4, ManualReclaimInv
<1>5. ASSUME NEW a \in Actor, Outside(a), UNCHANGED state, RowsOfOwnLease(a)
      PROVE  Claimed' /\ Young'
  BY <1>5, OutsideClaimed, OutsideYoung
<1>6. ASSUME NEW a \in Actor, Inside(a), UNCHANGED <<state, rowid>>
      PROVE  Claimed' /\ Young'
  BY <1>6, InsideClaimed, InsideYoung
<1>7. ASSUME NEW a \in Actor, Crash(a) PROVE Claimed' /\ Young'
  BY <1>5, <1>7, EndsOutside, NoRowAdded DEF Crash, store
<1>8. ASSUME NEW a \in Actor, LeaseStep(a) PROVE Claimed' /\ Young'
  <2>1. ASSUME NEW l \in Lease, BeginInsert(a, l) PROVE Claimed' /\ Young'
    BY <1>0, <2>1, BeginInsertInv
  <2>2. CASE BeginFail(a)  BY <2>2, BeginFailInv
  <2>3. CASE ~BeginFail(a) /\ \A l \in Lease : ~BeginInsert(a, l)
    BY <1>0, <1>5, <1>8, <2>3, LeaseStepOutside
  <2>. QED BY <2>1, <2>2, <2>3
<1>9. ASSUME NEW a \in Actor, GuestStep(a) PROVE Claimed' /\ Young'
  BY <1>0, <1>5, <1>9, GuestStepOutside
<1>10. ASSUME NEW a \in Actor, CleanupStep(a) PROVE Claimed' /\ Young'
  <2>1. CASE \/ \E l \in Lease, c \in {"lease-end", "lease-end-shared"} : EndLoad(a, l, c)
             \/ \E l \in Lease : DestroyLoad(a, l) \/ AbandonCheck(a, l)
    BY <1>0, <1>5, <2>1, LoadOutside, NoRowAdded
  <2>2. CASE \E c \in Sweeps : SweepList(a, c)  BY <2>2, SweepListInv
  <2>3. CASE EndClaim(a)  BY <1>0, <2>3, EndClaimInv
  <2>4. CASE SweepClaim(a)  BY <1>0, <2>4, SweepClaimInv
  <2>5. CASE \/ EndShared(a) \/ Unprotect(a)
             \/ FinalizeNext(a) \/ FinalizeTemplate(a) \/ FinalizeStop(a)
             \/ FinalizeShutdown(a) \/ FinalizeDelete(a) \/ FinalizeConfirm(a)
             \/ ForgetResource(a)
    BY <1>0, <1>6, <2>5, TeardownInside
  <2>6. CASE EndRelease(a)  BY <2>6, EndReleaseInv
  <2>7. CASE SweepDone(a)
    BY <1>5, <2>7, EndsOutside, NoRowAdded DEF SweepDone, ReadOnly, store
  <2>8. CASE SaveDestroyed(a)  BY <2>8, SaveDestroyedInv
  <2>9. CASE SaveLease(a)  BY <2>9, SaveLeaseInv
  <2>10. CASE AbandonClaim(a)  BY <2>10, AbandonClaimInv
  <2>. QED
    BY <1>10, <2>1, <2>2, <2>3, <2>4, <2>5, <2>6, <2>7, <2>8, <2>9, <2>10
    DEF CleanupStep, Sweeps
<1>11. CASE UNCHANGED vars
  <2>1. UNCHANGED <<state, rowid, proc>>  BY <1>11 DEF vars, store
  <2>. QED BY <1>0, <1>1, <2>1
<1>. QED
  BY <1>0, <1>2, <1>3, <1>4, <1>7, <1>8, <1>9, <1>10, <1>11 DEF Next, ByHand, Step

\* The inductive invariant holds in every reachable state.
THEOREM Invariance == Spec => []IInv
  BY InitInv, NextInv, PTL DEF Spec

\* The compare-and-swap of leases.claim_lease works: however many commands
\* run, fail and are killed, no two of them tear down one lease.
THEOREM ExclusiveClaim == Spec => []OneFinalizer
<1>1. IInv => OneFinalizer  BY DEF IInv, Claimed
<1>. QED BY <1>1, Invariance, PTL

-----------------------------------------------------------------------------
(* A closed lease stays closed.                                            *)

\* The one save that could reopen a lease is of a lease still in 'ending'.
LEMMA SaveLeaseFinal ==
  ASSUME IInv, NEW a \in Actor, SaveLease(a)
  PROVE  /\ proc[a].lease \in Lease /\ state[proc[a].lease] \in {"ending", "abandoned"}
         /\ state[proc[a].lease] = "abandoned" =>
              ~proc[a].failed /\ proc[a].cmd # "lease-destroy"
<1>1. proc[a].pc \in Finalizer  BY DEF SaveLease, Finalizer
<1>2. proc[a].lease \in Lease /\ state[proc[a].lease] \in {"ending", "abandoned"}
  BY <1>1, HolderAlone DEF IInv
<1>3. ASSUME state[proc[a].lease] = "abandoned" PROVE Empty(proc[a])
  BY <1>1, <1>2, <1>3 DEF IInv, Young, Holds
<1>. QED BY <1>2, <1>3 DEF Empty, Sweeps

\* No step of any command takes a lease out of a terminal state.
LEMMA TerminalStep ==
  ASSUME IInv, [Next]_vars, NEW l \in Lease, state[l] \in Terminal
  PROVE  state'[l] \in Terminal
<1>0. Located /\ Located' /\ Claimed /\ Young  BY NextLocated DEF IInv
<1>1. ASSUME NEW a \in Actor, NEW m \in Lease, BeginInsert(a, m)
      PROVE  state'[l] \in Terminal
  BY <1>0, <1>1 DEF BeginInsert, Located, TypeOK, Terminal
<1>2. ASSUME NEW a \in Actor, BeginFail(a) PROVE state'[l] \in Terminal
  BY <1>0, <1>2 DEF BeginFail, SetLeaseState, Located, TypeOK, Terminal
<1>3. ASSUME NEW a \in Actor, EndClaim(a) PROVE state'[l] \in Terminal
  <2>1. proc[a].prior \in OpenState  BY <1>0, <1>3, HolderSound DEF EndClaim
  <2>. QED
    BY <1>0, <1>3, <2>1
    DEF EndClaim, ClaimLease, store, Located, TypeOK, Terminal, OpenState
<1>4. ASSUME NEW a \in Actor, SweepClaim(a) PROVE state'[l] \in Terminal
  <2>1. \A b \in proc[a].batch : b.prior \in OpenState  BY <1>0 DEF Located, Sound
  <2>2. \/ UNCHANGED state
        \/ \E m, from : from \in OpenState /\ ClaimLease(m, from, "ending")
    BY <1>4, <2>1 DEF SweepClaim, store
  <2>. QED
    BY <1>0, <2>2 DEF ClaimLease, Located, TypeOK, Terminal, OpenState
<1>5. ASSUME NEW a \in Actor, EndRelease(a) PROVE state'[l] \in Terminal
  BY <1>0, <1>5 DEF EndRelease, ClaimLease, store, Located, TypeOK, Terminal
<1>6. ASSUME NEW a \in Actor, AbandonClaim(a) PROVE state'[l] \in Terminal
  BY <1>0, <1>6 DEF AbandonClaim, ClaimLease, store, Located, TypeOK, Terminal
<1>7. ASSUME NEW a \in Actor, SaveDestroyed(a) PROVE state'[l] \in Terminal
  BY <1>0, <1>7 DEF SaveDestroyed, SetLeaseState, Located, TypeOK, Terminal
<1>8. ASSUME NEW a \in Actor, SaveLease(a) PROVE state'[l] \in Terminal
  <2>. DEFINE to == IF proc[a].failed THEN "cleanup_failed" ELSE "ended"
  <2>1. state' = [state EXCEPT ![proc[a].lease] = to]
    BY <1>8 DEF SaveLease, SetLeaseState
  <2>2. proc[a].lease = l => to = "ended"
    BY <1>8, SaveLeaseFinal DEF Terminal
  <2>. HIDE DEF to
  <2>. QED BY <1>0, <2>1, <2>2 DEF Located, TypeOK, Terminal
<1>9. ASSUME NEW m \in Lease, ManualReclaim(m) PROVE state'[l] \in Terminal
  BY <1>0, <1>9 DEF ManualReclaim, ClaimLease, Located, TypeOK, Terminal
<1>10. ASSUME NEW a \in Actor, LeaseStep(a) PROVE state'[l] \in Terminal
  BY <1>0, <1>1, <1>2, <1>10, LeaseStepOutside
<1>11. ASSUME NEW a \in Actor, GuestStep(a) PROVE state'[l] \in Terminal
  BY <1>0, <1>11, GuestStepOutside
<1>12. ASSUME NEW a \in Actor, CleanupStep(a) PROVE state'[l] \in Terminal
  <2>1. CASE \/ \E m \in Lease, c \in {"lease-end", "lease-end-shared"} : EndLoad(a, m, c)
             \/ \E m \in Lease : DestroyLoad(a, m) \/ AbandonCheck(a, m)
    BY <1>0, <2>1, LoadOutside
  <2>2. CASE SweepDone(a) \/ \E c \in Sweeps : SweepList(a, c)
    BY <2>2 DEF SweepDone, SweepList, ReadOnly, store
  <2>3. CASE \/ EndShared(a) \/ Unprotect(a)
             \/ FinalizeNext(a) \/ FinalizeTemplate(a) \/ FinalizeStop(a)
             \/ FinalizeShutdown(a) \/ FinalizeDelete(a) \/ FinalizeConfirm(a)
             \/ ForgetResource(a)
    BY <1>0, <2>3, TeardownInside
  <2>. QED
    BY <1>3, <1>4, <1>5, <1>6, <1>7, <1>8, <1>12, <2>1, <2>2, <2>3
    DEF CleanupStep, Sweeps
<1>13. CASE Tick \/ (\E g \in Guest : ManualRemove(g)) \/ (\E a \in Actor : Crash(a))
  BY <1>13 DEF Tick, ManualRemove, Crash, store
<1>14. CASE UNCHANGED vars  BY <1>14 DEF vars, store
<1>. QED
  BY <1>9, <1>10, <1>11, <1>12, <1>13, <1>14 DEF Next, ByHand, Step

\* However commands interleave, fail and die, a lease that was ended,
\* destroyed or abandoned is never open again.
THEOREM ClosedStaysClosed == Spec => TerminalIsFinal
<1>1. IInv /\ [Next]_vars =>
        [\A l \in Lease : state[l] \in Terminal => state'[l] \in Terminal]_vars
  BY TerminalStep
<1>. QED BY <1>1, Invariance, PTL DEF Spec, TerminalIsFinal

-----------------------------------------------------------------------------
(* Lab implements LeaseSpec.                                               *)

\* What a step does to the abstract lease follows from what it does to the
\* state of one lease and to the commands that hold it.
LEMMA BecomeIntro ==
  ASSUME Located, NEW l \in Lease, NEW s \in States, state' = [state EXCEPT ![l] = s],
         \A b \in Actor, m \in Lease \ {l} : Holds(b, m)' <=> Holds(b, m),
         NEW p, NEW h, Phase'[l] = p, Holder'[l] = h
  PROVE  LS!Become(l, p, h)
<1>1. state'[l] = s /\ \A m \in Lease \ {l} : state'[m] = state[m]
  BY DEF Located, TypeOK
<1>2. \A m \in Lease \ {l} : Phase'[m] = Phase[m]  BY <1>1 DEF Phase
<1>3. \A m \in Lease \ {l} : Holder'[m] = Holder[m]
  <2>1. SUFFICES ASSUME NEW m \in Lease \ {l} PROVE Holder'[m] = Holder[m]  OBVIOUS
  <2>2. state'[m] = state[m]  BY <1>1
  <2>3. \A b \in Actor : Holds(b, m)' <=> Holds(b, m)  OBVIOUS
  <2>4. Holder[m] = {a \in Actor : state[m] = "ending" /\ Holds(a, m)}  BY DEF Holder
  <2>5. Holder'[m] = {a \in Actor : state'[m] = "ending" /\ Holds(a, m)'}
    BY DEF Holder, Holds
  <2>. QED BY <2>2, <2>3, <2>4, <2>5
<1>4. Phase' = [Phase EXCEPT ![l] = p]
  <2>1. Phase = [m \in Lease |-> Phase[m]] /\ Phase' = [m \in Lease |-> Phase'[m]]
    BY DEF Phase
  <2>. HIDE DEF Phase
  <2>. QED BY <1>2, <2>1
<1>5. Holder' = [Holder EXCEPT ![l] = h]
  <2>1. Holder = [m \in Lease |-> Holder[m]] /\ Holder' = [m \in Lease |-> Holder'[m]]
    BY DEF Holder
  <2>. QED BY <1>3, <2>1
<1>. QED BY <1>4, <1>5 DEF LS!Become

\* A step the abstract lease does not see.
LEMMA StutterIntro ==
  ASSUME \A m \in Lease : Phase'[m] = Phase[m] /\ Holder'[m] = Holder[m]
  PROVE  UNCHANGED LS!lvars
<1>1. Phase = [m \in Lease |-> Phase[m]] /\ Phase' = [m \in Lease |-> Phase'[m]]
  BY DEF Phase
<1>2. Holder = [m \in Lease |-> Holder[m]] /\ Holder' = [m \in Lease |-> Holder'[m]]
  BY DEF Holder
<1>. QED BY <1>1, <1>2 DEF LS!lvars

\* Nothing about the lease rows and the claims has changed.
LEMMA SameClaims ==
  ASSUME UNCHANGED state, \A b \in Actor, m \in Lease : Holds(b, m)' <=> Holds(b, m)
  PROVE  UNCHANGED LS!lvars
<1>1. \A m \in Lease : Phase'[m] = Phase[m]  BY DEF Phase
<1>2. ASSUME NEW m \in Lease PROVE Holder'[m] = Holder[m]
  <2>1. Holder[m] = {b \in Actor : state[m] = "ending" /\ Holds(b, m)}  BY DEF Holder
  <2>2. Holder'[m] = {b \in Actor : state'[m] = "ending" /\ Holds(b, m)'}
    BY DEF Holder, Holds
  <2>. QED BY <2>1, <2>2
<1>. QED BY <1>1, <1>2, StutterIntro

\* What Phase and Holder are, read off one lease.
LEMMA PhaseIs ==
  ASSUME NEW l \in Lease
  PROVE  /\ state[l] = "none" => Phase[l] = "none"
         /\ state[l] \in OpenState => Phase[l] = "open"
         /\ state[l] = "ending" => Phase[l] = "closing"
         /\ state[l] \in Terminal => Phase[l] = "closed"
         /\ state'[l] \in OpenState => Phase'[l] = "open"
         /\ state'[l] = "ending" => Phase'[l] = "closing"
         /\ state'[l] \in Terminal => Phase'[l] = "closed"
         /\ state[l] # "ending" => Holder[l] = {}
         /\ state'[l] # "ending" => Holder'[l] = {}
  BY DEF Phase, Holder, OpenState, Terminal

\* Who holds what after a command has let go of lease l, or never held any.
LEMMA HoldsAfter ==
  ASSUME Located, NEW a \in Actor, NEW q, Goto(a, q), q.pc \notin Finalizer
  PROVE  \A b \in Actor, m \in Lease : Holds(b, m)' <=> b # a /\ Holds(b, m)
<1>1. proc'[a] = q /\ \A b \in Actor : b # a => proc'[b] = proc[b]
  BY DEF Goto, Located, TypeOK
<1>. QED BY <1>1 DEF Holds

\* A command that leaves its claim behind, or has none, makes the abstract
\* step Lose or none.
LEMMA OutsideRefines ==
  ASSUME Located, Claimed, NEW a \in Actor, Outside(a), UNCHANGED state
  PROVE  [LS!LNext]_LS!lvars
<1>1. \A b \in Actor, m \in Lease : Holds(b, m)' <=> b # a /\ Holds(b, m)
  BY HoldsAfter DEF Outside
<1>2. CASE proc[a].pc \in Finalizer /\ state[proc[a].lease] = "ending"
  <2>0. PICK l \in Lease : l = proc[a].lease  BY <1>2, HolderSound
  <2>1. state[l] = "ending" /\ Holds(a, l)  BY <1>2, <2>0 DEF Holds
  <2>2. \A b \in Actor : ~Holds(b, l)'  BY <1>1, <2>1 DEF Claimed, OneFinalizer
  <2>3. Holder'[l] = {}
    <3>1. Holder'[l] = {b \in Actor : state'[l] = "ending" /\ Holds(b, l)'}
      BY DEF Holder, Holds
    <3>. QED BY <2>2, <3>1
  <2>4. Phase[l] = "closing" /\ Phase'[l] = "closing"  BY <2>1, PhaseIs
  <2>5. state' = [state EXCEPT ![l] = "ending"] /\ "ending" \in States
    BY <2>1 DEF Located, TypeOK, States, NonTerminal
  <2>6. \A b \in Actor, m \in Lease \ {l} : Holds(b, m)' <=> Holds(b, m)
    BY <1>1, <2>1 DEF Holds
  <2>7. LS!Become(l, "closing", {})  BY <2>1, <2>3, <2>4, <2>5, <2>6, BecomeIntro
  <2>. QED BY <2>1, <2>4, <2>7 DEF LS!LNext, LS!Lose
<1>3. CASE ~(proc[a].pc \in Finalizer /\ state[proc[a].lease] = "ending")
  <2>1. \A m \in Lease : Phase'[m] = Phase[m]  BY DEF Phase
  <2>2. ASSUME NEW m \in Lease PROVE Holder'[m] = Holder[m]
    <3>1. Holder[m] = {b \in Actor : state[m] = "ending" /\ Holds(b, m)}  BY DEF Holder
    <3>2. Holder'[m] = {b \in Actor : state'[m] = "ending" /\ Holds(b, m)'}
      BY DEF Holder, Holds
    <3>3. state[m] = "ending" => ~Holds(a, m)  BY <1>3 DEF Holds
    <3>. QED BY <1>1, <3>1, <3>2, <3>3
  <2>. QED BY <2>1, <2>2, StutterIntro
<1>. QED BY <1>2, <1>3

\* Inside the teardown nothing shows.
LEMMA InsideRefines ==
  ASSUME Located, NEW a \in Actor, Inside(a), UNCHANGED state
  PROVE  [LS!LNext]_LS!lvars
<1>1. PICK p \in Proc : /\ Goto(a, p) /\ p.pc \in Finalizer
                        /\ proc[a].pc \in Finalizer /\ p.lease = proc[a].lease
  BY DEF Inside
<1>2. /\ proc'[a] = p
      /\ \A b \in Actor : b # a => proc'[b] = proc[b]
  BY <1>1, GotoOthers
<1>3. \A b \in Actor, l \in Lease : Holds(b, l)' <=> Holds(b, l)
  BY <1>1, <1>2 DEF Holds
<1>. QED BY <1>3, SameClaims

\* Winning the claim is the abstract Claim.
LEMMA WinRefines ==
  ASSUME Located, Claimed, NEW a \in Actor, NEW l \in Lease,
         NEW from \in OpenState, ClaimLease(l, from, "ending"),
         NEW q, Goto(a, q), q.pc \in Finalizer, q.lease = l,
         proc[a].pc \notin Finalizer
  PROVE  LS!LNext
<1>1. proc'[a] = q /\ \A b \in Actor : b # a => proc'[b] = proc[b]
  BY DEF Goto, Located, TypeOK
<1>2. state[l] \in OpenState /\ state' = [state EXCEPT ![l] = "ending"]
  BY DEF ClaimLease
<1>3. state'[l] = "ending" /\ "ending" \in States
  BY <1>2 DEF Located, TypeOK, States, NonTerminal
<1>4. \A b \in Actor : ~Holds(b, l)  BY <1>2 DEF Claimed, OpenState
<1>5. \A b \in Actor : Holds(b, l)' <=> b = a  BY <1>1, <1>4 DEF Holds
<1>6. \A b \in Actor, m \in Lease \ {l} : Holds(b, m)' <=> Holds(b, m)
  BY <1>1 DEF Holds
<1>7. Holder'[l] = {a}
  <2>1. Holder'[l] = {b \in Actor : state'[l] = "ending" /\ Holds(b, l)'}
    BY DEF Holder, Holds
  <2>. QED BY <1>3, <1>5, <2>1
<1>8. Phase[l] = "open" /\ Phase'[l] = "closing"  BY <1>2, <1>3, PhaseIs
<1>9. LS!Become(l, "closing", {a})  BY <1>2, <1>3, <1>6, <1>7, <1>8, BecomeIntro
<1>. QED BY <1>8, <1>9 DEF LS!LNext, LS!Claim

\* Letting go of the claim, done or handed back, is the abstract Settle.
LEMMA SettleRefines ==
  ASSUME Located, Claimed, NEW a \in Actor, NEW l \in Lease, Holds(a, l),
         state[l] = "ending", NEW to \in OpenState \cup Terminal,
         state' = [state EXCEPT ![l] = to], NEW q, Goto(a, q), q.pc \notin Finalizer
  PROVE  LS!LNext
<1>1. \A b \in Actor, m \in Lease : Holds(b, m)' <=> b # a /\ Holds(b, m)
  BY HoldsAfter
<1>2. state'[l] = to /\ to \in States /\ to # "ending"
  BY DEF Located, TypeOK, States, NonTerminal, OpenState, Terminal
<1>3. \A b \in Actor, m \in Lease \ {l} : Holds(b, m)' <=> Holds(b, m)
  BY <1>1 DEF Holds
<1>4. Phase[l] = "closing" /\ Phase'[l] \in {"open", "closed"} /\ Holder'[l] = {}
  BY <1>2, PhaseIs
<1>5. Holder[l] # {}  BY DEF Holder
<1>6. LS!Become(l, Phase'[l], {})  BY <1>2, <1>3, <1>4, BecomeIntro
<1>. QED BY <1>4, <1>5, <1>6 DEF LS!LNext, LS!Settle

\* Closing a lease without tearing it down is the abstract Drop, or nothing if
\* it was closed before.
LEMMA DropRefines ==
  ASSUME Located, NEW a \in Actor, NEW l \in Lease, state[l] # "none",
         NEW to \in Terminal, state' = [state EXCEPT ![l] = to],
         NEW q, Goto(a, q), q.pc \notin Finalizer,
         proc[a].pc \notin Finalizer \/ state[l] # "ending",
         proc[a].pc \in Finalizer => proc[a].lease = l
  PROVE  [LS!LNext]_LS!lvars
<1>1. \A b \in Actor, m \in Lease \ {l} : Holds(b, m)' <=> Holds(b, m)
  BY HoldsAfter DEF Holds
<1>2. state'[l] = to /\ to \in States /\ \A m \in Lease \ {l} : state'[m] = state[m]
  BY DEF Located, TypeOK, States, Terminal
<1>3. Phase'[l] = "closed" /\ Holder'[l] = {}  BY <1>2, PhaseIs DEF Terminal
<1>4. CASE state[l] \in Terminal
  <2>1. Phase[l] = "closed" /\ Holder[l] = {}  BY <1>4, PhaseIs DEF Terminal
  <2>2. ASSUME NEW m \in Lease \ {l} PROVE Phase'[m] = Phase[m] /\ Holder'[m] = Holder[m]
    <3>1. Phase'[m] = Phase[m]  BY <1>2 DEF Phase
    <3>2. Holder[m] = {b \in Actor : state[m] = "ending" /\ Holds(b, m)}  BY DEF Holder
    <3>3. Holder'[m] = {b \in Actor : state'[m] = "ending" /\ Holds(b, m)'}
      BY DEF Holder, Holds
    <3>. QED BY <1>1, <1>2, <3>1, <3>2, <3>3
  <2>. QED BY <1>3, <2>1, <2>2, StutterIntro
<1>5. CASE state[l] \notin Terminal
  <2>1. state[l] \in OpenState \cup {"ending"}
    BY <1>5 DEF Located, TypeOK, States, NonTerminal, OpenState
  <2>2. Phase[l] \in {"open", "closing"}  BY <2>1, PhaseIs
  <2>3. LS!Become(l, "closed", {})  BY <1>1, <1>2, <1>3, BecomeIntro
  <2>. QED BY <2>2, <2>3 DEF LS!LNext, LS!Drop
<1>. QED BY <1>4, <1>5

\* lease-begin is the abstract Open.
LEMMA OpenRefines ==
  ASSUME Located, NEW a \in Actor, NEW l \in Lease, BeginInsert(a, l)
  PROVE  LS!LNext
<1>. DEFINE q == [[Idle EXCEPT !.pc = "begun", !.lease = l] EXCEPT !.cmd = "lease-begin"]
<1>1. Goto(a, q) /\ proc[a] = Idle  BY DEF BeginInsert, Start
<1>2. q.pc \notin Finalizer /\ Idle.pc \notin Finalizer  BY DEF Idle, Finalizer
<1>. HIDE DEF q
<1>3. \A b \in Actor, m \in Lease : Holds(b, m)' <=> Holds(b, m)
  BY <1>1, <1>2, HoldsAfter DEF Holds
<1>4. /\ state[l] = "none" /\ state' = [state EXCEPT ![l] = "active"]
      /\ state'[l] = "active" /\ "active" \in States
  BY DEF BeginInsert, Located, TypeOK, States, NonTerminal
<1>5. Phase[l] = "none" /\ Phase'[l] = "open" /\ Holder'[l] = {}
  BY <1>4, PhaseIs DEF OpenState
<1>6. LS!Become(l, "open", {})  BY <1>3, <1>4, <1>5, BecomeIntro
<1>. QED BY <1>5, <1>6 DEF LS!LNext, LS!Open

\* The update of troubleshooting.md is the abstract Reclaim.
LEMMA ReclaimRefines ==
  ASSUME Located, NEW l \in Lease, ManualReclaim(l)
  PROVE  LS!LNext
<1>1. /\ state[l] = "ending" /\ state' = [state EXCEPT ![l] = "cleanup_failed"]
      /\ UNCHANGED proc /\ \A b \in Actor : ~Holds(b, l)
  BY DEF ManualReclaim, ClaimLease
<1>2. state'[l] = "cleanup_failed" /\ "cleanup_failed" \in States
  BY <1>1 DEF Located, TypeOK, States, NonTerminal
<1>3. \A b \in Actor, m \in Lease : Holds(b, m)' <=> Holds(b, m)  BY <1>1 DEF Holds
<1>4. Phase[l] = "closing" /\ Phase'[l] = "open" /\ Holder'[l] = {}
  BY <1>1, <1>2, PhaseIs DEF OpenState
<1>5. Holder[l] = {}  BY <1>1 DEF Holder
<1>6. LS!Become(l, "open", {})  BY <1>1, <1>2, <1>3, <1>4, BecomeIntro
<1>. QED BY <1>4, <1>5, <1>6 DEF LS!LNext, LS!Reclaim

\* cleanup.py, step by step.
LEMMA CleanupStepRefines ==
  ASSUME IInv, Located', NEW a \in Actor, CleanupStep(a)
  PROVE  [LS!LNext]_LS!lvars
<1>. USE DEF IInv
<1>0. Idle.pc = "idle" /\ "idle" \notin Finalizer /\ "sweep" \notin Finalizer
      /\ "save-destroyed" \notin Finalizer /\ "finalize" \in Finalizer
      /\ "release" \in Finalizer /\ "claim" \notin Finalizer
      /\ "abandon-claim" \notin Finalizer
      /\ "shared" \in Finalizer /\ "unprotect" \in Finalizer
  BY DEF Idle, Finalizer
<1>a. proc[a] \in Proc  BY DEF Located, TypeOK
<1>b. ASSUME UNCHANGED store, Goto(a, Idle) PROVE [LS!LNext]_LS!lvars
  BY <1>b, EndsOutside, OutsideRefines DEF store
<1>1. CASE \/ \E m \in Lease, c \in {"lease-end", "lease-end-shared"} : EndLoad(a, m, c)
           \/ \E m \in Lease : DestroyLoad(a, m) \/ AbandonCheck(a, m)
  BY <1>1, LoadOutside, OutsideRefines
<1>2. ASSUME NEW c, SweepList(a, c) PROVE [LS!LNext]_LS!lvars
  <2>1. proc[a] = Idle /\ UNCHANGED state
    BY <1>2 DEF SweepList, Start, ReadOnly, store
  <2>2. proc'[a].pc = "sweep" /\ \A b \in Actor : b # a => proc'[b] = proc[b]
    BY <1>2 DEF SweepList, Start, Goto, Located, TypeOK, Idle
  <2>3. \A b \in Actor, m \in Lease : Holds(b, m)' <=> Holds(b, m)
    BY <1>0, <2>1, <2>2 DEF Holds
  <2>. QED BY <2>1, <2>3, SameClaims
<1>3. CASE SweepDone(a)  BY <1>3, <1>b DEF SweepDone, ReadOnly
<1>4. CASE EndClaim(a)
  <2>1. proc[a].lease \in Lease /\ proc[a].prior \in OpenState /\ proc[a].pc = "claim"
    BY <1>4, HolderSound DEF EndClaim
  <2>2. ASSUME NEW pc \in {"unprotect", "shared"}, Goto(a, [proc[a] EXCEPT !.pc = pc]),
               ClaimLease(proc[a].lease, proc[a].prior, "ending")
        PROVE  LS!LNext
    <3>. DEFINE q == [proc[a] EXCEPT !.pc = pc]
    <3>1. q.pc \in Finalizer /\ q.lease = proc[a].lease  BY <1>0, <1>a DEF Proc
    <3>. HIDE DEF q
    <3>. QED BY <1>0, <2>1, <2>2, <3>1, WinRefines DEF q
  <2>. QED BY <1>4, <1>b, <2>2 DEF EndClaim
<1>5. CASE SweepClaim(a)
  <2>1. PICK b \in proc[a].batch :
          LET rest == [proc[a] EXCEPT !.batch = @ \ {b}] IN
          \/ /\ ClaimLease(b.lease, b.prior, "ending")
             /\ Goto(a, Finalizing([rest EXCEPT !.lease = b.lease, !.prior = b.prior,
                                                !.todo = b.todo, !.failed = FALSE,
                                                !.left = {}]))
          \/ state[b.lease] # b.prior /\ UNCHANGED store /\ Goto(a, rest)
    BY <1>5 DEF SweepClaim
  <2>2. b.lease \in Lease /\ b.prior \in OpenState
    BY <1>a DEF Located, Sound, Proc, Snapshot
  <2>3. proc[a].pc = "sweep"  BY <1>5 DEF SweepClaim
  <2>. DEFINE rest == [proc[a] EXCEPT !.batch = @ \ {b}]
  <2>. DEFINE q == Finalizing([rest EXCEPT !.lease = b.lease, !.prior = b.prior,
                                  !.todo = b.todo, !.failed = FALSE, !.left = {}])
  <2>4. rest.pc = "sweep" /\ q.pc = "finalize" /\ q.lease = b.lease
    BY <1>a, <2>3 DEF Proc, Finalizing
  <2>5. \/ ClaimLease(b.lease, b.prior, "ending") /\ Goto(a, q)
        \/ UNCHANGED store /\ Goto(a, rest)
    BY <2>1
  <2>. HIDE DEF q, rest
  <2>6. CASE ClaimLease(b.lease, b.prior, "ending") /\ Goto(a, q)
    BY <1>0, <2>2, <2>3, <2>4, <2>6, WinRefines
  <2>7. CASE UNCHANGED store /\ Goto(a, rest)
    <3>1. \A c \in Actor, m \in Lease : Holds(c, m)' <=> Holds(c, m)
      BY <1>0, <2>3, <2>4, <2>7, HoldsAfter DEF Holds
    <3>. QED BY <2>7, <3>1, SameClaims DEF store
  <2>. QED BY <2>5, <2>6, <2>7
<1>6. CASE \/ EndShared(a) \/ Unprotect(a)
           \/ FinalizeNext(a) \/ FinalizeTemplate(a) \/ FinalizeStop(a)
           \/ FinalizeShutdown(a) \/ FinalizeDelete(a) \/ FinalizeConfirm(a)
           \/ ForgetResource(a)
  BY <1>6, TeardownInside, InsideRefines
<1>7. CASE EndRelease(a)
  <2>1. PICK l \in Lease : l = proc[a].lease /\ proc[a].prior \in OpenState /\ Holds(a, l)
    BY <1>0, <1>7, HolderSound DEF EndRelease, Holds
  <2>2. CASE ClaimLease(l, "ending", proc[a].prior)
    BY <1>0, <1>7, <2>1, <2>2, SettleRefines DEF EndRelease, ClaimLease
  <2>. QED BY <1>7, <1>b, <2>1, <2>2 DEF EndRelease
<1>8. CASE AbandonClaim(a)
  <2>1. proc[a].lease \in Lease /\ proc[a].prior \in OpenState /\ proc[a].pc = "abandon-claim"
    BY <1>8, HolderSound DEF AbandonClaim
  <2>2. CASE ClaimLease(proc[a].lease, proc[a].prior, "abandoned")
    <3>1. "abandoned" \in Terminal /\ state[proc[a].lease] # "none"
      BY <2>1, <2>2 DEF Terminal, ClaimLease, OpenState
    <3>. QED BY <1>0, <1>8, <2>1, <2>2, <3>1, DropRefines DEF AbandonClaim, ClaimLease
  <2>. QED BY <1>8, <1>b, <2>2 DEF AbandonClaim
<1>9. CASE SaveDestroyed(a)
  <2>1. proc[a].pc = "save-destroyed" /\ proc[a].lease \in Lease
    BY <1>9, HolderSound DEF SaveDestroyed
  <2>2. "destroyed" \in Terminal /\ state[proc[a].lease] # "none"
    BY <2>1 DEF Claimed, Terminal
  <2>. QED BY <1>0, <1>9, <2>1, <2>2, DropRefines DEF SaveDestroyed, SetLeaseState
<1>10. CASE SaveLease(a)
  <2>. DEFINE p == proc[a]
  <2>. DEFINE d == [Idle EXCEPT !.pc = "save-destroyed", !.cmd = p.cmd, !.lease = p.lease]
  <2>. DEFINE n == [Idle EXCEPT !.pc = "sweep", !.cmd = p.cmd, !.batch = p.batch]
  <2>1. Goto(a, n) \/ Goto(a, d) \/ Goto(a, Idle)  BY <1>10 DEF SaveLease
  <2>2. n.pc = "sweep" /\ d.pc = "save-destroyed"  BY DEF Idle
  <2>. HIDE DEF n, d
  <2>3. \E q : Goto(a, q) /\ q.pc \notin Finalizer  BY <1>0, <2>1, <2>2
  <2>4. PICK q : Goto(a, q) /\ q.pc \notin Finalizer  BY <2>3
  <2>5. /\ p.lease \in Lease /\ p.pc = "finalize"
        /\ \E to \in {"cleanup_failed", "ended"} :
             /\ state' = [state EXCEPT ![p.lease] = to]
             /\ state[p.lease] = "ending" \/ (state[p.lease] = "abandoned" /\ to = "ended")
    <3>. DEFINE end == IF p.failed THEN "cleanup_failed" ELSE "ended"
    <3>1. /\ p.lease \in Lease /\ state[p.lease] \in {"ending", "abandoned"}
          /\ state[p.lease] = "abandoned" => end = "ended"
      BY <1>10, SaveLeaseFinal
    <3>2. /\ p.pc = "finalize" /\ end \in {"cleanup_failed", "ended"}
          /\ state' = [state EXCEPT ![p.lease] = end]
      BY <1>10 DEF SaveLease, SetLeaseState
    <3>. HIDE DEF end
    <3>3. state[p.lease] = "ending" \/ (state[p.lease] = "abandoned" /\ end = "ended")
      BY <3>1
    <3>. QED BY <3>1, <3>2, <3>3
  <2>6. PICK l \in Lease : l = p.lease  BY <2>5
  <2>7. PICK to \in {"cleanup_failed", "ended"} :
          /\ state' = [state EXCEPT ![l] = to]
          /\ state[l] = "ending" \/ (state[l] = "abandoned" /\ to = "ended")
    BY <2>5, <2>6
  <2>8. to \in OpenState \cup Terminal /\ "ended" \in Terminal
    BY DEF OpenState, Terminal
  <2>9. Holds(a, l)  BY <1>0, <2>5, <2>6 DEF Holds
  <2>10. CASE state[l] = "ending"
    BY <2>4, <2>7, <2>8, <2>9, <2>10, SettleRefines
  <2>11. CASE state[l] = "abandoned" /\ to = "ended"
    BY <2>4, <2>6, <2>7, <2>8, <2>11, DropRefines
  <2>. QED BY <2>7, <2>10, <2>11
<1>. QED
  BY <1>1, <1>2, <1>3, <1>4, <1>5, <1>6, <1>7, <1>8, <1>9, <1>10
  DEF CleanupStep, Sweeps

\* Every step of the controller is a step of LeaseSpec or leaves it alone.
LEMMA StepRefines == IInv /\ [Next]_vars => [LS!LNext]_LS!lvars
<1>. SUFFICES ASSUME IInv, [Next]_vars PROVE [LS!LNext]_LS!lvars  OBVIOUS
<1>0. Located /\ Located' /\ Claimed /\ Young  BY NextLocated DEF IInv
<1>1. ASSUME UNCHANGED <<state, proc>> PROVE [LS!LNext]_LS!lvars
  <2>1. \A b \in Actor, m \in Lease : Holds(b, m)' <=> Holds(b, m)  BY <1>1 DEF Holds
  <2>. QED BY <1>1, <2>1, SameClaims
<1>2. CASE Tick \/ \E g \in Guest : ManualRemove(g)
  BY <1>1, <1>2 DEF Tick, ManualRemove, store
<1>3. ASSUME NEW l \in Lease, ManualReclaim(l) PROVE [LS!LNext]_LS!lvars
  BY <1>0, <1>3, ReclaimRefines
<1>4. ASSUME NEW a \in Actor, Crash(a) PROVE [LS!LNext]_LS!lvars
  BY <1>0, <1>4, EndsOutside, OutsideRefines DEF Crash, store
<1>5. ASSUME NEW a \in Actor, LeaseStep(a) PROVE [LS!LNext]_LS!lvars
  <2>1. ASSUME NEW l \in Lease, BeginInsert(a, l) PROVE [LS!LNext]_LS!lvars
    BY <1>0, <2>1, OpenRefines
  <2>2. CASE BeginFail(a)
    <3>1. proc[a].pc = "begun" /\ proc[a].lease \in Lease /\ state[proc[a].lease] # "none"
      BY <1>0, <2>2 DEF BeginFail, Located, Sound, Leaseless, Young
    <3>2. "begun" \notin Finalizer /\ Idle.pc \notin Finalizer /\ "abandoned" \in Terminal
      BY DEF Finalizer, Idle, Terminal
    <3>. QED BY <1>0, <2>2, <3>1, <3>2, DropRefines DEF BeginFail, SetLeaseState
  <2>3. CASE ~BeginFail(a) /\ \A l \in Lease : ~BeginInsert(a, l)
    BY <1>0, <1>5, <2>3, LeaseStepOutside, OutsideRefines
  <2>. QED BY <2>1, <2>2, <2>3
<1>6. ASSUME NEW a \in Actor, GuestStep(a) PROVE [LS!LNext]_LS!lvars
  BY <1>0, <1>6, GuestStepOutside, OutsideRefines
<1>7. ASSUME NEW a \in Actor, CleanupStep(a) PROVE [LS!LNext]_LS!lvars
  BY <1>0, <1>7, CleanupStepRefines
<1>8. CASE UNCHANGED vars
  <2>1. UNCHANGED <<state, proc>>  BY <1>8 DEF vars, store
  <2>. QED BY <1>1, <2>1
<1>. QED BY <1>2, <1>3, <1>4, <1>5, <1>6, <1>7, <1>8 DEF Next, ByHand, Step

\* The lease of the controller is the lease LeaseSpec promises, for any number
\* of leases and commands.
THEOREM Refinement == Spec => ImplementsLeaseSpec
<1>1. Init => LS!LInit
  BY DEF Init, LS!LInit, Phase, Holder
<1>2. IInv /\ [Next]_vars => [LS!LNext]_LS!lvars  BY StepRefines
<1>. QED BY <1>1, <1>2, Invariance, PTL DEF Spec, ImplementsLeaseSpec, LS!Spec
=============================================================================
