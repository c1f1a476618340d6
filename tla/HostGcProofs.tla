---------------------------- MODULE HostGcProofs ----------------------------
(***************************************************************************)
(* Proofs about the collector on the host, for any number of guests, runs  *)
(* and leases, any bound on the clock and on what goes wrong.              *)
(***************************************************************************)
EXTENDS HostGc, TLAPS

\* Nobody acts past an expiry: heartbeats come in time, no vmid is used twice,
\* no expired guest becomes a template, and configs can be read. What the
\* collector promises, it promises under this.
Punctual == Events \cap {"create", "renew-late", "template", "config-error"} = {}

-----------------------------------------------------------------------------
(* The inductive invariants.                                               *)

\* A run's clock is not ahead of time.
Clocked == \A r \in Run : gc[r].at <= now

\* A guest on its way to be destroyed has expired.
Doomed ==
  Punctual =>
    \A r \in Run : \A g \in gc[r].target :
      gc[r].pc \in {"lock", "reap", "destroy"} /\ guest[g] # "absent" => ExpiredAt(g, now)

\* A run that has listed a guest which keeps the host on goes on to see that.
Covers(p, g) ==
  /\ p.known
  /\ p.pc \in {"scan", "lock", "reap", "destroy", "judge"} \/ (p.pc = "list-lxc" /\ g \notin Lxc)
  => g \in p.todo \cup p.pinned

Needed(g) == guest[g] # "absent" /\ Ours(g) /\ ~ExpiredAt(g, now)

Watched == Punctual => \A r \in Run, g \in Guest : Needed(g) => Covers(gc[r], g)

Judged == \A r \in Run : gc[r].pc = "judge" => gc[r].todo = {}

GInv == GTypeOK /\ OneReaper /\ Clocked /\ Doomed /\ Watched /\ Judged

-----------------------------------------------------------------------------
(* The steps of a run.                                                     *)

LEMMA GotoTyped ==
  ASSUME GTypeOK, NEW r \in Run, NEW p \in GcRecord, GcGoto(r, p)
  PROVE  /\ gc' \in [Run -> GcRecord] /\ gc'[r] = p
         /\ \A q \in Run \ {r} : gc'[q] = gc[q]
  BY DEF GTypeOK, GcGoto

LEMMA AsleepTyped ==
  Asleep \in GcRecord /\ Asleep.pc = "asleep" /\ Asleep.at = 0 /\ Asleep.target = {}
  BY DEF Asleep, GcRecord, GcPc

\* What a step of run r does to its record: how it keeps its clock, takes a
\* guest, takes a lock and goes through its lists.
Walks(r) ==
  LET p == gc[r]
      n == gc'[r]
      reaping == {"reap", "destroy"} IN
  /\ gc' \in [Run -> GcRecord]
  /\ \A q \in Run \ {r} : gc'[q] = gc[q]
  /\ \/ n = Asleep
     \/ p = Asleep /\ n.at = now /\ n.pc = "list-qemu"
     \/ n.at = p.at /\ p.pc # "asleep"
  /\ n.pc \in reaping =>
       n.target = p.target /\ (p.pc \in reaping \/ \A g \in p.target : ~Locked(g))
  /\ n.pc \in {"lock", "reap", "destroy"} =>
       \/ n.target = p.target /\ p.pc \in {"lock", "reap", "destroy"}
       \/ \A g \in n.target : Expired(r, g)
  /\ Punctual => \A g \in Guest : Needed(g) /\ Covers(p, g) => Covers(n, g)
  /\ n.pc = "judge" => n.todo = {}

LEMMA SleepWalks ==
  ASSUME GTypeOK, NEW r \in Run, GcGoto(r, Asleep) PROVE Walks(r)
  <1>1. /\ gc' \in [Run -> GcRecord] /\ gc'[r] = Asleep
        /\ \A q \in Run \ {r} : gc'[q] = gc[q]
    BY AsleepTyped, GotoTyped
  <1>2. QED
    BY <1>1, AsleepTyped DEF Walks, Covers

LEMMA StartWalks == ASSUME GTypeOK, NEW r \in Run, GcStart(r) PROVE Walks(r)
  <1> DEFINE n == [Asleep EXCEPT !.pc = "list-qemu", !.at = now]
  <1>1. n \in GcRecord /\ n.pc = "list-qemu" /\ n.at = now
    BY DEF GTypeOK, Asleep, GcRecord, GcPc
  <1>2. GcGoto(r, n) /\ gc[r] = Asleep
    BY DEF GcStart
  <1> HIDE DEF n
  <1>3. /\ gc' \in [Run -> GcRecord] /\ gc'[r] = n
        /\ \A q \in Run \ {r} : gc'[q] = gc[q]
    BY <1>1, <1>2, GotoTyped
  <1>4. QED
    BY <1>1, <1>2, <1>3 DEF Walks, Covers

LEMMA ListWalks ==
  ASSUME GTypeOK, NEW r \in Run, GcListQemu(r) \/ GcListLxc(r) PROVE Walks(r)
  <1> DEFINE kind == IF gc[r].pc = "list-qemu" THEN Guest \ Lxc ELSE Lxc
             next == IF gc[r].pc = "list-qemu" THEN "list-lxc" ELSE "scan"
             all == {g \in kind : guest[g] # "absent"}
             n == [gc[r] EXCEPT !.pc = next, !.listed = @ \cup all, !.todo = @ \cup all,
                     !.seen = @ \cup {g \in all : guest[g] = "running"}]
             m == [gc[r] EXCEPT !.pc = next, !.known = FALSE]
  <1>1. gc[r] \in GcRecord /\ gc[r].pc \in {"list-qemu", "list-lxc"} /\ next \in GcPc
    BY DEF GTypeOK, GcListQemu, GcListLxc, GcList, GcPc
  <1>2. GcGoto(r, n) \/ GcGoto(r, m)
    BY DEF GcListQemu, GcListLxc, GcList
  <1>3. kind \subseteq Guest
    BY GcGuestAssumption
  <1>4. all \subseteq Guest /\ {g \in all : guest[g] = "running"} \subseteq Guest
    BY <1>3
  <1>5. /\ n \in GcRecord /\ n.pc = next /\ n.at = gc[r].at
        /\ n.todo = gc[r].todo \cup all /\ n.pinned = gc[r].pinned /\ n.known = gc[r].known
    BY <1>1, <1>4 DEF GcRecord
  <1>6. m \in GcRecord /\ m.pc = next /\ m.at = gc[r].at /\ m.known = FALSE
    BY <1>1 DEF GcRecord
  <1>7. \A g \in Guest : Needed(g) /\ Covers(gc[r], g) => Covers(n, g)
    <2> SUFFICES ASSUME NEW g \in Guest, Needed(g), Covers(gc[r], g), gc[r].known,
                        next = "scan" \/ g \notin Lxc
                 PROVE  g \in n.todo \cup n.pinned
      BY <1>1, <1>5 DEF Covers
    <2>1. CASE g \in kind
      BY <1>5, <2>1 DEF Needed
    <2>2. CASE g \notin kind
      BY <1>1, <1>5, <2>2 DEF Covers
    <2>3. QED
      BY <2>1, <2>2
  <1>8. next \in {"list-lxc", "scan"}
    OBVIOUS
  <1> HIDE DEF n, m, next
  <1>9. CASE GcGoto(r, n)
    <2>1. /\ gc' \in [Run -> GcRecord] /\ gc'[r] = n
          /\ \A q \in Run \ {r} : gc'[q] = gc[q]
      BY <1>5, <1>9, GotoTyped
    <2>2. QED
      BY <1>1, <1>5, <1>7, <1>8, <2>1 DEF Walks
  <1>10. CASE GcGoto(r, m)
    <2>1. /\ gc' \in [Run -> GcRecord] /\ gc'[r] = m
          /\ \A q \in Run \ {r} : gc'[q] = gc[q]
      BY <1>6, <1>10, GotoTyped
    <2>2. QED
      BY <1>1, <1>6, <1>8, <2>1 DEF Walks, Covers
  <1>11. QED
    BY <1>2, <1>9, <1>10

LEMMA ScanWalks == ASSUME GTypeOK, Clocked, NEW r \in Run, GcScan(r) PROVE Walks(r)
  <1>1. gc[r] \in GcRecord /\ gc[r].pc = "scan"
    BY DEF GTypeOK, GcScan
  <1>2. PICK h \in gc[r].todo :
          LET rest == [gc[r] EXCEPT !.todo = @ \ {h}] IN
          \/ GcGoto(r, CASE guest[h] = "absent" \/ ~Ours(h) -> rest
                         [] Expired(r, h) -> [rest EXCEPT !.pc = "lock", !.target = {h}]
                         [] OTHER -> [rest EXCEPT !.pinned = @ \cup {h}])
          \/ GcGoto(r, rest) /\ Event("config-error")
    BY DEF GcScan
  <1>3. h \in Guest
    BY <1>1 DEF GcRecord
  <1> DEFINE rest == [gc[r] EXCEPT !.todo = @ \ {h}]
             take == [rest EXCEPT !.pc = "lock", !.target = {h}]
             pin  == [rest EXCEPT !.pinned = @ \cup {h}]
  <1>4. /\ rest \in GcRecord /\ rest.pc = "scan" /\ rest.at = gc[r].at
        /\ rest.todo = gc[r].todo \ {h} /\ rest.pinned = gc[r].pinned
        /\ rest.known = gc[r].known
    BY <1>1 DEF GcRecord
  <1>5. /\ take \in GcRecord /\ take.pc = "lock" /\ take.at = gc[r].at
        /\ take.target = {h} /\ take.todo = gc[r].todo \ {h}
        /\ take.pinned = gc[r].pinned /\ take.known = gc[r].known
    BY <1>1, <1>3 DEF GcRecord, GcPc
  <1>6. /\ pin \in GcRecord /\ pin.pc = "scan" /\ pin.at = gc[r].at
        /\ pin.todo = gc[r].todo \ {h} /\ pin.pinned = gc[r].pinned \cup {h}
        /\ pin.known = gc[r].known
    BY <1>1, <1>3 DEF GcRecord
  <1>7. \/ GcGoto(r, rest) /\ (guest[h] = "absent" \/ ~Ours(h))
        \/ GcGoto(r, take) /\ Expired(r, h)
        \/ GcGoto(r, pin)
        \/ GcGoto(r, rest) /\ Event("config-error")
    BY <1>2
  <1> HIDE DEF rest, take, pin
  <1>8. CASE GcGoto(r, pin)
    <2>1. /\ gc' \in [Run -> GcRecord] /\ gc'[r] = pin
          /\ \A q \in Run \ {r} : gc'[q] = gc[q]
      BY <1>6, <1>8, GotoTyped
    <2>2. \A g \in Guest : Covers(gc[r], g) => Covers(pin, g)
      BY <1>1, <1>6 DEF Covers
    <2>3. QED
      BY <1>1, <1>6, <2>1, <2>2 DEF Walks
  <1>9. CASE GcGoto(r, rest) /\ (Needed(h) => ~Punctual)
    <2>1. /\ gc' \in [Run -> GcRecord] /\ gc'[r] = rest
          /\ \A q \in Run \ {r} : gc'[q] = gc[q]
      BY <1>4, <1>9, GotoTyped
    <2>2. Punctual => \A g \in Guest : Needed(g) /\ Covers(gc[r], g) => Covers(rest, g)
      BY <1>1, <1>4, <1>9 DEF Covers
    <2>3. QED
      BY <1>1, <1>4, <2>1, <2>2 DEF Walks
  <1>10. CASE GcGoto(r, take) /\ Expired(r, h) /\ gc[r].at <= now
    <2>1. /\ gc' \in [Run -> GcRecord] /\ gc'[r] = take
          /\ \A q \in Run \ {r} : gc'[q] = gc[q]
      BY <1>5, <1>10, GotoTyped
    <2>2. ExpiredAt(h, now)
      BY <1>1, <1>3, <1>10 DEF Expired, ExpiredAt, GTypeOK, GcRecord
    <2>3. \A g \in Guest : Needed(g) /\ Covers(gc[r], g) => Covers(take, g)
      BY <1>1, <1>5, <2>2 DEF Covers, Needed
    <2>4. QED
      BY <1>1, <1>5, <1>10, <2>1, <2>3 DEF Walks
  <1>11. gc[r].at <= now
    BY DEF Clocked
  <1>12. Event("config-error") => ~Punctual
    BY DEF Event, Punctual
  <1>13. Needed(h) => ~(guest[h] = "absent" \/ ~Ours(h))
    BY DEF Needed
  <1>14. QED
    BY <1>7, <1>8, <1>9, <1>10, <1>11, <1>12, <1>13

\* Steps that only move on, let go of the guest, or both.
LEMMA PassWalks ==
  ASSUME GTypeOK, NEW r \in Run, NEW pc \in GcPc, NEW t \in {{}, gc[r].target},
         GcGoto(r, [gc[r] EXCEPT !.pc = pc, !.target = t]),
         gc[r].pc \in {"scan", "lock", "reap", "destroy"},
         pc \in {"reap", "destroy"} =>
           t = gc[r].target
           /\ (gc[r].pc = "reap" \/ (gc[r].pc = "lock" /\ \A g \in t : ~Locked(g))),
         pc \notin {"asleep", "lock"},
         pc = "judge" => gc[r].todo = {}
  PROVE  Walks(r)
  <1>1. gc[r] \in GcRecord
    BY DEF GTypeOK
  <1>2. t \subseteq Guest
    BY <1>1 DEF GcRecord
  <1> DEFINE n == [gc[r] EXCEPT !.pc = pc, !.target = t]
  <1>3. /\ n \in GcRecord /\ n.pc = pc /\ n.target = t /\ n.at = gc[r].at
        /\ n.todo = gc[r].todo /\ n.pinned = gc[r].pinned /\ n.known = gc[r].known
    BY <1>1, <1>2 DEF GcRecord
  <1>4. GcGoto(r, n)
    OBVIOUS
  <1> HIDE DEF n
  <1>5. /\ gc' \in [Run -> GcRecord] /\ gc'[r] = n
        /\ \A q \in Run \ {r} : gc'[q] = gc[q]
    BY <1>3, <1>4, GotoTyped
  <1>6. \A g \in Guest : Covers(gc[r], g) => Covers(n, g)
    BY <1>3 DEF Covers
  <1>7. QED
    BY <1>3, <1>5, <1>6 DEF Walks

\* Leaving the target as it is, or dropping it, in the form the actions have.
LEMMA SetPc ==
  ASSUME GTypeOK, NEW r \in Run, NEW pc
  PROVE  /\ [gc[r] EXCEPT !.pc = pc] = [gc[r] EXCEPT !.pc = pc, !.target = gc[r].target]
         /\ Scanning(gc[r]) = [gc[r] EXCEPT !.pc = "scan", !.target = {}]
  <1>1. gc[r] \in GcRecord
    BY DEF GTypeOK
  <1>2. QED
    BY <1>1 DEF GcRecord, Scanning

LEMMA ScanningWalks ==
  ASSUME GTypeOK, NEW r \in Run, gc[r].pc \in {"lock", "reap", "destroy"},
         GcGoto(r, Scanning(gc[r]))
  PROVE  Walks(r)
  <1>1. GcGoto(r, [gc[r] EXCEPT !.pc = "scan", !.target = {}])
    BY SetPc
  <1>2. QED
    BY <1>1, PassWalks DEF GcPc

LEMMA GoingWalks ==
  ASSUME GTypeOK, NEW r \in Run, NEW pc \in {"reap", "destroy", "judge"},
         GcGoto(r, [gc[r] EXCEPT !.pc = pc]),
         \/ pc = "reap" /\ gc[r].pc = "lock" /\ \A g \in gc[r].target : ~Locked(g)
         \/ pc = "destroy" /\ gc[r].pc = "reap"
         \/ pc = "judge" /\ gc[r].pc = "scan" /\ gc[r].todo = {}
  PROVE  Walks(r)
  <1>1. GcGoto(r, [gc[r] EXCEPT !.pc = pc, !.target = gc[r].target])
    BY SetPc
  <1>2. QED
    BY <1>1, PassWalks DEF GcPc

\* Every step of a run but a power-off walks.
LEMMA RunWalks ==
  ASSUME GTypeOK, Clocked, NEW r \in Run, GcStep(r) \/ GcCrash(r)
  PROVE  Walks(r) \/ (GcJudge(r) /\ Due(gc[r]) /\ PowerOff)
  <1>1. CASE GcStart(r)
    BY <1>1, StartWalks
  <1>2. CASE GcListQemu(r) \/ GcListLxc(r)
    BY <1>2, ListWalks
  <1>3. CASE GcScan(r)
    BY <1>3, ScanWalks
  <1>4. CASE GcScanned(r)
    BY <1>4, GoingWalks DEF GcScanned
  <1>5. CASE GcLock(r)
    <2>1. CASE \E g \in gc[r].target : Locked(g)
      BY <1>5, <2>1, ScanningWalks DEF GcLock
    <2>2. CASE ~\E g \in gc[r].target : Locked(g)
      BY <1>5, <2>2, GoingWalks DEF GcLock
    <2>3. QED
      BY <2>1, <2>2
  <1>6. CASE GcStop(r)
    BY <1>6, ScanningWalks, GoingWalks DEF GcStop
  <1>7. CASE GcDestroy(r)
    BY <1>7, ScanningWalks DEF GcDestroy
  <1>8. CASE GcJudge(r)
    BY <1>8, SleepWalks DEF GcJudge
  <1>9. CASE GcCrash(r)
    BY <1>9, SleepWalks DEF GcCrash
  <1>10. QED
    BY <1>1, <1>2, <1>3, <1>4, <1>5, <1>6, <1>7, <1>8, <1>9 DEF GcStep

-----------------------------------------------------------------------------
(* What the steps do to the host.                                          *)

HostTyped ==
  /\ guest \in [Guest -> {"absent", "stopped", "running"}]
  /\ template \in SUBSET Guest
  /\ meta \in [Guest -> [lease : Lease \cup {NoLease}, expiry : Nat]]

\* A guest that is there was there before, and is as much ours and as expired.
Settled ==
  Punctual => \A g \in Guest : guest'[g] # "absent" =>
    /\ guest[g] # "absent" /\ (Ours(g)' <=> Ours(g))
    /\ ExpiredAt(g, now) => ExpiredAt(g, now)'

LEMMA StillSettled ==
  ASSUME GTypeOK, UNCHANGED <<template, meta>>, now' \in Nat, now <= now',
         \A g \in Guest : guest'[g] # "absent" => guest[g] # "absent"
  PROVE  Settled
  <1>1. \A g \in Guest : meta[g].expiry \in Nat /\ now \in Nat
    BY DEF GTypeOK
  <1>2. QED
    BY <1>1 DEF Settled, Ours, ExpiredAt

LEMMA RemoveSettled ==
  ASSUME GTypeOK, NEW h \in Guest, Remove(h), now' = now
  PROVE  HostTyped' /\ Settled
  <1>1. HostTyped'
    BY DEF HostTyped, GTypeOK, Remove, NoMeta
  <1>2. ASSUME NEW g \in Guest, guest'[g] # "absent"
        PROVE  g # h /\ guest'[g] = guest[g] /\ meta'[g] = meta[g]
               /\ (g \in template' <=> g \in template)
    BY <1>2 DEF Remove, GTypeOK
  <1>3. Settled
    BY <1>2 DEF Settled, Ours, ExpiredAt
  <1>4. QED
    BY <1>1, <1>3

LEMMA RunOnHost ==
  ASSUME GTypeOK, NEW r \in Run, GcStep(r) \/ GcCrash(r)
  PROVE  HostTyped' /\ Settled /\ now' = now /\ events' \in Nat
  <1>1. now' = now
    BY DEF GcStep, GcStart, GcListQemu, GcListLxc, GcList, GcScan, GcScanned, GcLock,
           GcStop, GcDestroy, GcJudge, PowerOff, GcCrash, OnlyGc
  <1>2. events' \in Nat
    <2>1. events \in Nat /\ \A e : Event(e) => events' = events + 1
      BY DEF GTypeOK, Event
    <2>2. UNCHANGED events \/ \E e \in EventNames : Event(e)
      <3>1. CASE GcStart(r) \/ GcScanned(r) \/ GcLock(r)
        BY <3>1 DEF GcStart, GcScanned, GcLock
      <3>2. CASE GcListQemu(r) \/ GcListLxc(r)
        BY <3>2 DEF GcListQemu, GcListLxc, GcList, Quietly, EventNames
      <3>3. CASE GcScan(r)
        BY <3>3 DEF GcScan, Quietly, EventNames
      <3>4. CASE GcStop(r)
        BY <3>4 DEF GcStop, Quietly, EventNames
      <3>5. CASE GcDestroy(r)
        BY <3>5 DEF GcDestroy, Quietly, EventNames
      <3>6. CASE GcJudge(r) \/ GcCrash(r)
        BY <3>6 DEF GcJudge, GcCrash, PowerOff, Quietly, EventNames
      <3>7. QED
        BY <3>1, <3>2, <3>3, <3>4, <3>5, <3>6 DEF GcStep
    <2>3. QED
      BY <2>1, <2>2
  <1>3. now \in Nat /\ HostTyped
    BY DEF GTypeOK, HostTyped
  <1>4. CASE UNCHANGED hostvars
    <2>1. HostTyped'
      BY <1>3, <1>4 DEF HostTyped, hostvars
    <2>2. Settled
      BY <1>1, <1>3, <1>4, StillSettled DEF hostvars
    <2>3. QED
      BY <1>1, <1>2, <2>1, <2>2
  <1>5. CASE GcStop(r)
    <2>1. PICK h \in gc[r].target : guest' \in {guest, [guest EXCEPT ![h] = "stopped"]}
                                    /\ (guest' # guest => guest[h] # "absent")
      BY <1>5 DEF GcStop
    <2>2. UNCHANGED <<template, meta>>
      BY <1>5 DEF GcStop
    <2>3. \A g \in Guest : guest'[g] # "absent" => guest[g] # "absent"
      BY <1>3, <2>1 DEF HostTyped
    <2>4. HostTyped'
      BY <1>3, <2>1, <2>2 DEF HostTyped
    <2>5. QED
      BY <1>1, <1>2, <1>3, <2>2, <2>3, <2>4, StillSettled
  <1>6. CASE GcDestroy(r)
    <2>1. PICK h \in gc[r].target : Remove(h) \/ UNCHANGED hostvars
      BY <1>6 DEF GcDestroy
    <2>2. h \in Guest
      BY DEF GTypeOK, GcRecord
    <2>3. QED
      BY <1>1, <1>2, <1>4, <2>1, <2>2, RemoveSettled
  <1>7. CASE PowerOff
    <2>1. \A g \in Guest : guest'[g] # "absent" => guest[g] # "absent"
      BY <1>7 DEF PowerOff
    <2>2. HostTyped'
      BY <1>3, <1>7 DEF PowerOff, HostTyped
    <2>3. QED
      BY <1>1, <1>2, <1>3, <1>7, <2>1, <2>2, StillSettled DEF PowerOff
  <1>8. QED
    BY <1>4, <1>5, <1>6, <1>7 DEF GcStep, GcStart, GcListQemu, GcListLxc, GcList, GcScan,
       GcScanned, GcLock, GcJudge, GcCrash, OnlyGc

LEMMA WorldOnHost ==
  ASSUME GTypeOK, World
  PROVE  HostTyped' /\ Settled /\ UNCHANGED <<now, stamp, gc>> /\ events' \in Nat
         /\ powered' \in BOOLEAN
  <1>1. now \in Nat /\ HostTyped /\ events \in Nat
    BY DEF GTypeOK, HostTyped
  <1>2. CASE SwitchOn
    <2>1. UNCHANGED <<guest, template, meta, now, stamp, gc>> /\ powered' = TRUE
          /\ events' \in Nat
      BY <1>1, <1>2 DEF SwitchOn, hostvars, Event
    <2>2. QED
      BY <1>1, <2>1, StillSettled DEF HostTyped
  <1>3. ASSUME NEW g \in Guest, StartsGuest(g) \/ StopsGuest(g) \/ ConvertsGuest(g)
               \/ RenewsGuest(g) \/ \E l \in Lease : CreatesGuest(g, l)
        PROVE  UNCHANGED <<now, powered, stamp, gc>> /\ events' \in Nat
    BY <1>1, <1>3 DEF StartsGuest, StopsGuest, ConvertsGuest, RenewsGuest, CreatesGuest,
       OnlyHost, Event
  <1>4. ASSUME NEW g \in Guest, StartsGuest(g) \/ StopsGuest(g)
        PROVE  HostTyped' /\ Settled
    <2>1. /\ guest' \in {[guest EXCEPT ![g] = "running"], [guest EXCEPT ![g] = "stopped"]}
          /\ guest[g] # "absent" /\ UNCHANGED <<template, meta>>
      BY <1>4 DEF StartsGuest, StopsGuest
    <2>2. HostTyped' /\ \A h \in Guest : guest'[h] # "absent" => guest[h] # "absent"
      BY <1>1, <2>1 DEF HostTyped
    <2>3. QED
      BY <1>1, <1>3, <1>4, <2>1, <2>2, StillSettled
  <1>5. ASSUME NEW g \in Guest, ConvertsGuest(g)
        PROVE  HostTyped' /\ Settled
    BY <1>1, <1>5 DEF ConvertsGuest, HostTyped, Settled, Punctual, Event
  <1>6. ASSUME NEW g \in Guest, NEW l \in Lease, CreatesGuest(g, l)
        PROVE  HostTyped' /\ Settled
    <2>1. ~Punctual
      BY <1>6 DEF CreatesGuest, Event, Punctual
    <2>2. PICK e \in {0, now + 1} : meta' = [meta EXCEPT ![g] = [lease |-> l, expiry |-> e]]
      BY <1>6 DEF CreatesGuest
    <2>3. e \in Nat /\ guest' = [guest EXCEPT ![g] = "stopped"] /\ template' = template
      BY <1>1, <1>6 DEF CreatesGuest
    <2>4. [lease |-> l, expiry |-> e] \in [lease : Lease \cup {NoLease}, expiry : Nat]
      BY <2>3
    <2>5. HostTyped'
      BY <1>1, <2>2, <2>3, <2>4 DEF HostTyped
    <2>6. QED
      BY <2>1, <2>5 DEF Settled
  <1>7. ASSUME NEW g \in Guest, RenewsGuest(g)
        PROVE  HostTyped' /\ Settled
    <2>1. /\ meta' = [meta EXCEPT ![g].expiry = now + 1] /\ now' = now
          /\ UNCHANGED <<guest, template>>
          /\ Event(IF now < meta[g].expiry THEN "renew" ELSE "renew-late")
      BY <1>7, <1>3 DEF RenewsGuest
    <2>2. HostTyped'
      BY <1>1, <2>1 DEF HostTyped
    <2>3. \A h \in Guest : meta'[h].lease = meta[h].lease
      BY <1>1, <2>1 DEF HostTyped
    <2>4. \A h \in Guest \ {g} : meta'[h] = meta[h]
      BY <1>1, <2>1 DEF HostTyped
    <2>5. Punctual => ~ExpiredAt(g, now)
      BY <1>1, <2>1 DEF HostTyped, Punctual, Event, ExpiredAt
    <2>6. Settled
      BY <2>1, <2>3, <2>4, <2>5 DEF Settled, Ours, ExpiredAt
    <2>7. QED
      BY <2>2, <2>6
  <1>8. QED
    <2>1. CASE SwitchOn
      BY <1>2, <2>1
    <2>2. CASE ~SwitchOn
      <3>1. PICK g \in Guest : StartsGuest(g) \/ StopsGuest(g) \/ ConvertsGuest(g)
               \/ RenewsGuest(g) \/ \E l \in Lease : CreatesGuest(g, l)
        BY <2>2 DEF World
      <3>2. HostTyped' /\ Settled
        BY <3>1, <1>4, <1>5, <1>6, <1>7
      <3>3. UNCHANGED <<now, powered, stamp, gc>> /\ events' \in Nat
        BY <3>1, <1>3
      <3>4. QED
        BY <1>1, <3>2, <3>3 DEF GTypeOK
    <2>3. QED
      BY <2>1, <2>2

-----------------------------------------------------------------------------
(* The invariants, part by part.                                           *)

LEMMA OneReaperKept ==
  ASSUME GTypeOK, OneReaper, NEW r \in Run, Walks(r) PROVE OneReaper'
  <1> SUFFICES ASSUME NEW p \in Run, NEW q \in Run, p # q,
                      gc'[p].pc \in {"reap", "destroy"}, gc'[q].pc \in {"reap", "destroy"}
               PROVE  gc'[p].target \cap gc'[q].target = {}
    BY DEF OneReaper
  <1>1. CASE p # r /\ q # r
    BY <1>1 DEF Walks, OneReaper
  <1>2. ASSUME NEW d \in Run, d # r,
               gc'[r].pc \in {"reap", "destroy"}, gc'[d].pc \in {"reap", "destroy"}
        PROVE  gc'[r].target \cap gc'[d].target = {}
    <2>1. gc'[d] = gc[d] /\ gc'[r].target = gc[r].target
      BY <1>2 DEF Walks
    <2>2. CASE gc[r].pc \in {"reap", "destroy"}
      BY <1>2, <2>1, <2>2 DEF OneReaper
    <2>3. CASE \A g \in gc[r].target : ~Locked(g)
      BY <1>2, <2>1, <2>3 DEF Locked
    <2>4. QED
      BY <1>2, <2>2, <2>3 DEF Walks
  <1>3. QED
    BY <1>1, <1>2

LEMMA ClockedKept ==
  ASSUME GTypeOK, Clocked, NEW r \in Run, Walks(r), now' = now
  PROVE  Clocked'
  <1>1. now \in Nat /\ \A q \in Run : gc[q].at \in Nat /\ gc[q].at <= now
    BY DEF GTypeOK, GcRecord, Clocked
  <1>2. /\ gc'[r] = Asleep \/ gc'[r].at = now \/ (gc'[r].at = gc[r].at /\ gc[r].pc # "asleep")
        /\ \A q \in Run \ {r} : gc'[q] = gc[q]
    BY DEF Walks
  <1>3. \A q \in Run : gc'[q].at <= now
    BY <1>1, <1>2, AsleepTyped
  <1>4. QED
    BY <1>3 DEF Clocked

LEMMA DoomedKept ==
  ASSUME GTypeOK, Clocked, Doomed, NEW r \in Run, Walks(r), Settled, now' = now
  PROVE  Doomed'
  <1> SUFFICES ASSUME Punctual, NEW q \in Run, NEW g \in gc'[q].target,
                      gc'[q].pc \in {"lock", "reap", "destroy"}, guest'[g] # "absent"
               PROVE  ExpiredAt(g, now)'
    BY DEF Doomed, Punctual
  <1>1. g \in Guest
    BY DEF Walks, GcRecord
  <1>2. guest[g] # "absent" /\ (ExpiredAt(g, now) => ExpiredAt(g, now)')
    BY <1>1 DEF Settled
  <1>3. ExpiredAt(g, now)
    <2>1. CASE gc[q].pc \in {"lock", "reap", "destroy"} /\ g \in gc[q].target
      BY <1>2, <2>1 DEF Doomed
    <2>2. CASE q = r /\ Expired(r, g)
      <3>1. meta[g].expiry \in Nat /\ gc[r].at \in Nat /\ now \in Nat /\ gc[r].at <= now
        BY <1>1 DEF GTypeOK, GcRecord, Clocked
      <3>2. QED
        BY <2>2, <3>1 DEF Expired, ExpiredAt
    <2>3. QED
      BY <2>1, <2>2 DEF Walks
  <1>4. QED
    BY <1>2, <1>3

LEMMA WatchedKept ==
  ASSUME GTypeOK, Watched, NEW r \in Run, Walks(r), Settled PROVE Watched'
  <1> SUFFICES ASSUME Punctual, NEW q \in Run, NEW g \in Guest, Needed(g)'
               PROVE  Covers(gc'[q], g)
    BY DEF Watched, Punctual, Covers
  <1>1. Needed(g)
    BY DEF Settled, Needed
  <1>2. Covers(gc[q], g)
    BY <1>1 DEF Watched
  <1>3. CASE q = r
    BY <1>1, <1>2, <1>3 DEF Walks
  <1>4. CASE q # r
    BY <1>2, <1>4 DEF Walks
  <1>5. QED
    BY <1>3, <1>4

\* What a run does to the stamp.
LEMMA RunStamps ==
  ASSUME GTypeOK, NEW r \in Run, GcStep(r) \/ GcCrash(r)
  PROVE  /\ stamp' \in Nat /\ powered' \in BOOLEAN
         /\ powered' # powered => PowerOff
  <1>1. gc[r] \in GcRecord /\ stamp \in Nat /\ powered \in BOOLEAN
    BY DEF GTypeOK
  <1>2. CASE GcJudge(r)
    <2>1. stamp' \in {stamp, Restamped(gc[r])}
      BY <1>2 DEF GcJudge, PowerOff
    <2>2. Restamped(gc[r]) \in {stamp, 0, gc[r].at}
      BY DEF Restamped
    <2>3. powered' = powered \/ (PowerOff /\ powered' = FALSE)
      BY <1>2 DEF GcJudge, PowerOff, OnlyGc
    <2>4. stamp' \in Nat
      BY <1>1, <2>1, <2>2 DEF GcRecord
    <2>5. QED
      BY <1>1, <2>3, <2>4
  <1>3. CASE ~GcJudge(r)
    <2>1. UNCHANGED <<stamp, powered>>
      BY <1>3 DEF GcStep, GcStart, GcListQemu, GcListLxc, GcList, GcScan, GcScanned,
         GcLock, GcStop, GcDestroy, GcCrash, OnlyGc
    <2>2. QED
      BY <1>1, <2>1
  <1>4. QED
    BY <1>2, <1>3

LEMMA RunKeeps ==
  ASSUME GInv, NEW r \in Run, GcStep(r) \/ GcCrash(r), Walks(r) PROVE GInv'
  <1>1. HostTyped' /\ Settled /\ now' = now /\ events' \in Nat
    BY RunOnHost DEF GInv
  <1>2. stamp' \in Nat /\ powered' \in BOOLEAN
    BY RunStamps DEF GInv
  <1>3. GTypeOK'
    BY <1>1, <1>2 DEF GInv, GTypeOK, HostTyped, Walks
  <1>4. Clocked'
    BY <1>1, ClockedKept DEF GInv
  <1>5. OneReaper' /\ Doomed' /\ Watched'
    BY <1>1, OneReaperKept, DoomedKept, WatchedKept DEF GInv
  <1>6. Judged'
    BY DEF GInv, Judged, Walks
  <1>7. QED
    BY <1>3, <1>4, <1>5, <1>6 DEF GInv

LEMMA PowerOffKeeps ==
  ASSUME GInv, NEW r \in Run, GcJudge(r), PowerOff PROVE GInv'
  <1>1. HostTyped' /\ now' = now /\ events' \in Nat
    BY RunOnHost DEF GInv, GcStep
  <1>2. stamp' = stamp /\ powered' = FALSE /\ gc' = [q \in Run |-> Asleep]
    BY DEF PowerOff
  <1>3. \A q \in Run : gc'[q] \in GcRecord /\ gc'[q].pc = "asleep" /\ gc'[q].at = 0
                       /\ gc'[q].target = {}
    BY <1>2, AsleepTyped
  <1>4. GTypeOK'
    BY <1>1, <1>2, <1>3 DEF GInv, GTypeOK, HostTyped
  <1>5. Clocked'
    BY <1>1, <1>2, <1>3 DEF GInv, GTypeOK, Clocked
  <1>6. OneReaper' /\ Doomed' /\ Watched' /\ Judged'
    BY <1>3 DEF OneReaper, Doomed, Watched, Covers, Judged
  <1>7. QED
    BY <1>4, <1>5, <1>6 DEF GInv

\* Whatever happens outside the collector.
LEMMA OutsideKeeps ==
  ASSUME GInv, GTick \/ World \/ UNCHANGED gvars PROVE GInv'
  <1>1. /\ gc' = gc /\ stamp' = stamp /\ now \in Nat /\ now' \in Nat /\ now <= now'
        /\ HostTyped' /\ Settled /\ events' \in Nat /\ powered' \in BOOLEAN
    <2>1. now \in Nat
      BY DEF GInv, GTypeOK
    <2>2. CASE World
      BY <2>1, <2>2, WorldOnHost DEF GInv
    <2>3. CASE GTick \/ UNCHANGED gvars
      <3>1. /\ UNCHANGED <<guest, template, meta, gc, stamp, events, powered>>
            /\ now' \in Nat /\ now <= now'
        BY <2>1, <2>3 DEF GTick, gvars, hostvars, gcvars
      <3>2. Settled
        BY <3>1, StillSettled DEF GInv
      <3>3. HostTyped'
        BY <3>1 DEF GInv, GTypeOK, HostTyped
      <3>4. QED
        BY <2>1, <3>1, <3>2, <3>3 DEF GInv, GTypeOK
    <2>4. QED
      BY <2>2, <2>3
  <1>2. GTypeOK'
    BY <1>1 DEF GInv, GTypeOK, HostTyped
  <1>3. Clocked'
    <2>1. \A r \in Run : gc[r].at \in Nat /\ gc[r].at <= now
      BY DEF GInv, GTypeOK, GcRecord, Clocked
    <2>2. \A r \in Run : gc[r].at <= now'
      BY <1>1, <2>1
    <2>3. QED
      BY <1>1, <2>2 DEF Clocked
  <1>4. OneReaper' /\ Judged'
    BY <1>1 DEF GInv, OneReaper, Judged
  <1>5. Doomed'
    <2> SUFFICES ASSUME Punctual, NEW r \in Run, NEW g \in gc[r].target,
                        gc[r].pc \in {"lock", "reap", "destroy"}, guest'[g] # "absent"
                 PROVE  ExpiredAt(g, now)'
      BY <1>1 DEF Doomed, Punctual
    <2>1. g \in Guest
      BY DEF GInv, GTypeOK, GcRecord
    <2>2. QED
      BY <1>1, <2>1 DEF Settled, GInv, Doomed
  <1>6. Watched'
    <2> SUFFICES ASSUME Punctual, NEW r \in Run, NEW g \in Guest, Needed(g)'
                 PROVE  Covers(gc[r], g)
      BY <1>1 DEF Watched, Punctual, Covers
    <2>1. Needed(g)
      BY <1>1 DEF Settled, Needed
    <2>2. QED
      BY <2>1 DEF GInv, Watched
  <1>7. QED
    BY <1>2, <1>3, <1>4, <1>5, <1>6 DEF GInv

LEMMA GInvNext == ASSUME GInv, [GNext]_gvars PROVE GInv'
  <1>1. CASE GTick \/ World \/ UNCHANGED gvars
    BY <1>1, OutsideKeeps
  <1>2. ASSUME NEW r \in Run, GcStep(r) \/ GcCrash(r) PROVE GInv'
    BY <1>2, RunWalks, RunKeeps, PowerOffKeeps DEF GInv
  <1>3. QED
    BY <1>1, <1>2 DEF GNext

LEMMA GInvInit == ASSUME GInit PROVE GInv
  <1>1. PICK f \in InitGuests :
          /\ guest = [g \in Guest |-> f[g].status]
          /\ meta = [g \in Guest |-> f[g].meta]
    BY DEF GInit
  <1>2. f \in [Guest -> [status : {"absent", "stopped", "running"},
                         meta : [lease : Lease \cup {NoLease}, expiry : Nat]]]
    BY <1>1, GcInitAssumption
  <1>3. HostTyped
    BY <1>1, <1>2 DEF GInit, HostTyped
  <1>4. /\ now = 1 /\ powered = TRUE /\ stamp = 0 /\ events = 0
        /\ gc = [r \in Run |-> Asleep]
    BY DEF GInit
  <1>5. \A r \in Run : gc[r] \in GcRecord /\ gc[r].pc = "asleep" /\ gc[r].at = 0
                       /\ gc[r].target = {}
    BY <1>4, AsleepTyped
  <1>6. GTypeOK
    BY <1>3, <1>4, <1>5 DEF HostTyped, GTypeOK
  <1>7. Clocked
    BY <1>4, <1>5 DEF Clocked
  <1>8. OneReaper /\ Doomed /\ Watched /\ Judged
    BY <1>5 DEF OneReaper, Doomed, Watched, Covers, Judged
  <1>9. QED
    BY <1>6, <1>7, <1>8 DEF GInv

-----------------------------------------------------------------------------
(* Theorems.                                                               *)

\* The inductive invariant of the collector.
THEOREM GcInvariance == GSpec => []GInv
  <1>1. GInit => GInv
    BY GInvInit
  <1>2. GInv /\ [GNext]_gvars => GInv'
    BY GInvNext
  <1>3. QED
    BY <1>1, <1>2, PTL DEF GSpec

\* Every variable of the host and of the collector keeps its type, whatever
\* overlaps, fails or dies.
THEOREM GcTypeCorrect == GSpec => []GTypeOK
  <1>1. GInv => GTypeOK
    BY DEF GInv
  <1>2. QED
    BY <1>1, GcInvariance, PTL

\* No two runs are ever stopping or destroying the same guest (acquire_lock).
THEOREM OneReaperAlways == GSpec => []OneReaper
  <1>1. GInv => OneReaper
    BY DEF GInv
  <1>2. QED
    BY <1>1, GcInvariance, PTL

\* What a power-off by the collector rests on.
LEMMA PowerOffJudged ==
  ASSUME GInv, [GNext]_gvars, GoesOff
  PROVE  \E r \in Run : gc[r].pc = "judge" /\ Due(gc[r]) /\ PowerOff
  <1>1. ~UNCHANGED powered
    BY DEF GoesOff
  <1>2. ~GTick /\ ~UNCHANGED gvars
    BY <1>1 DEF GTick, gvars, gcvars
  <1>3. ~World
    BY DEF GoesOff, World, StartsGuest, StopsGuest, RenewsGuest, ConvertsGuest,
           CreatesGuest, SwitchOn, OnlyHost
  <1>4. PICK r \in Run : GcStep(r) \/ GcCrash(r)
    BY <1>2, <1>3 DEF GNext
  <1>5. GcJudge(r)
    BY <1>1, <1>4 DEF GcStep, GcStart, GcListQemu, GcListLxc, GcList, GcScan, GcScanned,
       GcLock, GcStop, GcDestroy, GcCrash, OnlyGc
  <1>6. QED
    BY <1>1, <1>5 DEF GcJudge, OnlyGc

\* The collector destroys only what has expired, as long as nobody acts past
\* an expiry (reap_guest).
THEOREM OnlyExpiredReaped == ASSUME Punctual PROVE GSpec => ReapsOnlyExpired
  <1> DEFINE A == \A g \in Guest : Destroyed(g) => ExpiredAt(g, now)
  <1>1. ASSUME GInv, [GNext]_gvars, NEW g \in Guest, Destroyed(g) PROVE ExpiredAt(g, now)
    <2>1. guest' # guest /\ guest[g] # "absent" /\ guest'[g] = "absent"
      BY <1>1 DEF Destroyed
    <2>2. guest \in [Guest -> {"absent", "stopped", "running"}]
      BY <1>1 DEF GInv, GTypeOK
    <2>3. ~World /\ ~GTick /\ ~UNCHANGED gvars
      BY <2>1, <2>2 DEF World, StartsGuest, StopsGuest, RenewsGuest, ConvertsGuest,
         CreatesGuest, SwitchOn, GTick, gvars, hostvars
    <2>4. PICK r \in Run : GcStep(r) \/ GcCrash(r)
      BY <1>1, <2>3 DEF GNext
    <2>5. GcDestroy(r)
      <3>1. ~PowerOff
        BY <2>1, <2>2 DEF PowerOff
      <3>2. ~GcStop(r)
        BY <2>1, <2>2 DEF GcStop
      <3>3. QED
        BY <2>1, <2>4, <3>1, <3>2 DEF GcStep, GcStart, GcListQemu, GcListLxc, GcList,
           GcScan, GcScanned, GcLock, GcJudge, GcCrash, OnlyGc, hostvars
    <2>6. PICK h \in gc[r].target : Remove(h) \/ UNCHANGED hostvars
      BY <2>5 DEF GcDestroy
    <2>7. h = g
      BY <2>1, <2>2, <2>6 DEF Remove, hostvars
    <2>8. gc[r].pc = "destroy"
      BY <2>5 DEF GcDestroy
    <2>9. QED
      BY <1>1, <2>1, <2>6, <2>7, <2>8 DEF GInv, Doomed
  <1>2. GInv /\ [GNext]_gvars => [A]_gvars
    BY <1>1
  <1>3. QED
    BY <1>2, GcInvariance, PTL DEF GSpec, ReapsOnlyExpired

\* The host does not go off while a guest carries an expiry of 0 or one still
\* to come, as long as nobody acts past an expiry (power_pass).
THEOREM PinnedKeepsOn == ASSUME Punctual PROVE GSpec => PinnedKeepsHostOn
  <1> DEFINE A == GoesOff => \A g \in Guest : guest[g] # "absent" /\ Ours(g)
                                              => ExpiredAt(g, now)
  <1>1. ASSUME GInv, [GNext]_gvars, GoesOff, NEW g \in Guest, guest[g] # "absent", Ours(g)
        PROVE  ExpiredAt(g, now)
    <2>1. PICK r \in Run : gc[r].pc = "judge" /\ Due(gc[r])
      BY <1>1, PowerOffJudged
    <2>2. gc[r].known /\ gc[r].pinned = {} /\ gc[r].todo = {}
      BY <1>1, <2>1 DEF Due, IsClear, GInv, Judged
    <2>3. ~Covers(gc[r], g)
      BY <2>1, <2>2 DEF Covers
    <2>4. QED
      BY <1>1, <2>3 DEF GInv, Watched, Needed
  <1>2. GInv /\ [GNext]_gvars => [A]_gvars
    BY <1>1
  <1>3. QED
    BY <1>2, GcInvariance, PTL DEF GSpec, PinnedKeepsHostOn
=============================================================================
