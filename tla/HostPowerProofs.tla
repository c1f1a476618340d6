--------------------------- MODULE HostPowerProofs ---------------------------
(***************************************************************************)
(* Proofs about switching the host off: types and the verified power-off   *)
(* for any number of commands at once, the guards for one command at a     *)
(* time, for any number of leases and guests and any bounds.               *)
(***************************************************************************)
EXTENDS HostPower, TLAPS

-----------------------------------------------------------------------------
(* Types.                                                                  *)

LEMMA RestingTyped == Resting \in Act /\ Resting.pc = "rest" /\ Resting.lease = NoLease
  BY DEF Resting, Act, Commands

LEMMA ToTyped ==
  ASSUME PTypeOK, NEW a \in Actor, NEW p \in Act, To(a, p)
  PROVE  /\ act' \in [Actor -> Act] /\ act'[a] = p
         /\ \A b \in Actor \ {a} : act'[b] = act[b]
  BY DEF PTypeOK, To

LEMMA AtTyped ==
  ASSUME PTypeOK, NEW a \in Actor,
         NEW pc \in {"others", "remaining", "clock", "unowned", "probe", "list", "request"}
  PROVE  /\ At(a, pc) \in Act /\ At(a, pc).pc = pc /\ At(a, pc).cmd = act[a].cmd
         /\ At(a, pc).lease = act[a].lease
  <1>1. act[a] \in Act
    BY DEF PTypeOK
  <1>2. QED
    BY <1>1 DEF At, Act

LEMMA AnswersTyped ==
  ASSUME PTypeOK, Answers \/ NoAnswer PROVE lost' \in Nat
  BY DEF PTypeOK, Answers, NoAnswer

\* Another point of the same command, with the fields the later steps read.
Onward(a, pcs) ==
  /\ act' \in [Actor -> Act]
  /\ \A b \in Actor \ {a} : act'[b] = act[b]
  /\ act'[a].pc \in pcs
  /\ act'[a].cmd = act[a].cmd /\ act'[a].lease = act[a].lease

\* The command is over.
Ends(a) ==
  /\ act' \in [Actor -> Act]
  /\ \A b \in Actor \ {a} : act'[b] = act[b]
  /\ act'[a] = Resting

LEMMA RestEnds ==
  ASSUME PTypeOK, NEW a \in Actor, To(a, Resting) PROVE Ends(a)
  BY RestingTyped, ToTyped DEF Ends

LEMMA AtOnward ==
  ASSUME PTypeOK, NEW a \in Actor,
         NEW pc \in {"others", "remaining", "clock", "unowned", "probe", "list", "request"},
         To(a, At(a, pc))
  PROVE  Onward(a, {pc})
  BY AtTyped, ToTyped DEF Onward

LEMMA ReportOnward ==
  ASSUME PTypeOK, NEW a \in Actor, NEW off \in BOOLEAN, Report(a, off)
  PROVE  Onward(a, {"report"})
  <1>1. act[a] \in Act
    BY DEF PTypeOK
  <1> DEFINE p == [act[a] EXCEPT !.pc = "report", !.off = off]
  <1>2. p \in Act /\ p.pc = "report" /\ p.cmd = act[a].cmd /\ p.lease = act[a].lease
    BY <1>1 DEF Act
  <1>3. To(a, p)
    BY DEF Report
  <1> HIDE DEF p
  <1>4. QED
    BY <1>2, <1>3, ToTyped DEF Onward

-----------------------------------------------------------------------------
(* The inductive invariants.                                               *)

\* A shutdown that is being verified counts no more silent rounds than the
\* network has lost in a row, unless the host has left "on".
Verifying ==
  \A a \in Actor :
    act[a].pc = "verify" =>
      \/ power # "on"
      \/ act[a].woken
      \/ act[a].failures <= act[a].dropped /\ act[a].dropped < MinFailures

PInv == PTypeOK /\ Verifying

\* When one command runs at a time, what it has seen stays true until it acts
\* on it.
OneCommand == \A a, b \in Actor : a = b

Unneeded ==
  \A a \in Actor : act[a].pc = "request" => MustStayOn = {}

Alone ==
  \A a \in Actor :
    act[a].pc \in {"probe", "list", "request"} /\ act[a].cmd # "power-shutdown"
    => Open \subseteq {act[a].lease}

-----------------------------------------------------------------------------
(* Steps, by what they leave of the others.                                *)

\* A step that is not a round, a request or a boot.
Plain(a) ==
  /\ act' \in [Actor -> Act]
  /\ \A b \in Actor \ {a} : act'[b] = act[b]
  /\ act'[a].pc # "verify"
  /\ power' \in {"off", "booting", "on", "halting"}
  /\ power' = "on" => power = "on"
  /\ lost' \in Nat
  /\ state' \in [Lease -> {"none", "active", "ending", "cleanup_failed", "ended"}]
  /\ running' \in SUBSET Guest
  /\ activity' = activity

LEMMA PlainKeeps == ASSUME PInv, NEW a \in Actor, Plain(a) PROVE PInv'
  <1>1. PTypeOK'
    BY DEF PInv, PTypeOK, Plain
  <1>2. Verifying'
    BY DEF PInv, Verifying, Plain
  <1>3. QED
    BY <1>1, <1>2 DEF PInv

\* What a command knows when it is about to switch the host off.
Guarded(a) ==
  /\ act'[a].pc = "request" => MustStayOn' = {}
  /\ act'[a].pc \in {"probe", "list", "request"} /\ act'[a].cmd # "power-shutdown"
     => Open' \subseteq {act'[a].lease}

LEMMA Elsewhere ==
  ASSUME NEW a \in Actor, act'[a].pc \notin {"probe", "list", "request"} PROVE Guarded(a)
  BY DEF Guarded

LEMMA StartsPlain ==
  ASSUME PInv, NEW a \in Actor, PStart(a) PROVE Plain(a) /\ Guarded(a)
  <1> USE DEF PInv
  <1>1. /\ act \in [Actor -> Act] /\ power \in {"off", "booting", "on", "halting"}
        /\ lost \in Nat /\ running \in SUBSET Guest
        /\ state \in [Lease -> {"none", "active", "ending", "cleanup_failed", "ended"}]
    BY DEF PTypeOK
  <1>2. CASE BeginIdle(a) \/ BeginShutdown(a) \/ Wake(a)
    <2>1. PICK c \in Commands, pc \in {"clock", "probe", "await"} :
            /\ To(a, [Resting EXCEPT !.cmd = c, !.pc = pc])
            /\ pc = "probe" => c = "power-shutdown"
      BY <1>2 DEF BeginIdle, BeginShutdown, Wake, Begin, Commands
    <2> DEFINE p == [Resting EXCEPT !.cmd = c, !.pc = pc]
    <2>2. p \in Act /\ p.pc = pc /\ p.cmd = c
      BY RestingTyped DEF Act
    <2> HIDE DEF p
    <2>3. act' \in [Actor -> Act] /\ act'[a] = p /\ \A b \in Actor \ {a} : act'[b] = act[b]
      BY <2>1, <2>2, ToTyped DEF p
    <2>4. /\ state' = state /\ running' = running /\ activity' = activity /\ lost' \in Nat
          /\ power' \in {power, "booting"}
      BY <1>1, <1>2, AnswersTyped DEF BeginIdle, BeginShutdown, Wake, World
    <2>5. Plain(a)
      BY <1>1, <2>2, <2>3, <2>4 DEF Plain
    <2>6. Guarded(a)
      BY <2>1, <2>2, <2>3 DEF Guarded
    <2>7. QED
      BY <2>5, <2>6
  <1>3. ASSUME NEW l \in Lease, BeginLease(a, l) \/ EndLease(a, l)
        PROVE  Plain(a) /\ Guarded(a)
    <2>1. PICK c \in Commands, pc \in {"begin", "finalize"} :
            To(a, [Resting EXCEPT !.cmd = c, !.pc = pc, !.lease = l])
      BY <1>3 DEF BeginLease, EndLease, Commands
    <2> DEFINE p == [Resting EXCEPT !.cmd = c, !.pc = pc, !.lease = l]
    <2>2. p \in Act /\ p.pc = pc
      BY RestingTyped DEF Act
    <2> HIDE DEF p
    <2>3. act' \in [Actor -> Act] /\ act'[a] = p /\ \A b \in Actor \ {a} : act'[b] = act[b]
      BY <2>1, <2>2, ToTyped DEF p
    <2>4. /\ state' \in {state, [state EXCEPT ![l] = "ending"]}
          /\ running' = running /\ activity' = activity /\ lost' \in Nat /\ power' = power
      BY <1>1, <1>3, AnswersTyped DEF BeginLease, EndLease, World
    <2>5. QED
      BY <1>1, <2>2, <2>3, <2>4, Elsewhere DEF Plain
  <1>4. ASSUME NEW g \in Guest, StartGuest(a, g) \/ StopGuest(a, g)
        PROVE  Plain(a) /\ Guarded(a)
    <2>1. /\ UNCHANGED <<state, power, activity, lost, act>> /\ act[a] = Resting
          /\ running' \in {running \cup {g}, running \ {g}}
      BY <1>4 DEF StartGuest, StopGuest
    <2>2. QED
      BY <1>1, <2>1, RestingTyped, Elsewhere DEF Plain
  <1>5. ASSUME NEW c \in {"sweep", "sweep-all"}, BeginSweep(a, c)
        PROVE  Plain(a) /\ Guarded(a)
    <2>1. PICK todo \in SUBSET Lease :
            To(a, [Resting EXCEPT !.cmd = c, !.pc = "sweep", !.todo = todo])
      BY <1>5 DEF BeginSweep
    <2> DEFINE p == [Resting EXCEPT !.cmd = c, !.pc = "sweep", !.todo = todo]
    <2>2. p \in Act /\ p.pc = "sweep"
      BY RestingTyped DEF Act, Commands
    <2> HIDE DEF p
    <2>3. act' \in [Actor -> Act] /\ act'[a] = p /\ \A b \in Actor \ {a} : act'[b] = act[b]
      BY <2>1, <2>2, ToTyped DEF p
    <2>4. UNCHANGED <<state, running, power, activity, lost>>
      BY <1>5 DEF BeginSweep, World
    <2>5. QED
      BY <1>1, <2>2, <2>3, <2>4, Elsewhere DEF Plain
  <1>6. QED
    BY <1>2, <1>3, <1>4, <1>5 DEF PStart

\* A command that ends, or goes on to one of `pcs`, and leaves the leases, the
\* guests and the power as they are.
LEMMA QuietPlain ==
  ASSUME PInv, NEW a \in Actor, NEW pcs, "verify" \notin pcs,
         Ends(a) \/ Onward(a, pcs), UNCHANGED World, lost' \in Nat
  PROVE  Plain(a)
  BY RestingTyped DEF Plain, Ends, Onward, World, PInv, PTypeOK

LEMMA TeardownTyped ==
  ASSUME PInv, NEW l \in Lease, Teardown(l)
  PROVE  /\ state' \in [Lease -> {"none", "active", "ending", "cleanup_failed", "ended"}]
         /\ running' \in SUBSET Guest /\ lost' \in Nat
  <1> DEFINE own == {g \in Guest : Owned[g] = l}
  <1>1. /\ state \in [Lease -> {"none", "active", "ending", "cleanup_failed", "ended"}]
        /\ running \in SUBSET Guest /\ lost \in Nat
    BY DEF PInv, PTypeOK
  <1>2. /\ \E s \in {"ended", "cleanup_failed"} : state' = [state EXCEPT ![l] = s]
        /\ running' \in {running, running \ own}
        /\ UNCHANGED lost \/ NoAnswer
    BY DEF Teardown
  <1> HIDE DEF own
  <1>3. lost' \in Nat
    BY <1>1, <1>2, AnswersTyped DEF PInv
  <1>4. QED
    BY <1>1, <1>2, <1>3

\* Leases: begin, end, sweep.
LEMMA LeaseSteps ==
  ASSUME PInv, NEW a \in Actor, InsertLease(a) \/ Finalize(a) \/ SweepOne(a) \/ SweepOver(a)
  PROVE  Plain(a) /\ Guarded(a)
  <1>1. /\ act \in [Actor -> Act] /\ power \in {"off", "booting", "on", "halting"}
        /\ lost \in Nat /\ running \in SUBSET Guest
        /\ state \in [Lease -> {"none", "active", "ending", "cleanup_failed", "ended"}]
    BY DEF PInv, PTypeOK
  <1>2. CASE InsertLease(a)
    <2>1. Ends(a) /\ state' = [state EXCEPT ![act[a].lease] = "active"]
          /\ UNCHANGED <<running, power, activity, lost>>
      BY <1>2, RestEnds DEF InsertLease, PInv
    <2>2. QED
      BY <1>1, <2>1, RestingTyped, Elsewhere DEF Plain, Ends
  <1>3. CASE Finalize(a)
    <2>1. Onward(a, {"others"}) /\ UNCHANGED <<power, activity>>
      BY <1>3, AtOnward DEF Finalize, PInv
    <2>2. CASE act[a].lease \in Lease
      <3>1. /\ state' \in [Lease -> {"none", "active", "ending", "cleanup_failed", "ended"}]
            /\ running' \in SUBSET Guest /\ lost' \in Nat
        BY <1>3, <2>2, TeardownTyped DEF Finalize
      <3>2. QED
        BY <1>1, <2>1, <3>1, Elsewhere DEF Plain, Onward
    <2>3. CASE act[a].lease \notin Lease
      <3>1. /\ state' = state
            /\ running' \in {running, running \ {g \in Guest : Owned[g] = act[a].lease}}
            /\ UNCHANGED lost \/ NoAnswer
        BY <1>1, <1>3, <2>3 DEF Finalize, Teardown
      <3>2. lost' \in Nat
        BY <1>1, <3>1, AnswersTyped DEF PInv
      <3>3. running' \in SUBSET Guest
        BY <1>1, <3>1
      <3>4. QED
        BY <1>1, <2>1, <3>1, <3>2, <3>3, Elsewhere DEF Plain, Onward
    <2>4. QED
      BY <2>2, <2>3
  <1>4. CASE SweepOne(a)
    <2>1. PICK l \in act[a].todo :
            \/ Teardown(l)
               /\ To(a, [act[a] EXCEPT !.todo = @ \ {l}, !.cleaned = @ \/ state'[l] = "ended"])
            \/ To(a, [act[a] EXCEPT !.todo = @ \ {l}]) /\ UNCHANGED <<state, running, lost>>
      BY <1>4 DEF SweepOne
    <2>2. act[a] \in Act /\ act[a].pc = "sweep" /\ l \in Lease /\ UNCHANGED <<power, activity>>
      BY <1>1, <1>4, <2>1 DEF SweepOne, Act
    <2> DEFINE ended == act[a].cleaned \/ state'[l] = "ended"
               p == [act[a] EXCEPT !.todo = @ \ {l}, !.cleaned = ended]
               q == [act[a] EXCEPT !.todo = @ \ {l}]
    <2>3. ended \in BOOLEAN
      BY <2>2 DEF Act
    <2>4. (To(a, p) /\ Teardown(l)) \/ (To(a, q) /\ UNCHANGED <<state, running, lost>>)
      BY <2>1, <2>2 DEF Act
    <2> HIDE DEF ended
    <2>5. p \in Act /\ p.pc = "sweep" /\ q \in Act /\ q.pc = "sweep"
      BY <2>2, <2>3 DEF Act
    <2> HIDE DEF p, q
    <2>6. /\ act' \in [Actor -> Act] /\ act'[a].pc = "sweep"
          /\ \A b \in Actor \ {a} : act'[b] = act[b]
      BY <2>4, <2>5, ToTyped DEF PInv
    <2>7. /\ state' \in [Lease -> {"none", "active", "ending", "cleanup_failed", "ended"}]
          /\ running' \in SUBSET Guest /\ lost' \in Nat
      BY <1>1, <2>2, <2>4, TeardownTyped
    <2>8. QED
      BY <1>1, <2>2, <2>6, <2>7, Elsewhere DEF Plain
  <1>5. CASE SweepOver(a)
    <2>1. Onward(a, {"remaining"}) /\ UNCHANGED <<World, lost>>
      BY <1>5, AtOnward DEF SweepOver, PInv
    <2>2. Plain(a)
      BY <1>1, <2>1, QuietPlain
    <2>3. QED
      BY <2>1, <2>2, Elsewhere DEF Onward
  <1>6. QED
    BY <1>2, <1>3, <1>4, <1>5

\* Deciding: the counts of leases, the clock, the probe and the list of guests.
LEMMA DecideSteps ==
  ASSUME PInv, NEW a \in Actor,
         \/ CountOthers(a) \/ Remaining(a) \/ ReadClock(a) \/ ReadLeases(a)
         \/ ProbeFirst(a) \/ ListGuests(a) \/ GiveUp(a) \/ Finish(a) \/ Awaited(a)
  PROVE  Plain(a) /\ (Alone => Guarded(a))
  <1>1. UNCHANGED World /\ lost' \in Nat
    <2>1. lost \in Nat
      BY DEF PInv, PTypeOK
    <2>2. UNCHANGED World
      BY DEF CountOthers, Remaining, ReadClock, ReadLeases, ProbeFirst, ListGuests, GiveUp,
             Finish, Awaited, World
    <2>3. UNCHANGED lost \/ Answers \/ NoAnswer
      BY DEF CountOthers, Remaining, ReadClock, ReadLeases, ProbeFirst, ListGuests, GiveUp,
             Finish, Awaited
    <2>4. QED
      BY <2>1, <2>2, <2>3, AnswersTyped DEF PInv
  <1>2. Open' = Open /\ MustStayOn' = MustStayOn
    BY <1>1 DEF Open, MustStayOn, World
  <1>3. ASSUME Ends(a) PROVE Plain(a) /\ Guarded(a)
    <2>1. Plain(a)
      <3>1. "verify" \notin {}
        OBVIOUS
      <3>2. QED
        BY <1>1, <1>3, <3>1, QuietPlain
    <2>2. QED
      BY <1>3, <2>1, RestingTyped, Elsewhere DEF Ends
  <1>4. ASSUME NEW pc \in {"clock", "unowned", "report"}, Onward(a, {pc})
        PROVE  Plain(a) /\ Guarded(a)
    BY <1>1, <1>4, QuietPlain, Elsewhere DEF Onward
  <1>5. ASSUME Onward(a, {"probe"}), Open \subseteq {act[a].lease}
        PROVE  Plain(a) /\ Guarded(a)
    BY <1>1, <1>2, <1>5, QuietPlain DEF Onward, Guarded
  <1>6. CASE CountOthers(a)
    BY <1>3, <1>5, <1>6, RestEnds, AtOnward DEF CountOthers, Others, PInv
  <1>7. CASE Remaining(a)
    BY <1>3, <1>4, <1>5, <1>7, RestEnds, AtOnward DEF Remaining, PInv
  <1>8. CASE ReadClock(a)
    BY <1>3, <1>4, <1>8, RestEnds, AtOnward DEF ReadClock, PInv
  <1>9. CASE ReadLeases(a)
    BY <1>3, <1>5, <1>9, RestEnds, AtOnward DEF ReadLeases, PInv
  <1>10. CASE ProbeFirst(a)
    <2>1. CASE To(a, At(a, "list"))
      <3>1. Onward(a, {"list"})
        BY <2>1, AtOnward DEF PInv
      <3>2. Plain(a)
        BY <1>1, <3>1, QuietPlain
      <3>3. Alone => Guarded(a)
        BY <1>2, <1>10, <3>1 DEF Alone, Guarded, Onward, ProbeFirst
      <3>4. QED
        BY <3>2, <3>3
    <2>2. CASE To(a, Resting) \/ Report(a, TRUE)
      BY <1>3, <1>4, <2>2, RestEnds, ReportOnward DEF PInv
    <2>3. QED
      BY <1>10, <2>1, <2>2 DEF ProbeFirst
  <1>11. CASE ListGuests(a)
    <2>1. CASE To(a, At(a, "request")) /\ MustStayOn = {}
      <3>1. Onward(a, {"request"})
        BY <2>1, AtOnward DEF PInv
      <3>2. Plain(a)
        BY <1>1, <3>1, QuietPlain
      <3>3. Alone => Guarded(a)
        BY <1>2, <1>11, <2>1, <3>1 DEF Alone, Guarded, Onward, ListGuests
      <3>4. QED
        BY <3>2, <3>3
    <2>2. CASE Report(a, FALSE)
      BY <1>4, <2>2, ReportOnward DEF PInv
    <2>3. QED
      BY <1>11, <2>1, <2>2 DEF ListGuests
  <1>12. CASE GiveUp(a)
    BY <1>4, <1>12, ReportOnward DEF GiveUp, PInv
  <1>13. CASE Finish(a) \/ Awaited(a)
    BY <1>3, <1>13, RestEnds DEF Finish, Awaited, PInv
  <1>14. QED
    BY <1>6, <1>7, <1>8, <1>9, <1>10, <1>11, <1>12, <1>13

\* The request and the rounds of its verification.
LEMMA RequestKeeps ==
  ASSUME PInv, NEW a \in Actor, Request(a) PROVE PInv' /\ Guarded(a)
  <1> DEFINE p == [act[a] EXCEPT !.pc = "verify", !.failures = 0, !.elapsed = 0,
                                 !.dropped = 0, !.woken = FALSE]
  <1>1. act[a] \in Act /\ PTypeOK /\ MinFailures \in Nat \ {0}
    BY PowerAssumption DEF PInv, PTypeOK
  <1>2. /\ p \in Act /\ p.pc = "verify" /\ p.failures = 0 /\ p.dropped = 0
    BY <1>1 DEF Act
  <1>3. To(a, p) /\ UNCHANGED <<state, running, activity>>
        /\ power' \in {"halting", power} /\ (Answers \/ NoAnswer)
    BY DEF Request
  <1> HIDE DEF p
  <1>4. act' \in [Actor -> Act] /\ act'[a] = p /\ \A b \in Actor \ {a} : act'[b] = act[b]
    BY <1>1, <1>2, <1>3, ToTyped
  <1>5. lost' \in Nat
    BY <1>1, <1>3, AnswersTyped
  <1>6. PTypeOK'
    BY <1>1, <1>3, <1>4, <1>5 DEF PTypeOK
  <1>7. Verifying'
    <2>1. power' # "on" => \A b \in Actor : act'[b].pc = "verify" => power' # "on"
      OBVIOUS
    <2>2. CASE power' = "on"
      <3>1. power = "on"
        BY <1>3, <2>2
      <3>2. act'[a].failures <= act'[a].dropped /\ act'[a].dropped < MinFailures
        BY <1>1, <1>2, <1>4
      <3>3. QED
        BY <1>4, <3>1, <3>2 DEF PInv, Verifying
    <2>3. QED
      BY <2>2 DEF Verifying
  <1>8. QED
    BY <1>2, <1>4, <1>6, <1>7, Elsewhere DEF PInv

LEMMA RoundKeeps ==
  ASSUME PInv, NEW a \in Actor, Round(a)
  PROVE  /\ PInv' /\ Guarded(a)
         /\ act'[a].pc = "report" /\ act'[a].off => power # "on" \/ act[a].woken
  <1> DEFINE p == act[a]
  <1>1. p \in Act /\ PTypeOK /\ p.pc = "verify" /\ UNCHANGED World
        /\ MinFailures \in Nat \ {0}
    BY PowerAssumption DEF PInv, PTypeOK, Round
  <1>2. PICK reached \in BOOLEAN, t \in {0, 1} :
          LET n      == Counted(p, reached)
              missed == power = "on" /\ ~reached IN
          /\ IF reached THEN Answers ELSE NoAnswer
          /\ missed => p.dropped + 1 < MinFailures
          /\ IF ~reached /\ n >= MinFailures /\ p.elapsed + t >= Window
             THEN Report(a, TRUE)
             ELSE To(a, [p EXCEPT !.failures = n, !.elapsed = @ + t + 1,
                                  !.dropped = IF missed THEN @ + 1 ELSE 0])
    BY DEF Round
  <1> DEFINE n == Counted(p, reached)
             missed == power = "on" /\ ~reached
             d == IF missed THEN p.dropped + 1 ELSE 0
             e == p.elapsed + t + 1
             q == [p EXCEPT !.failures = n, !.elapsed = e, !.dropped = d]
  <1>3. n \in Nat /\ d \in Nat /\ e \in Nat
    BY <1>1 DEF Counted, Act
  <1>4. lost' \in Nat
    BY <1>1, <1>2, AnswersTyped
  \* The count of silent rounds stays below the bound while the host is up.
  <1>5. power # "on" \/ p.woken \/ (n <= d /\ d < MinFailures)
    <2>1. power # "on" \/ p.woken \/ (p.failures <= p.dropped /\ p.dropped < MinFailures)
      BY <1>1 DEF PInv, Verifying
    <2>2. p.failures \in Nat /\ p.dropped \in Nat
      BY <1>1 DEF Act
    <2>3. CASE reached
      BY <1>1, <2>3 DEF Counted
    <2>4. CASE ~reached
      BY <1>1, <1>2, <2>1, <2>2, <2>4 DEF Counted
    <2>5. QED
      BY <2>3, <2>4
  <1>6. CASE Report(a, TRUE) /\ ~reached /\ n >= MinFailures
    <2>1. Onward(a, {"report"})
      BY <1>1, <1>6, ReportOnward
    <2>2. power # "on" \/ p.woken
      BY <1>1, <1>3, <1>5, <1>6
    <2>3. "verify" \notin {"report"}
      OBVIOUS
    <2>4. Plain(a)
      BY <1>1, <1>4, <2>1, <2>3, QuietPlain
    <2>5. Guarded(a)
      BY <2>1, Elsewhere DEF Onward
    <2>6. QED
      BY <2>2, <2>4, <2>5, PlainKeeps
  <1>7. CASE To(a, q)
    <2>1. q \in Act /\ q.pc = "verify" /\ q.failures = n /\ q.dropped = d
          /\ q.woken = p.woken
      BY <1>1, <1>3 DEF Act
    <2> HIDE DEF q, n, d, e
    <2>2. act' \in [Actor -> Act] /\ act'[a] = q /\ \A b \in Actor \ {a} : act'[b] = act[b]
      BY <1>1, <1>7, <2>1, ToTyped
    <2>3. PTypeOK'
      BY <1>1, <1>4, <2>2 DEF PTypeOK, World
    <2>4. power' = power
      BY <1>1 DEF World
    <2>5. Verifying'
      BY <1>5, <2>1, <2>2, <2>4 DEF PInv, Verifying
    <2>6. QED
      BY <2>1, <2>2, <2>3, <2>5, Elsewhere DEF PInv
  <1>8. QED
    <2>1. CASE ~reached /\ n >= MinFailures /\ p.elapsed + t >= Window
      BY <1>2, <1>6, <2>1
    <2>2. CASE ~(~reached /\ n >= MinFailures /\ p.elapsed + t >= Window)
      <3>1. To(a, [p EXCEPT !.failures = n, !.elapsed = @ + t + 1,
                            !.dropped = IF missed THEN @ + 1 ELSE 0])
        BY <1>2, <2>2
      <3>2. To(a, q)
        BY <1>1, <3>1 DEF To, Act
      <3>3. QED
        BY <1>7, <3>2
    <2>3. QED
      BY <2>1, <2>2

\* The client, the clock and the machine.
LEMMA WorldKeeps == ASSUME PInv, ToolCall \/ GoesQuiet \/ Machine PROVE PInv'
  <1>1. CASE ToolCall \/ GoesQuiet \/ Halted \/ PowerButton
    <2>1. /\ act' = act /\ lost' = lost /\ state' = state
          /\ running' \in {running, {}} /\ activity' \in {activity, "recent", "quiet"}
          /\ power' = power \/ power' \in {"off", "booting"}
      BY <1>1 DEF ToolCall, GoesQuiet, Halted, PowerButton
    <2>2. PTypeOK'
      BY <2>1 DEF PInv, PTypeOK
    <2>3. Verifying'
      BY <2>1 DEF PInv, Verifying
    <2>4. QED
      BY <2>2, <2>3 DEF PInv
  <1>2. CASE Booted
    <2>1. /\ act \in [Actor -> Act] /\ power' = "on"
          /\ act' = [a \in Actor |-> [act[a] EXCEPT !.woken = act[a].pc # "rest"]]
          /\ UNCHANGED <<state, running, activity, lost>>
      BY <1>2 DEF PInv, PTypeOK, Booted
    <2>2. ASSUME NEW a \in Actor
          PROVE  /\ act'[a] \in Act /\ act'[a].pc = act[a].pc
                 /\ act[a].pc = "verify" => act'[a].woken
      <3>1. act[a] \in Act /\ act'[a] = [act[a] EXCEPT !.woken = act[a].pc # "rest"]
        BY <2>1
      <3>2. QED
        BY <3>1 DEF Act
    <2>3. act' \in [Actor -> Act]
      BY <2>1, <2>2
    <2>4. PTypeOK'
      BY <2>1, <2>3 DEF PInv, PTypeOK
    <2>5. Verifying'
      BY <2>2 DEF Verifying
    <2>6. QED
      BY <2>4, <2>5 DEF PInv
  <1>3. QED
    BY <1>1, <1>2 DEF Machine

LEMMA StepKeeps ==
  ASSUME PInv, NEW a \in Actor, PStep(a)
  PROVE  /\ PInv' /\ (Alone => Guarded(a))
         /\ \A b \in Actor \ {a} : act'[b] = act[b]
  <1>1. CASE InsertLease(a) \/ Finalize(a) \/ SweepOne(a) \/ SweepOver(a)
    BY <1>1, LeaseSteps, PlainKeeps DEF Plain
  <1>2. CASE \/ CountOthers(a) \/ Remaining(a) \/ ReadClock(a) \/ ReadLeases(a)
             \/ ProbeFirst(a) \/ ListGuests(a) \/ GiveUp(a) \/ Finish(a) \/ Awaited(a)
    BY <1>2, DecideSteps, PlainKeeps DEF Plain
  <1>3. CASE Request(a)
    BY <1>3, RequestKeeps DEF Request, To, PInv, PTypeOK
  <1>4. CASE Round(a)
    BY <1>4, RoundKeeps DEF Round, Report, To, PInv, PTypeOK
  <1>5. QED
    BY <1>1, <1>2, <1>3, <1>4 DEF PStep

LEMMA PInvStarts == PInit => PInv
  <1> SUFFICES ASSUME PInit PROVE PInv
    OBVIOUS
  <1>1. PTypeOK
    BY RestingTyped DEF PInit, PTypeOK
  <1>2. Verifying
    BY RestingTyped DEF PInit, Verifying
  <1>3. QED
    BY <1>1, <1>2 DEF PInv

LEMMA PInvNext == PInv /\ [PNext]_pvars => PInv'
  <1> SUFFICES ASSUME PInv, [PNext]_pvars PROVE PInv'
    OBVIOUS
  <1>1. CASE ToolCall \/ GoesQuiet \/ Machine
    BY <1>1, WorldKeeps
  <1>2. ASSUME NEW a \in Actor, PStart(a) \/ PStep(a) PROVE PInv'
    BY <1>2, StartsPlain, PlainKeeps, StepKeeps
  <1>3. CASE UNCHANGED pvars
    BY <1>3 DEF pvars, PInv, PTypeOK, Verifying
  <1>4. QED
    BY <1>1, <1>2, <1>3 DEF PNext

\* For any number of commands at once: the program is where the proofs below
\* take it to be (power.py, cleanup.py, mcp.py).
THEOREM PowerInvariance == PSpec => []PInv
  BY PInvStarts, PInvNext, PTL DEF PSpec

\* Types (the variables of HostPower).
THEOREM PTypeCorrect == PSpec => []PTypeOK
  <1>1. PInv => PTypeOK
    BY DEF PInv
  <1>2. QED
    BY <1>1, PowerInvariance, PTL

\* A power-off that shutdown_verified reports happened, for any number of
\* commands at once and any bounds: the count of silent rounds it asks for is
\* more than the network loses in a row (power.shutdown_verified).
THEOREM VerifiedDown == PSpec => VerifiedMeansDown
  <1> DEFINE A == \A a \in Actor :
                    act[a].pc = "verify" /\ act'[a].pc = "report" /\ act'[a].off
                    => power # "on" \/ act[a].woken
  <1>1. PInv /\ [PNext]_pvars => A
    <2> SUFFICES ASSUME PInv, [PNext]_pvars, NEW b \in Actor,
                        act[b].pc = "verify", act'[b].pc = "report", act'[b].off
                 PROVE  power # "on" \/ act[b].woken
      OBVIOUS
    <2>1. ~(UNCHANGED act)
      OBVIOUS
    <2>2. CASE ToolCall \/ GoesQuiet \/ Halted \/ PowerButton
      BY <2>1, <2>2 DEF ToolCall, GoesQuiet, Halted, PowerButton
    <2>3. CASE Booted
      BY <2>3 DEF Booted
    <2>4. ASSUME NEW a \in Actor, PStart(a) PROVE FALSE
      <3>1. act[a] = Resting \/ (UNCHANGED act)
        BY <2>4 DEF PStart, BeginIdle, BeginShutdown, Wake, Begin, BeginLease, EndLease,
                    StartGuest, StopGuest, BeginSweep
      <3>2. a # b
        BY <2>1, <3>1, RestingTyped
      <3>3. QED
        BY <2>4, <3>2, StartsPlain DEF Plain
    <2>5. ASSUME NEW a \in Actor, PStep(a), a # b PROVE FALSE
      BY <2>5, StepKeeps
    <2>6. CASE PStep(b)
      <3>1. CASE Round(b)
        BY <3>1, RoundKeeps
      <3>2. CASE GiveUp(b)
        <4>1. act'[b].off = FALSE
          <5>1. act[b] \in Act /\ act \in [Actor -> Act]
            BY DEF PInv, PTypeOK
          <5>2. QED
            BY <3>2, <5>1 DEF GiveUp, Report, To, Act
        <4>2. QED
          BY <4>1
      <3>3. CASE \/ InsertLease(b) \/ Finalize(b) \/ CountOthers(b) \/ SweepOne(b)
                 \/ SweepOver(b) \/ Remaining(b) \/ ReadClock(b) \/ ReadLeases(b)
                 \/ ProbeFirst(b) \/ ListGuests(b) \/ Request(b) \/ Finish(b) \/ Awaited(b)
        BY <3>3 DEF InsertLease, Finalize, CountOthers, SweepOne, SweepOver, Remaining,
                    ReadClock, ReadLeases, ProbeFirst, ListGuests, Request, Finish, Awaited
      <3>4. QED
        BY <2>6, <3>1, <3>2, <3>3 DEF PStep
    <2>7. CASE UNCHANGED pvars
      BY <2>1, <2>7 DEF pvars
    <2>8. QED
      BY <2>2, <2>3, <2>4, <2>5, <2>6, <2>7 DEF PNext, Machine
  <1>2. QED
    BY <1>1, PowerInvariance, PTL DEF VerifiedMeansDown, PSpec

-----------------------------------------------------------------------------
(* One command at a time.                                                  *)

OneInv == PInv /\ Unneeded /\ Alone

LEMMA OneInvStarts == PInit => OneInv
  <1> SUFFICES ASSUME PInit PROVE OneInv
    OBVIOUS
  <1>1. \A a \in Actor : act[a].pc = "rest"
    BY RestingTyped DEF PInit
  <1>2. QED
    BY <1>1, PInvStarts DEF OneInv, Unneeded, Alone

\* A guard a command has read stays true until it acts on it.
LEMMA GuardedKeeps ==
  ASSUME OneCommand, NEW a \in Actor, Guarded(a) PROVE Unneeded' /\ Alone'
  <1>1. \A b \in Actor : b = a
    BY DEF OneCommand
  <1>2. QED
    BY <1>1 DEF Guarded, Unneeded, Alone

LEMMA OneInvNext == ASSUME OneCommand, OneInv, [PNext]_pvars PROVE OneInv'
  <1>1. PInv'
    BY PInvNext DEF OneInv
  <1>2. CASE ToolCall \/ GoesQuiet \/ Halted \/ PowerButton
    <2>1. UNCHANGED <<state, act>> /\ running' \in {running, {}}
      BY <1>2 DEF ToolCall, GoesQuiet, Halted, PowerButton
    <2>2. QED
      BY <1>1, <2>1 DEF OneInv, Unneeded, Alone, MustStayOn, Open
  <1>3. CASE Booted
    <2>1. UNCHANGED <<state, running>>
      BY <1>3 DEF Booted
    <2>2. ASSUME NEW a \in Actor
          PROVE  act'[a].pc = act[a].pc /\ act'[a].cmd = act[a].cmd
                 /\ act'[a].lease = act[a].lease
      <3>1. act[a] \in Act /\ act'[a] = [act[a] EXCEPT !.woken = act[a].pc # "rest"]
        BY <1>3 DEF OneInv, PInv, PTypeOK, Booted
      <3>2. QED
        BY <3>1 DEF Act
    <2>3. MustStayOn' = MustStayOn /\ Open' = Open
      BY <2>1 DEF MustStayOn, Open
    <2>4. QED
      BY <1>1, <2>2, <2>3 DEF OneInv, Unneeded, Alone
  <1>4. ASSUME NEW a \in Actor, PStart(a) \/ PStep(a) PROVE OneInv'
    BY <1>1, <1>4, StartsPlain, StepKeeps, GuardedKeeps DEF OneInv
  <1>5. CASE UNCHANGED pvars
    BY <1>1, <1>5 DEF pvars, OneInv, Unneeded, Alone, MustStayOn, Open
  <1>6. QED
    BY <1>2, <1>3, <1>4, <1>5 DEF PNext, Machine

\* Only a request sends the host off, and it is the only command there is.
LEMMA GoesDownByRequest ==
  ASSUME OneCommand, OneInv, [PNext]_pvars, GoesDown
  PROVE  \A a \in Actor : act[a].pc = "request"
  <1>1. CASE ToolCall \/ GoesQuiet \/ Machine \/ UNCHANGED pvars
    BY <1>1 DEF GoesDown, ToolCall, GoesQuiet, Machine, Halted, Booted, PowerButton, pvars
  <1>2. ASSUME NEW a \in Actor, PStart(a) \/ PStep(a) PROVE act[a].pc = "request"
    <2>1. ~PStart(a)
      BY DEF GoesDown, PStart, BeginIdle, BeginShutdown, Wake, BeginLease, EndLease,
             StartGuest, StopGuest, BeginSweep, World
    <2>2. CASE Request(a)
      BY <2>2 DEF Request
    <2>3. CASE \/ InsertLease(a) \/ Finalize(a) \/ CountOthers(a) \/ SweepOne(a)
               \/ SweepOver(a) \/ Remaining(a) \/ ReadClock(a) \/ ReadLeases(a)
               \/ ProbeFirst(a) \/ ListGuests(a) \/ Round(a) \/ GiveUp(a) \/ Finish(a)
               \/ Awaited(a)
      BY <2>3 DEF GoesDown, InsertLease, Finalize, CountOthers, SweepOne, SweepOver,
                  Remaining, ReadClock, ReadLeases, ProbeFirst, ListGuests, Round, GiveUp,
                  Finish, Awaited, World
    <2>4. QED
      BY <1>2, <2>1, <2>2, <2>3 DEF PStep
  <1>3. QED
    BY <1>1, <1>2 DEF OneCommand, PNext

\* No step sends the host off under a running guest, whatever lease it belongs
\* to, when commands run one at a time (cleanup.shutdown_host).
THEOREM RunningKeepsOn == ASSUME OneCommand PROVE PSpec => NeverUnderRunning
  <1>1. PInit => OneInv
    BY OneInvStarts
  <1>2. OneInv /\ [PNext]_pvars => OneInv'
    BY OneInvNext
  <1>3. OneInv /\ [PNext]_pvars => (GoesDown => running \subseteq Infra)
    <2> SUFFICES ASSUME OneInv, [PNext]_pvars, GoesDown PROVE running \subseteq Infra
      OBVIOUS
    <2>1. PICK a \in Actor : TRUE
      BY DEF GoesDown, PNext, ToolCall, GoesQuiet, Machine, Halted, Booted, PowerButton, pvars
    <2>2. MustStayOn = {}
      BY <2>1, GoesDownByRequest DEF OneInv, Unneeded
    <2>3. QED
      BY <2>2 DEF MustStayOn
  <1>4. QED
    BY <1>1, <1>2, <1>3, PTL DEF PSpec, NeverUnderRunning

\* No command but power shutdown sends the host off while a lease other than
\* the one it has just ended is open, when commands run one at a time
\* (leases.active_leases as lease-end, the sweep and the idle clock read it).
THEOREM OpenLeasesKeepOn == ASSUME OneCommand PROVE PSpec => OtherLeasesKeepHostOn
  <1> DEFINE A == \A a \in Actor :
                    act[a].pc = "request" /\ act[a].cmd # "power-shutdown"
                    => Open \subseteq {act[a].lease}
  <1>1. PInit => OneInv
    BY OneInvStarts
  <1>2. OneInv /\ [PNext]_pvars => OneInv'
    BY OneInvNext
  <1>3. OneInv => (GoesDown => A)
    BY DEF OneInv, Alone
  <1>4. QED
    BY <1>1, <1>2, <1>3, PTL DEF PSpec, OtherLeasesKeepHostOn
=============================================================================
