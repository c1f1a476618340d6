------------------------------- MODULE HostPower -------------------------------
(***************************************************************************)
(* Who may switch the host off, and when it counts as off: the ends of     *)
(* lease-end, lease-destroy and cleanup-expired with [power] auto_shutdown *)
(* on, the MCP server's idle clock, power shutdown and power wake          *)
(* (cleanup.py, power.py, leases.py, mcp.py). A teardown is one step here; *)
(* Cleanup has its interior.                                               *)
(***************************************************************************)
EXTENDS Naturals, FiniteSets

CONSTANTS
  Lease, LongTerm, NoLease,
  Guest,
  Infra,        \* guests tagged codex-lab-infra
  Owned,        \* guest -> the lease it belongs to, or NoLease
  Actor,
  AutoShutdown, \* [power] auto_shutdown
  MinFailures, Window, Timeout,  \* of power.shutdown_verified, in rounds
  MaxLost       \* bound on host calls and probes that get no answer

ASSUME PowerAssumption ==
  /\ LongTerm \subseteq Lease /\ NoLease \notin Lease
  /\ Infra \subseteq Guest /\ Owned \in [Guest -> Lease \cup {NoLease}]
  /\ AutoShutdown \in BOOLEAN
  /\ {MinFailures, Window, Timeout} \subseteq Nat \ {0} /\ MaxLost \in Nat

VARIABLES
  state,     \* lease -> its state in lab.db; "ended" stands for all terminal ones
  running,   \* the guests that run
  power,     \* "off", "booting", "on", "halting"
  activity,  \* last_mcp_activity: "none", "recent", "quiet" (idle long enough)
  lost,      \* unanswered calls so far
  act        \* command -> program point and locals

pvars == <<state, running, power, activity, lost, act>>

\* store.active_leases: every non-terminal state.
Open == {l \in Lease : state[l] \in {"active", "ending", "cleanup_failed"}}

Commands == {"lease-begin", "lease-end", "sweep", "sweep-all", "mcp-idle",
             "power-shutdown", "power-wake"}

Resting ==
  [pc |-> "rest", cmd |-> "none", lease |-> NoLease, todo |-> {}, cleaned |-> FALSE,
   failures |-> 0, elapsed |-> 0, dropped |-> 0, woken |-> FALSE, off |-> FALSE]

Act ==
  [pc       : {"rest", "begin", "finalize", "others", "sweep", "remaining",
               "clock", "unowned", "probe", "list", "request", "verify",
               "await", "report"},
   cmd      : Commands \cup {"none"},
   lease    : Lease \cup {NoLease},  \* the lease being begun or ended
   todo     : SUBSET Lease,          \* candidates the sweep still has to visit
   cleaned  : BOOLEAN,               \* the sweep closed a lease
   failures : Nat,                   \* all-fail rounds in a row
   elapsed  : Nat,                   \* time since the request, in rounds
   dropped  : Nat,                   \* rounds in a row the network has lost
   woken    : BOOLEAN,               \* the host came up since the request
   off      : BOOLEAN]               \* host_powered_off

PTypeOK ==
  /\ state \in [Lease -> {"none", "active", "ending", "cleanup_failed", "ended"}]
  /\ running \in SUBSET Guest
  /\ power \in {"off", "booting", "on", "halting"}
  /\ activity \in {"none", "recent", "quiet"}
  /\ lost \in Nat
  /\ act \in [Actor -> Act]

PInit ==
  /\ state = [l \in Lease |-> "none"]
  /\ running \in SUBSET {g \in Guest : Owned[g] = NoLease}
  /\ power = "on" /\ activity = "none" /\ lost = 0
  /\ act = [a \in Actor |-> Resting]

To(a, p) == act' = [act EXCEPT ![a] = p]
At(a, pc) == [act[a] EXCEPT !.pc = pc]

Begin(a, c, pc) == act[a] = Resting /\ To(a, [Resting EXCEPT !.cmd = c, !.pc = pc])

World == <<state, running, power, activity>>

\* A call to the host gets an answer; a bounded number does not although the
\* host is up. One that is going down may or may not answer.
Answers  == power \in {"on", "halting"} /\ UNCHANGED lost
NoAnswer ==
  \/ power # "on" /\ UNCHANGED lost
  \/ power = "on" /\ lost < MaxLost /\ lost' = lost + 1

-----------------------------------------------------------------------------
(* Commands that open, close and use leases.                               *)

\* The MCP server notes a tool call before it runs it.
ToolCall ==
  /\ activity' = "recent"
  /\ UNCHANGED <<state, running, power, lost, act>>

\* idle_shutdown_seconds have passed without one.
GoesQuiet ==
  /\ activity = "recent" /\ activity' = "quiet"
  /\ UNCHANGED <<state, running, power, lost, act>>

\* lease-begin refuses to open a lease on a host that does not answer.
BeginLease(a, l) ==
  /\ act[a] = Resting /\ state[l] = "none"
  /\ \A b \in Actor : act[b].lease # l
  /\ To(a, [Resting EXCEPT !.cmd = "lease-begin", !.pc = "begin", !.lease = l])
  /\ Answers /\ UNCHANGED World

InsertLease(a) ==
  /\ act[a].pc = "begin"
  /\ state' = [state EXCEPT ![act[a].lease] = "active"]
  /\ To(a, Resting)
  /\ UNCHANGED <<running, power, activity, lost>>

\* guest start, guest stop, and a person who uses qm or pct.
StartGuest(a, g) ==
  /\ act[a] = Resting
  /\ power = "on" /\ g \notin running
  /\ Owned[g] # NoLease => state[Owned[g]] \in {"active", "cleanup_failed"}
  /\ running' = running \cup {g}
  /\ UNCHANGED <<state, power, activity, lost, act>>

StopGuest(a, g) ==
  /\ act[a] = Resting
  /\ power = "on" /\ g \in running
  /\ running' = running \ {g}
  /\ UNCHANGED <<state, power, activity, lost, act>>

\* lease-end of an ordinary lease, lease-destroy of a long-term one: the claim.
EndLease(a, l) ==
  /\ state[l] \in {"active", "cleanup_failed"}
  /\ act[a] = Resting
  /\ To(a, [Resting EXCEPT !.cmd = "lease-end", !.pc = "finalize", !.lease = l])
  /\ state' = [state EXCEPT ![l] = "ending"]
  /\ UNCHANGED <<running, power, activity, lost>>

\* finalize_lease: all its guests are gone, or a call failed on one of them,
\* before or after it was stopped. A probe that fails in the words of an absence
\* counts as one, and the lease ends all the same.
Teardown(l) ==
  LET own == {g \in Guest : Owned[g] = l} IN
  \/ /\ power = "on" \/ own = {}
     /\ state' = [state EXCEPT ![l] = "ended"]
     /\ running' = running \ own /\ UNCHANGED lost
  \/ /\ own # {} /\ NoAnswer
     /\ \E s \in {"cleanup_failed", "ended"} : state' = [state EXCEPT ![l] = s]
     /\ running' \in {running, running \ own}

Finalize(a) ==
  /\ act[a].pc = "finalize"
  /\ Teardown(act[a].lease)
  /\ To(a, At(a, "others"))
  /\ UNCHANGED <<power, activity>>

\* Mutant of Others: a lease whose cleanup failed has had its turn.
OthersAlive(a) == {l \in Lease : state[l] \in {"active", "ending"}} \ {act[a].lease}

\* active_leases(excluding=the lease that was ended).
Others(a) == Open \ {act[a].lease}

CountOthers(a) ==
  /\ act[a].pc = "others"
  /\ To(a, IF Others(a) = {} /\ AutoShutdown THEN At(a, "probe") ELSE Resting)
  /\ UNCHANGED <<World, lost>>

-----------------------------------------------------------------------------
(* cleanup-expired [--all] and the idle clock                              *)

\* The candidates: every lease whose cleanup failed, and the active ones that
\* have expired, or with --all every active one.
BeginSweep(a, c) ==
  LET failed == {l \in Lease : state[l] = "cleanup_failed"} \ LongTerm
      active == {l \in Lease : state[l] = "active"} \ LongTerm IN
  /\ act[a] = Resting
  /\ \E expired \in SUBSET active :
       /\ c = "sweep-all" => expired = active
       /\ To(a, [Resting EXCEPT !.cmd = c, !.pc = "sweep",
                                !.todo = failed \cup expired])
  /\ UNCHANGED <<World, lost>>

\* The claim fails if another command has taken the lease meanwhile.
SweepOne(a) ==
  /\ act[a].pc = "sweep"
  /\ \E l \in act[a].todo :
       \/ /\ state[l] \in {"active", "cleanup_failed"}
          /\ Teardown(l)
          /\ To(a, [act[a] EXCEPT !.todo = @ \ {l},
                                  !.cleaned = @ \/ state'[l] = "ended"])
       \/ /\ state[l] \notin {"active", "cleanup_failed"}
          /\ To(a, [act[a] EXCEPT !.todo = @ \ {l}])
          /\ UNCHANGED <<state, running, lost>>
  /\ UNCHANGED <<power, activity>>

SweepOver(a) ==
  /\ act[a].pc = "sweep" /\ act[a].todo = {}
  /\ To(a, At(a, "remaining"))
  /\ UNCHANGED <<World, lost>>

Remaining(a) ==
  /\ act[a].pc = "remaining"
  /\ To(a, IF ~AutoShutdown THEN Resting
           ELSE IF Open = {} /\ (act[a].cleaned \/ act[a].cmd = "sweep-all")
                THEN At(a, "probe") ELSE At(a, "clock"))
  /\ UNCHANGED <<World, lost>>

\* mcp.py: after every tool call, and about once a minute while the client
\* is silent.
BeginIdle(a) ==
  /\ Begin(a, "mcp-idle", "clock")
  /\ UNCHANGED <<World, lost>>

\* mcp_idle_shutdown_due reads the clock first...
ReadClock(a) ==
  /\ act[a].pc = "clock"
  /\ To(a, IF activity = "quiet" THEN At(a, "unowned") ELSE Resting)
  /\ UNCHANGED <<World, lost>>

\* Mutant of ReadLeases: leases that have ended are counted too.
ReadAllLeases(a) ==
  /\ act[a].pc = "unowned"
  /\ To(a, IF \A l \in Lease : state[l] = "none" THEN At(a, "probe") ELSE Resting)
  /\ UNCHANGED <<World, lost>>

\* ... then the leases.
ReadLeases(a) ==
  /\ act[a].pc = "unowned"
  /\ To(a, IF Open = {} THEN At(a, "probe") ELSE Resting)
  /\ UNCHANGED <<World, lost>>

-----------------------------------------------------------------------------
(* shutdown_host and shutdown_verified                                     *)

BeginShutdown(a) ==
  /\ Begin(a, "power-shutdown", "probe")
  /\ UNCHANGED <<World, lost>>

Report(a, off) == To(a, [act[a] EXCEPT !.pc = "report", !.off = off])

\* shutdown_host's own switch: [power] auto_shutdown unless requested. One
\* probe without an answer reports "already verified".
ProbeFirst(a) ==
  /\ act[a].pc = "probe"
  /\ IF act[a].cmd # "power-shutdown" /\ ~AutoShutdown
     THEN To(a, Resting) /\ UNCHANGED lost
     ELSE \/ Answers /\ To(a, At(a, "list"))
          \/ NoAnswer /\ Report(a, TRUE)
  /\ UNCHANGED World

\* Mutant of MustStayOn: the guests of some lease only.
MustStayOnOwned == {g \in running : Owned[g] # NoLease} \ Infra

\* running_guest_vmids: every guest that runs, lease or no lease.
MustStayOn == running \ Infra

ListGuests(a) ==
  /\ act[a].pc = "list"
  /\ \/ Answers /\ (IF MustStayOn = {} THEN To(a, At(a, "request"))
                                       ELSE Report(a, FALSE))
     \/ NoAnswer /\ Report(a, FALSE)
  /\ UNCHANGED World

\* shutdown -h now; the connection may die with it or without it.
Request(a) ==
  LET sent == [act[a] EXCEPT !.pc = "verify", !.failures = 0, !.elapsed = 0,
                             !.dropped = 0, !.woken = FALSE] IN
  /\ act[a].pc = "request"
  /\ To(a, sent)
  /\ \/ /\ Answers /\ power' = "halting"
     \/ /\ NoAnswer /\ UNCHANGED power
  /\ UNCHANGED <<state, running, activity>>

\* Mutant of Counted: a round that reached the host is skipped over.
CountedOn(p, reached) == IF reached THEN p.failures ELSE p.failures + 1

\* All-fail rounds in a row.
Counted(p, reached) == IF reached THEN 0 ELSE p.failures + 1

\* One round: ssh, TCP, a sleep. The probes take t; the clock is read again
\* after them. A host that is up is missed in fewer than MinFailures rounds in
\* a row: what the number is for.
Round(a) ==
  LET p == act[a] IN
  /\ p.pc = "verify" /\ p.elapsed < Timeout
  /\ \E reached \in BOOLEAN, t \in {0, 1} :
       LET n      == Counted(p, reached)
           missed == power = "on" /\ ~reached IN
       /\ IF reached THEN Answers ELSE NoAnswer
       /\ missed => p.dropped + 1 < MinFailures
       /\ IF ~reached /\ n >= MinFailures /\ p.elapsed + t >= Window
          THEN Report(a, TRUE)
          ELSE To(a, [p EXCEPT !.failures = n, !.elapsed = @ + t + 1,
                              !.dropped = IF missed THEN @ + 1 ELSE 0])
  /\ UNCHANGED World

GiveUp(a) ==
  /\ act[a].pc = "verify" /\ act[a].elapsed >= Timeout
  /\ Report(a, FALSE)
  /\ UNCHANGED <<World, lost>>

Finish(a) ==
  /\ act[a].pc = "report"
  /\ To(a, Resting)
  /\ UNCHANGED <<World, lost>>

-----------------------------------------------------------------------------
(* power wake, and the machine                                             *)

\* ensure_on: nothing to do if it answers; otherwise the magic packet, which
\* a machine that is off takes for a start.
Wake(a) ==
  /\ NoAnswer
  /\ Begin(a, "power-wake", "await")
  /\ power' = IF power = "off" THEN "booting" ELSE power
  /\ UNCHANGED <<state, running, activity>>

\* The probe loop ends with an answer or with its deadline.
Awaited(a) ==
  /\ act[a].pc = "await"
  /\ Answers \/ NoAnswer
  /\ To(a, Resting)
  /\ UNCHANGED World

Halted ==
  /\ power = "halting" /\ power' = "off"
  /\ running' = {}
  /\ UNCHANGED <<state, activity, lost, act>>

Booted ==
  /\ power = "booting" /\ power' = "on"
  /\ act' = [a \in Actor |-> [act[a] EXCEPT !.woken = act[a].pc # "rest"]]
  /\ UNCHANGED <<state, running, activity, lost>>

\* Somebody at the machine, or another sender of magic packets.
PowerButton ==
  /\ power = "off" /\ power' = "booting"
  /\ UNCHANGED <<state, running, activity, lost, act>>

Machine == Halted \/ Booted \/ PowerButton

PStep(a) ==
  \/ InsertLease(a) \/ Finalize(a) \/ CountOthers(a)
  \/ SweepOne(a) \/ SweepOver(a) \/ Remaining(a) \/ ReadClock(a) \/ ReadLeases(a)
  \/ ProbeFirst(a) \/ ListGuests(a) \/ Request(a) \/ Round(a) \/ GiveUp(a)
  \/ Finish(a) \/ Awaited(a)

PStart(a) ==
  \/ BeginIdle(a) \/ BeginShutdown(a) \/ Wake(a)
  \/ \E l \in Lease : BeginLease(a, l) \/ EndLease(a, l)
  \/ \E g \in Guest : StartGuest(a, g) \/ StopGuest(a, g)
  \/ \E c \in {"sweep", "sweep-all"} : BeginSweep(a, c)

PNext ==
  \/ ToolCall \/ GoesQuiet \/ Machine
  \/ \E a \in Actor : PStart(a) \/ PStep(a)

PSpec == PInit /\ [][PNext]_pvars

-----------------------------------------------------------------------------
(* Properties. The first two hold when one command runs at a time.         *)

GoesDown == power = "on" /\ power' = "halting"

\* docs/safety-policy.md, invariant 6: "The host is never powered off while any
\* guest is running", lease or no lease, infrastructure excepted.
NeverUnderRunning == [][GoesDown => running \subseteq Infra]_pvars

\* No command but power shutdown sends the host off while a lease other than
\* the one it has just ended is non-terminal: ordinary or long-term, and also
\* when its cleanup failed (leases.active_leases).
OtherLeasesKeepHostOn ==
  [][GoesDown =>
       \A a \in Actor : act[a].pc = "request" /\ act[a].cmd # "power-shutdown"
                        => Open \subseteq {act[a].lease}]_pvars

\* power.shutdown_verified: a power-off it reports happened, although answers
\* get lost: the host has left "on", or was switched on again since.
VerifiedMeansDown ==
  [][\A a \in Actor :
       act[a].pc = "verify" /\ act'[a].pc = "report" /\ act'[a].off
       => power # "on" \/ act[a].woken]_pvars

\* docs/safety-policy.md, invariant 6: nor "while any lease is still
\* non-terminal".
LeasesKeepHostOn ==
  [][GoesDown =>
       \A a \in Actor : act[a].pc = "request" /\ act[a].cmd # "power-shutdown"
                        => Open = {}]_pvars

\* The MCP server wakes itself about once a minute, and a command goes on.
PFairness ==
  /\ \A a \in Actor : WF_pvars(PStep(a))
  /\ SF_pvars(\E a \in Actor : BeginIdle(a))

PFairSpec == PSpec /\ PFairness

\* A host nobody uses goes down in the end: after a tool call and a long
\* silence, with every lease closed and nothing running, in spite of calls
\* that fail.
IdleHostGoesOff ==
  AutoShutdown /\ power = "on" /\ activity = "quiet" /\ Open = {} /\ MustStayOn = {}
  ~> power # "on" \/ activity # "quiet" \/ Open # {} \/ MustStayOn # {}
=============================================================================
