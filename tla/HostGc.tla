-------------------------------- MODULE HostGc --------------------------------
(***************************************************************************)
(* resources/pxl-gc.py: the collector root's crontab runs on the Proxmox   *)
(* host. It knows nothing of lab.db: it judges a guest by the tag and the  *)
(* pxl-expiry in its config, and the host by what it sees on two runs.     *)
(* Runs may overlap; the environment goes on using the host meanwhile.     *)
(***************************************************************************)
EXTENDS Naturals, FiniteSets

CONSTANTS
  Guest,         \* the (kind, vmid) pairs
  Lxc,           \* those that pct lists; qm lists the others
  Lease, NoLease,
  Run,           \* collector processes that may be alive at once
  AutoShutdown,  \* automatic_poweroff()
  Clear,         \* CLEAR_SECONDS, in ticks of the clock
  Events,        \* what else happens to the host in this scenario
  MaxEvents,     \* bound on those events
  MaxTime,       \* bound on the clock
  InitGuests     \* initial [status, meta] choices per guest

EventNames ==
  {"start", "stop", "renew", "renew-late", "create", "template", "power-on",
   "list-error", "config-error", "stop-error", "destroy-error",
   "poweroff-error", "gc-crash"}

ASSUME GcGuestAssumption == Lxc \subseteq Guest /\ IsFiniteSet(Guest) /\ NoLease \notin Lease
ASSUME GcInitAssumption ==
  InitGuests \subseteq [Guest -> [status : {"absent", "stopped", "running"},
                                meta : [lease : Lease \cup {NoLease}, expiry : Nat]]]
ASSUME GcBoundAssumption ==
  /\ Clear \in Nat \ {0} /\ MaxTime \in Nat /\ MaxEvents \in Nat
  /\ AutoShutdown \in BOOLEAN /\ Events \subseteq EventNames

VARIABLES
  guest,     \* guest -> "absent", "stopped", "running"
  template,  \* guests whose config says template: 1
  meta,      \* guest -> [lease, expiry], lease NoLease: no ownership tag
  now,       \* the clock
  powered,   \* the host is on
  stamp,     \* the time in /var/lib/pxl-gc/clear-stamp, 0 if there is no file
  gc,        \* run -> program point and locals
  events     \* environment events so far

hostvars == <<guest, template, meta>>
gcvars   == <<powered, stamp, gc, events>>
gvars    == <<hostvars, now, gcvars>>

Asleep ==
  [pc |-> "asleep", at |-> 0, listed |-> {}, seen |-> {}, todo |-> {},
   known |-> TRUE, pinned |-> {}, target |-> {}]

GcPc == {"asleep", "list-qemu", "list-lxc", "scan", "lock", "reap", "destroy",
         "judge"}

GcRecord ==
  [pc      : GcPc,
   at      : Nat,            \* `now`, read once when the run starts
   listed  : SUBSET Guest,   \* `enumerated`
   seen    : SUBSET Guest,   \* those enumerated as running
   todo    : SUBSET Guest,   \* those whose config is still to be read
   known   : BOOLEAN,        \* both listings succeeded
   pinned  : SUBSET Guest,
   target  : SUBSET Guest]   \* the guest being reaped, at most one

GTypeOK ==
  /\ guest \in [Guest -> {"absent", "stopped", "running"}]
  /\ template \in SUBSET Guest
  /\ meta \in [Guest -> [lease : Lease \cup {NoLease}, expiry : Nat]]
  /\ now \in Nat /\ stamp \in Nat /\ events \in Nat
  /\ powered \in BOOLEAN
  /\ gc \in [Run -> GcRecord]

NoMeta == [lease |-> NoLease, expiry |-> 0]

GInit ==
  /\ \E f \in InitGuests :
       /\ guest = [g \in Guest |-> f[g].status]
       /\ meta = [g \in Guest |-> f[g].meta]
  /\ template = {}
  /\ now = 1 /\ powered = TRUE /\ stamp = 0 /\ events = 0
  /\ gc = [r \in Run |-> Asleep]

GcGoto(r, p) == gc' = [gc EXCEPT ![r] = p]

\* Something outside the collector goes wrong or intervenes.
Event(e) ==
  /\ e \in Events /\ events < MaxEvents
  /\ events' = events + 1

\* This step needs no event.
Quietly == UNCHANGED events

OnlyGc == UNCHANGED <<hostvars, now, powered>>

-----------------------------------------------------------------------------
(* main: the clock, qm list, pct list.                                     *)

GcStart(r) ==
  /\ powered /\ gc[r] = Asleep
  /\ GcGoto(r, [Asleep EXCEPT !.pc = "list-qemu", !.at = now])
  /\ OnlyGc /\ UNCHANGED <<stamp, events>>

\* enumerate_guests: a listing that fails yields nothing and is remembered.
GcList(r, pc, kind, next) ==
  LET all == {g \in kind : guest[g] # "absent"} IN
  /\ gc[r].pc = pc
  /\ \/ /\ GcGoto(r, [gc[r] EXCEPT !.pc = next, !.listed = @ \cup all,
                        !.todo = @ \cup all,
                        !.seen = @ \cup {g \in all : guest[g] = "running"}])
        /\ Quietly
     \/ /\ GcGoto(r, [gc[r] EXCEPT !.pc = next, !.known = FALSE])
        /\ Event("list-error")
  /\ OnlyGc /\ UNCHANGED stamp

GcListQemu(r) == GcList(r, "list-qemu", Guest \ Lxc, "list-lxc")
GcListLxc(r)  == GcList(r, "list-lxc", Lxc, "scan")

-----------------------------------------------------------------------------
(* main's second loop, one guest at a time.                                *)

\* What the config read in this step says of g.
Ours(g)           == g \notin template /\ meta[g].lease # NoLease
ExpiredAt(g, t)   == Ours(g) /\ meta[g].expiry # 0 /\ meta[g].expiry <= t

\* Mutants of Expired: "never" taken for long ago; only what runs is judged.
ExpiredOrNever(r, g) == Ours(g) /\ meta[g].expiry <= gc[r].at
ExpiredAndRunning(r, g) == g \in gc[r].seen /\ ExpiredAt(g, gc[r].at)

\* The verdict of a run, by the clock it read when it started.
Expired(r, g) == ExpiredAt(g, gc[r].at)

GcScan(r) ==
  /\ gc[r].pc = "scan"
  /\ \E g \in gc[r].todo :
       LET rest == [gc[r] EXCEPT !.todo = @ \ {g}] IN
       \/ /\ GcGoto(r, CASE guest[g] = "absent" \/ ~Ours(g) -> rest
                         [] Expired(r, g) ->
                              [rest EXCEPT !.pc = "lock", !.target = {g}]
                         [] OTHER -> [rest EXCEPT !.pinned = @ \cup {g}])
          /\ Quietly
       \/ GcGoto(r, rest) /\ Event("config-error")
  /\ OnlyGc /\ UNCHANGED stamp

Scanning(p) == [p EXCEPT !.pc = "scan", !.target = {}]

Locked(g) == \E q \in Run : gc[q].pc \in {"reap", "destroy"} /\ g \in gc[q].target

\* Mutant of GcLock: the lock is taken without looking at it.
GcNoLock(r) ==
  /\ gc[r].pc = "lock"
  /\ GcGoto(r, [gc[r] EXCEPT !.pc = "reap"])
  /\ OnlyGc /\ UNCHANGED <<stamp, events>>

\* acquire_lock: a guest another run is reaping is skipped.
GcLock(r) ==
  /\ gc[r].pc = "lock"
  /\ GcGoto(r, IF \E g \in gc[r].target : Locked(g)
               THEN Scanning(gc[r])
               ELSE [gc[r] EXCEPT !.pc = "reap"])
  /\ OnlyGc /\ UNCHANGED <<stamp, events>>

\* reap_guest up to the destroy: graceful, then hard stop. A status call that
\* fails reads as "gone" and ends the reaping, and so does a hard stop
\* that fails or timed out.
GcStop(r) ==
  /\ gc[r].pc = "reap"
  /\ \E g \in gc[r].target :
       \/ /\ guest[g] = "absent"
          /\ GcGoto(r, Scanning(gc[r])) /\ Quietly /\ UNCHANGED guest
       \/ /\ guest[g] # "absent"
          /\ guest' = [guest EXCEPT ![g] = "stopped"]
          /\ GcGoto(r, [gc[r] EXCEPT !.pc = "destroy"]) /\ Quietly
       \/ /\ guest[g] # "absent" /\ Event("stop-error")
          /\ guest' \in {guest, [guest EXCEPT ![g] = "stopped"]}
          /\ GcGoto(r, Scanning(gc[r]))
  /\ UNCHANGED <<template, meta, now, powered, stamp>>

Remove(g) ==
  /\ guest' = [guest EXCEPT ![g] = "absent"]
  /\ template' = template \ {g}
  /\ meta' = [meta EXCEPT ![g] = NoMeta]

\* qm/pct destroy: refused for a guest that runs again, nothing if it is gone.
GcDestroy(r) ==
  /\ gc[r].pc = "destroy"
  /\ \E g \in gc[r].target :
       \/ guest[g] = "stopped" /\ Remove(g) /\ Quietly
       \/ guest[g] # "stopped" /\ UNCHANGED hostvars /\ Quietly
       \/ guest[g] # "absent" /\ UNCHANGED hostvars /\ Event("destroy-error")
  /\ GcGoto(r, Scanning(gc[r]))
  /\ UNCHANGED <<now, powered, stamp>>

GcScanned(r) ==
  /\ gc[r].pc = "scan" /\ gc[r].todo = {}
  /\ GcGoto(r, [gc[r] EXCEPT !.pc = "judge"])
  /\ OnlyGc /\ UNCHANGED <<stamp, events>>

-----------------------------------------------------------------------------
(* power_pass                                                              *)

\* Mutant of IsClear: unexpired guests do not keep the host on.
NothingRuns(p) == p.known /\ p.seen = {}

\* `stopped` holds vmids and is asked for (kind, vmid): nothing is ever in it,
\* so a guest this run stopped or destroyed still counts as running.
IsClear(p) == p.known /\ p.seen = {} /\ p.pinned = {}

\* The host goes down and every guest and collector with it; the stamp file
\* stays where it is.
PowerOff ==
  /\ powered' = FALSE
  /\ guest' = [g \in Guest |-> IF guest[g] = "running" THEN "stopped" ELSE guest[g]]
  /\ gc' = [r \in Run |-> Asleep]
  /\ UNCHANGED <<template, meta, now, stamp, events>>

\* A clear run that started Clear after the stamp asks for the power-off.
Due(p) == AutoShutdown /\ IsClear(p) /\ stamp # 0 /\ stamp + Clear <= p.at

\* Not clear: unlink the stamp. Clear: write it if there is none.
Restamped(p) ==
  IF ~AutoShutdown THEN stamp
  ELSE IF ~IsClear(p) THEN 0
  ELSE IF stamp = 0 THEN p.at ELSE stamp

GcJudge(r) ==
  /\ gc[r].pc = "judge"
  /\ \/ Due(gc[r]) /\ PowerOff
     \/ /\ IF Due(gc[r]) THEN Event("poweroff-error") ELSE Quietly
        /\ stamp' = Restamped(gc[r])
        /\ GcGoto(r, Asleep)
        /\ OnlyGc

GcCrash(r) ==
  /\ gc[r] # Asleep /\ Event("gc-crash")
  /\ GcGoto(r, Asleep)
  /\ OnlyGc /\ UNCHANGED stamp

GcStep(r) ==
  \/ GcStart(r) \/ GcListQemu(r) \/ GcListLxc(r) \/ GcScan(r) \/ GcScanned(r)
  \/ GcLock(r) \/ GcStop(r) \/ GcDestroy(r) \/ GcJudge(r)

-----------------------------------------------------------------------------
(* The rest of the world: the controller's commands as the host sees them, *)
(* a person, the power button.                                             *)

OnlyHost == UNCHANGED <<now, powered, stamp, gc>>

StartsGuest(g) ==
  /\ powered /\ guest[g] = "stopped" /\ g \notin template /\ Event("start")
  /\ guest' = [guest EXCEPT ![g] = "running"]
  /\ UNCHANGED <<template, meta>> /\ OnlyHost

StopsGuest(g) ==
  /\ powered /\ guest[g] = "running" /\ Event("stop")
  /\ guest' = [guest EXCEPT ![g] = "stopped"]
  /\ UNCHANGED <<template, meta>> /\ OnlyHost

\* lease-heartbeat: in time, or (renew-late) when the stamp has expired.
RenewsGuest(g) ==
  /\ powered /\ guest[g] # "absent" /\ meta[g].lease # NoLease /\ meta[g].expiry # 0
  /\ Event(IF now < meta[g].expiry THEN "renew" ELSE "renew-late")
  /\ meta' = [meta EXCEPT ![g].expiry = now + 1]
  /\ UNCHANGED <<guest, template>> /\ OnlyHost

\* guest create, possibly under a vmid that was in use before.
CreatesGuest(g, l) ==
  /\ powered /\ guest[g] = "absent" /\ Event("create")
  /\ guest' = [guest EXCEPT ![g] = "stopped"]
  /\ \E e \in {0, now + 1} : meta' = [meta EXCEPT ![g] = [lease |-> l, expiry |-> e]]
  /\ UNCHANGED template /\ OnlyHost

ConvertsGuest(g) ==
  /\ powered /\ guest[g] = "stopped" /\ g \notin template /\ Event("template")
  /\ template' = template \cup {g}
  /\ UNCHANGED <<guest, meta>> /\ OnlyHost

SwitchOn ==
  /\ ~powered /\ Event("power-on")
  /\ powered' = TRUE
  /\ UNCHANGED <<hostvars, now, stamp, gc>>

GTick ==
  /\ now < MaxTime
  /\ now' = now + 1
  /\ UNCHANGED <<hostvars, gcvars>>

World ==
  \/ \E g \in Guest : \/ StartsGuest(g) \/ StopsGuest(g) \/ RenewsGuest(g)
                      \/ ConvertsGuest(g)
                      \/ \E l \in Lease : CreatesGuest(g, l)
  \/ SwitchOn

GNext == GTick \/ World \/ \E r \in Run : GcStep(r) \/ GcCrash(r)

GSpec == GInit /\ [][GNext]_gvars

-----------------------------------------------------------------------------
(* Properties                                                              *)

Destroyed(g) == guest[g] # "absent" /\ guest'[g] = "absent"

\* "Destroy guests whose lease expired, using ONLY guest metadata": whatever
\* the collector destroys is at that moment no template, tagged, and past the
\* expiry it carries. Kept as long as heartbeats arrive before the expiry and
\* no vmid is used twice.
ReapsOnlyExpired == [][\A g \in Guest : Destroyed(g) => ExpiredAt(g, now)]_gvars

\* reap_guest holds the flock of the one guest it stops and destroys.
OneReaper ==
  \A q, r \in Run :
    gc[q].pc \in {"reap", "destroy"} /\ gc[r].pc \in {"reap", "destroy"} /\ q # r
    => gc[q].target \cap gc[r].target = {}

GoesOff == powered /\ ~powered'

\* "zero unexpired pxl guests": the host does not go off while a guest carries
\* an expiry of 0 or one still to come.
PinnedKeepsHostOn ==
  [][GoesOff => \A g \in Guest : guest[g] # "absent" /\ Ours(g) => ExpiredAt(g, now)]_gvars

-----------------------------------------------------------------------------
(* Liveness: cron starts a run every ten minutes and a run goes on.        *)

GFairness ==
  /\ \A r \in Run : WF_gvars(GcStep(r))
  /\ \A r \in Run, g \in Guest : SF_gvars(GcLock(r) /\ g \in gc[r].target /\ ~Locked(g))

GFairSpec == GSpec /\ GFairness

\* The net for agents that walked away: an expired guest is destroyed in the
\* end, whatever fails on the way, unless somebody renews or converts it or
\* the host is switched off.
ExpiredIsReaped ==
  \A g \in Guest :
    guest[g] # "absent" /\ ExpiredAt(g, now)
    ~> guest[g] = "absent" \/ ~ExpiredAt(g, now) \/ ~powered
=============================================================================
