------------------------------ MODULE LabState ------------------------------
(***************************************************************************)
(* The state every controller command reads and writes: the rows of        *)
(* lab.db (store.py), the guests on the Proxmox host as qm/pct report      *)
(* them, the clock, and one record per running command.                    *)
(*                                                                         *)
(* A command is a process: it runs from "idle" through the program points  *)
(* named in PcNames, one atomic step per SQL statement (or short           *)
(* transaction) and per ssh call, and keeps what it read in its record.    *)
(***************************************************************************)
EXTENDS Naturals, FiniteSets

CONSTANTS
  Lease,        \* ids lease-begin may hand out
  LongTerm,     \* the leases begun with --long-term
  Guest,        \* the (kind, vmid) pairs
  Actor,        \* command invocations in flight at once
  Commands,     \* the commands issued in this scenario
  Policies,     \* values given to lease-register --policy
  InitGuest,    \* what the host holds before the first command
  InitTemplate, \* which of those guests are templates already
  TTL,          \* [lease] ttl_seconds, in ticks of the clock
  MaxTime,      \* bound on the clock
  MaxErrors,    \* bound on failing seam calls
  MaxCrashes,   \* bound on commands that die half way
  NoLease, NoGuest

CommandNames ==
  {"lease-begin", "lease-heartbeat", "lease-register", "lease-end",
   "lease-end-shared", "lease-destroy", "lease-abandon", "cleanup-expired",
   "cleanup-all", "guest-create", "guest-clone", "guest-start", "guest-stop",
   "guest-destroy", "guest-template", "manual-remove", "manual-reclaim"}

GuestStatus == {"absent", "stopped", "running"}

ASSUME LeaseAssumption ==
  LongTerm \subseteq Lease /\ NoLease \notin Lease /\ IsFiniteSet(Lease)
ASSUME GuestAssumption ==
  /\ NoGuest \notin Guest /\ IsFiniteSet(Guest)
  /\ InitGuest \in [Guest -> GuestStatus]
  /\ InitTemplate \in SUBSET {g \in Guest : InitGuest[g] = "stopped"}
ASSUME ScenarioAssumption ==
  /\ Commands \in SUBSET CommandNames
  /\ Policies \in SUBSET {"disposable", "retain"}
ASSUME BoundAssumption ==
  /\ TTL \in Nat \ {0} /\ MaxTime \in Nat
  /\ MaxErrors \in Nat /\ MaxCrashes \in Nat

VARIABLES
  \* lab.db, table leases
  state,        \* lease -> state, "none" before lease-begin inserts the row
  expires,      \* lease -> expires_at, 0 for long-term
  \* lab.db, table resources
  rowid,        \* lease -> guest -> rank of the row in ORDER BY id, 0 if none
  policy,       \* lease -> guest -> policy column
  gone,         \* lease -> guest -> destroyed_at is set
  \* the Proxmox host
  guest,        \* guest -> qm/pct status
  template,     \* guests whose config says template: 1
  meta,         \* guest -> [lease, expiry] stamped in its description
  \* the rest
  now,          \* the clock both sides read
  errors,       \* failing seam calls so far
  crashes,      \* commands killed so far
  misread,      \* history: the guests a probe failed for in words that
                \* _confirm_absent takes for the host's own "does not exist"
  proc          \* command invocation -> its program point and locals

store == <<state, expires, rowid, policy, gone>>
host  == <<guest, template, meta>>
env   == <<now, errors, crashes, misread>>
vars  == <<store, host, env, proc>>

Terminal    == {"ended", "destroyed", "abandoned"}
NonTerminal == {"active", "ending", "cleanup_failed"}
States      == {"none"} \cup Terminal \cup NonTerminal

PcNames ==
  {"idle", "begun",
   "hb-store", "hb-stamp",
   "reg-row", "reg-beat", "reg-stamp",
   "abandon-claim",
   "claim", "shared", "release", "unprotect", "sweep",
   "finalize", "stop", "shutdown", "delete", "confirm", "reconfirm",
   "forget",
   "save-destroyed",
   "create", "clone-stamp", "create-row", "create-start",
   "start", "halt", "convert",
   "gd-check", "gd-stop", "gd-delete", "gd-mark"}

Snapshot == [lease : Lease, prior : NonTerminal, todo : SUBSET Guest]

Proc ==
  [pc     : PcNames,
   cmd    : CommandNames \cup {"none"},
   lease  : Lease \cup {NoLease},
   guest  : Guest \cup {NoGuest},   \* the guest being worked on
   prior  : States,                 \* the lease state the command read
   at     : Nat,                    \* the clock value the command read
   todo   : SUBSET Guest,           \* rows of its snapshot still to visit
   batch  : SUBSET Snapshot,        \* a sweep's candidates still to visit
   failed : BOOLEAN,                \* `failures` is not empty
   left   : SUBSET Guest]           \* `transferred`

Idle == [pc |-> "idle", cmd |-> "none", lease |-> NoLease, guest |-> NoGuest,
         prior |-> "none", at |-> 0, todo |-> {}, batch |-> {},
         failed |-> FALSE, left |-> {}]

Unstamped == [lease |-> NoLease, expiry |-> 0]
Stamp(l, e) == [lease |-> l, expiry |-> e]

TypeOK ==
  /\ state \in [Lease -> States]
  /\ expires \in [Lease -> Nat]
  /\ rowid \in [Lease -> [Guest -> Nat]]
  /\ policy \in [Lease -> [Guest -> {"disposable", "retain"}]]
  /\ gone \in [Lease -> [Guest -> BOOLEAN]]
  /\ guest \in [Guest -> GuestStatus]
  /\ template \in SUBSET Guest
  /\ meta \in [Guest -> [lease : Lease \cup {NoLease}, expiry : Nat]]
  /\ now \in Nat \ {0} /\ errors \in Nat /\ crashes \in Nat
  /\ misread \in SUBSET Guest
  /\ proc \in [Actor -> Proc]

\* Expiry 0 means "never" and lease-destroy stamps "one tick ago", so the
\* clock starts where neither meets a real expiry.
Epoch == 2

Init ==
  /\ state = [l \in Lease |-> "none"]
  /\ expires = [l \in Lease |-> 0]
  /\ rowid = [l \in Lease |-> [g \in Guest |-> 0]]
  /\ policy = [l \in Lease |-> [g \in Guest |-> "disposable"]]
  /\ gone = [l \in Lease |-> [g \in Guest |-> FALSE]]
  /\ guest = InitGuest
  /\ template = InitTemplate
  /\ meta = [g \in Guest |-> Unstamped]
  /\ now = Epoch /\ errors = 0 /\ crashes = 0 /\ misread = {}
  /\ proc = [a \in Actor |-> Idle]

-----------------------------------------------------------------------------
(* What the queries of store.py and leases.py return.                      *)

Rows(l)       == {g \in Guest : rowid[l][g] # 0}
Undestroyed(l) == {g \in Rows(l) : ~gone[l][g]}

\* lease_claims: a row whose destroyed_at is set claims nothing.
LeaseClaims(l, g) == g \in Undestroyed(l)

\* lease_is_live at clock value t: an expired ordinary lease shields nothing.
LeaseIsLive(l, t) ==
  /\ state[l] \in NonTerminal
  /\ l \in LongTerm \/ expires[l] > t

\* resource_owner_elsewhere: another live lease claims g.
OwnerElsewhere(l, g, t) ==
  \E m \in Lease \ {l} : LeaseClaims(m, g) /\ LeaseIsLive(m, t)

\* store.owner_elsewhere: any row of any non-terminal lease, tombstoned or not.
RowElsewhere(l, g) ==
  \E m \in Lease \ {l} : g \in Rows(m) /\ state[m] \in NonTerminal

\* The --lease argument of a command is an id lease-begin has printed.
Published(l) ==
  /\ state[l] # "none"
  /\ \A a \in Actor : ~(proc[a].pc = "begun" /\ proc[a].lease = l)

-----------------------------------------------------------------------------
(* Statements and seam calls several commands share.                       *)

\* The statement of a step that has already fixed everything else.
Goto(a, p) == proc' = [proc EXCEPT ![a] = p]

Start(a, c, p) ==
  /\ c \in Commands
  /\ proc[a] = Idle
  /\ Goto(a, [p EXCEPT !.cmd = c])

\* Mutant of ClaimLease: read, then UPDATE without AND state = ?.
ClaimBlindly(l, from, to) ==
  /\ state' = [state EXCEPT ![l] = to]
  /\ UNCHANGED <<expires, rowid, policy, gone>>

\* store.claim_lease: UPDATE ... WHERE id = ? AND state = ?; TRUE if it hit.
ClaimLease(l, from, to) ==
  /\ state[l] = from
  /\ state' = [state EXCEPT ![l] = to]
  /\ UNCHANGED <<expires, rowid, policy, gone>>

\* store.set_lease_state with no from_state: unconditional.
SetLeaseState(l, to) ==
  /\ state' = [state EXCEPT ![l] = to]
  /\ UNCHANGED <<expires, rowid, policy, gone>>

\* store.heartbeat: only an active lease is extended, anything else is a no-op.
StoreHeartbeat(l, e) ==
  /\ expires' = IF state[l] = "active" THEN [expires EXCEPT ![l] = e]
                                       ELSE expires
  /\ UNCHANGED <<state, rowid, policy, gone>>

\* store.register_resource inserting a row: no look at the lease's state.
InsertRow(l, g, pol) ==
  /\ rowid[l][g] = 0
  /\ rowid' = [rowid EXCEPT ![l][g] = Cardinality(Rows(l)) + 1]
  /\ policy' = [policy EXCEPT ![l][g] = pol]
  /\ UNCHANGED <<state, expires, gone>>

\* store.mark_destroyed: stamp destroyed_at on one lease's row, if it has one.
MarkDestroyed(l, g) ==
  /\ gone' = [gone EXCEPT ![l][g] = rowid[l][g] # 0]
  /\ UNCHANGED <<state, expires, rowid, policy>>

\* The command sees a seam call fail: host busy, guest locked, ssh timed out.
\* The budget is a bound of the model, not of the code.
AnswerLost ==
  /\ errors < MaxErrors
  /\ errors' = errors + 1
  /\ UNCHANGED <<now, crashes, misread>>

\* It failed on the host too. A step that pairs AnswerLost with the effect of
\* its call is one that ssh gave up on and the host carried out.
HostError == AnswerLost /\ UNCHANGED host

\* A probe of g that failed without reaching its config, in a text that has
\* "no such", "does not exist" or "404" in it: ssh's "No such file or
\* directory", or the number of the guest itself.
Misread(g) ==
  /\ errors < MaxErrors
  /\ errors' = errors + 1
  /\ misread' = misread \cup {g}
  /\ UNCHANGED <<host, now, crashes>>

SetGuest(g, status) ==
  /\ guest' = [guest EXCEPT ![g] = status]
  /\ UNCHANGED <<template, meta>>

SetMeta(g, m) ==
  /\ meta' = [meta EXCEPT ![g] = m]
  /\ UNCHANGED <<guest, template>>

\* Only the description is written: a guest without the ownership tag still
\* is nobody's for all who read its config.
Redated(g, l, e) == IF meta[g] = Unstamped THEN Unstamped ELSE Stamp(l, e)
=============================================================================
