# proxmox-agent-lab in TLA+

proxmox-agent-lab leases guests (VMs and containers) on one Proxmox host to
agents. Two programs act on the same guests and share nothing but the host:

* the **controller** (`proxmox-lab`, and the MCP server that calls the same
  functions): short-lived commands that read and write `lab.db` and drive
  `qm`/`pct` over ssh, many of them at once;
* the **collector** (`resources/pxl-gc.py`): root's crontab on the host starts it
  every ten minutes; it knows nothing of `lab.db` and judges every guest by the
  tag and the `pxl-expiry=` stamped in its config.

This directory models both programs, the MCP server's conversation with its
client, the commands that act inside a guest's display, file transfer and the
installation of the collector. TLC checks the models on small instances; TLAPS
proves their safety for instances of every size; what stays with TLC alone is
liveness.

## 1. Inventory

Paths are relative to `src/proxmox_agent_lab/`.

| Component | State it keeps | Operations | What makes it correct |
|---|---|---|---|
| `store.py` | `lab.db`: leases (state, expires_at, kind), resources (policy, destroyed_at), events, `last_mcp_activity` | one short transaction each: create, claim (compare-and-swap), set state, heartbeat, register, mark destroyed | a row changes only as its statement says; the claim is exclusive |
| `leases.py` | none of its own | lease-begin, -heartbeat, -register, -list; candidate, ownership and claim queries; metadata stamps | a guest of a live lease is nobody else's; long-term never expires; every stamp agrees with its lease |
| `cleanup.py` | none of its own | lease-end, lease-destroy, lease-abandon, cleanup-expired, reclaim_orphans, shutdown_host; `finalize_lease` | one teardown per lease; an ended lease left nothing; closed stays closed; failures are retried; the host goes off only when idle |
| `guest.py` | none of its own | create, clone, start, stop, destroy, template, snapshot, media, run, probe | only registered guests are touched; shared guests and templates are not destroyed |
| `proxmox.py`, `ssh.py` | the host behind them | one `qm`/`pct` call each, every call may fail, or succeed after ssh has given up | errors are reported, absence is not guessed |
| `resources/pxl-gc.py` | clear-stamp file, per-guest flock | list, judge, reap, power off | only expired guests of ours die; a guest that must keep the host on does so |
| `gc.py` | root's crontab, the installed and the staged script | install, status, uninstall | no line of others is lost or moved; no line without a script |
| `power.py` | none | wake, verified shutdown | off means observed off |
| `mcp.py` | idle clock in `lab.db`, the bytes read and not yet served, the process-wide confinement of transfers | read loop, one line at a time; schema check, confirm gates, dispatch; idle sweep | one answer for every request, in order; an idle lab is noticed although the client is silent; no long-term lease ends without a confirm; no power-off under work |
| `transfer.py` | the local and the guest's file, worker threads | chunked push and pull | what arrives is one version of what was sent; a failed pull leaves nothing |
| `console.py` | the guest's pointer and buttons, one screenshot file per guest on the host | move, click, drag, keys, type, screenshot, burst, calibrate | input reaches the right guest and the right pixel; no button stays down |
| `calibration.py` | `calibration.json`, shared by all clients, and its temporary file | load, find, upsert, the transform of a record | a point becomes the pixel its client means or is refused; a commit loses and breaks nothing |
| `memflow.py`, `netcap.py` | none | memory read and write, traffic capture: a gate, looks, one host call | only the lease's guest is touched |
| `png.py`, `diagnostics.py`, `storage.py`, `network.py`, `config.py`, `audit.py`, `journal.py`, `cli.py` | none that another component decides by | input/output, arithmetic, listings, parsing | unit-testable one by one |

They interact in five ways: commands share `lab.db` (SQLite, WAL, one statement
or short transaction at a time); commands share the host (each ssh call is one
step, and minutes may pass inside a command); the collector shares the host with
the commands; the console commands of several clients share one guest's display
and the calibration store; a person with root shares everything.

Hard behaviours: a command reads something, talks to the host for minutes, and
writes; two commands finish one lease; a finalizer dies; ssh gives up on a call
the host carries out; a guest is shared by two leases; the collector acts on
stamps older than the lease; two collector runs overlap; a stamp file outlives
the host's uptime; a transfer's thread or ssh call outlives its command; the
crontab is read whole and written back whole; a client falls silent in the middle
of a line; a gesture is a series of calls any of which fails; the display changes
its mode between a look and a click; two commits share a temporary file. `PROJECT.json` lists each at its line under "hazards".

## 2. The modules

| Module | Models | Rests on |
|---|---|---|
| `LabState` | the rows of `lab.db`, the guests, the clock, one record per running command; the statements and queries of `store.py` | |
| `LeaseCommands` | lease-begin, lease-heartbeat, lease-register | `LabState` |
| `GuestCommands` | guest create, clone, start, stop, destroy, template; a person deleting a guest | `LeaseCommands` |
| `Cleanup` | lease-end, lease-destroy, lease-abandon, cleanup-expired, `finalize_lease`; a person reclaiming a stuck lease | `GuestCommands` |
| `Lab` | all commands in parallel, the clock, killed commands; the safety and liveness properties | `Cleanup` |
| `LeaseSpec` | abstract: what a lease promises | |
| `LabInv` | the inductive invariants: `IInv` for the claims; `Stamps`, `Booked`, `Tombs` and `Accounted` for what a teardown leaves; `Inductive` for all of it | `Lab` |
| `Claims` | a sentence of the comments the code does not keep | `Lab` |
| `LabProofs` | the theorems about claims and states | `LabInv`, TLAPS |
| `HostGc` | `pxl-gc.py`, with the rest of the world as an environment | |
| `HostGcProofs` | the theorems about the collector | `HostGc`, TLAPS |
| `HostPower` | who switches the host off and when it counts as off: what follows a teardown, the idle clock, `power shutdown`, `power wake` | |
| `HostPowerProofs` | the theorems about it | `HostPower`, TLAPS |
| `LabGc` | the controller and the collector on one host (`HostGc` INSTANCEd over `Lab`'s guests) | `Lab`, `HostGc` |
| `TeardownProofs` | the theorems about stamps, tombstones, what a lease leaves behind, and `LabGc` | `LabProofs`, `LabGc` |
| `Transfer` | push and pull: command, worker thread, guest file, local file | |
| `TransferProofs` | the theorems about it | `Transfer`, TLAPS |
| `GcInstall` | gc install and uninstall: crontab, script, staged copy | |
| `InstallProofs` | the theorems about it, and about the filter it rewrites the crontab with | `GcInstall`, TLAPS |
| `McpCalls` | one line of a conversation: every tool with its schema, the schema check, the confirm gates, the namespace of a handler | |
| `McpServer` | the read loop, the dispatch, the idle clock and sweep, what a call does to the leases | `McpCalls` |
| `McpProtocol` | abstract: what the server promises whoever writes to its stdin | `McpCalls` |
| `McpProofs` | the theorems, among them that `McpServer` implements the safety half of `McpProtocol` | `McpServer`, TLAPS |
| `Calibration` | the calibration store and the transform of a record | |
| `Console` | every command on a guest's display, `guest run` and `media`, memory access, traffic captures, with several clients | `Calibration` |
| `ConsoleProofs` | the theorems about both | `Console`, TLAPS |
| `MCLab`, `MCHostGc`, `MCLabGc`, `MCHostPower`, `MCTransfer`, `MCGcInstall`, `MCMcp`, `MCConsole` | constants for TLC | |

### The controller

A command is an actor `a` with a record `proc[a]`: `pc` is the program point,
the other fields are its locals (`todo` is the snapshot of rows it loaded, `at` a
clock value it read, `prior` the state it will compare with). Every SQL
statement or short transaction is one step and so is every host call, so all the
interleavings two processes can have are there. `Crash(a)` drops the record and
leaves everything else.

Leases, guests and actors are sets. A row of `resources` is `rowid[l][g] # 0`
(the rank gives the order in which `finalize_lease` goes backwards), `policy` and
`gone` (destroyed_at). A guest is `absent`, `stopped` or `running`, with
`template` and `meta` for its config. `meta[g] = Unstamped` is a guest without
the ownership tag.

A host call has up to four outcomes: it works; it works and ssh gives up
(`AnswerLost`); it fails (`HostError`); it finds the guest in a state it refuses.
Failing calls are bounded by `MaxErrors`. Where the code goes by the text of an
error (`_guest_is_gone`: "does not exist", "no such" or "404" anywhere in it), a
call that fails may carry such a text or not: ssh's own "No such file or
directory" has it, and so has every error about vmid 1404, because the messages
of the seam name the vmid (`proxmox.py:497`).

The order of steps is the code's. `finalize_lease`, for one guest: `finalize`
(owner, policy) -> `stop` (template? status) -> `shutdown` -> `delete` ->
`confirm`/`reconfirm` if the text of an error says "no such" -> `forget`. The
probe at `confirm` is judged by its text too when it fails (`_confirm_absent`,
line 319): `Misread(g)` is such a probe whose text reads like an absence although
it says nothing of the guest. The guest is written off, and `misread`, a history
variable, remembers that it was. `lease-abandon` counts a guest as missing in the
same way. Then
`SaveLease` writes `ended` or `cleanup_failed` without looking at the state; that
this is harmless is the content of the proofs.

### The collector

A run `r` is a record `gc[r]`: `at` is the clock read at its start, `listed` and
`seen` come from `qm list` and `pct list`, then one guest at a time is read
(`scan`), locked (`lock`), stopped (`reap`), destroyed (`destroy`), and `judge`
is `power_pass`. What the controller, a person or the power button does is an
`Event`; each scenario names the events it admits and `MaxEvents` bounds them.

### Power

`HostPower` takes a teardown as one step (its interior is `Cleanup`) and splits
what comes after it (a probe that fails in the words of an absence may end a lease whose guest runs
on): count the other leases, probe, list the running guests,
request, and then the rounds of `power.shutdown_verified`, each with its probes,
its counter and its clock. The host is `on`, `halting`, `off` or `booting`; a
halting host may or may not answer. `activity` is the idle clock reduced to what
is compared: no tool call yet, a recent one, or none for long enough.

### Transfer

A command hands the work to a thread (`work[w]`) and joins it (`Join`,
`Overrun`). The thread sends, fetches or digests, one guest exec per step. When
the budget runs out, the MCP server keeps the thread, while a command-line
process ends and takes it along; the ssh call that was in flight may still write
(`late`, `LateWrite`). So what an earlier command left running writes into the
file while the next one works. Bytes are two letters and a chunk is two bytes,
so that a file may be empty, end within a chunk or end with one. A digest is
compared as the content it belongs to.

### Installing the collector

`crontab` is a sequence of lines: the marker, the line without and the line with
`PXL_GC_AUTO_SHUTDOWN`, and lines of others. A command is a program counter and
what it has read; each ssh call is a step that works, fails, or works without
saying so. A read that exits non-zero is taken for "there is none", also when it
is ssh that failed: `spoilt` records that, and what came between two steps, so that the properties can say when they hold. The crontab is not written back as
it was read: `_text` decodes it as UTF-8 and replaces what is none, and
`splitlines()` breaks a line at a form feed, a lone carriage return or U+2028 too,
after which every piece is written with a newline. Lines of others are therefore
of three kinds, plain, `Foreign` and `Broken`; one of the last two comes back as
`Torn`, which stands for whatever has become of it, one line or several. install
compares what it has decoded with what it would write, so a foreign line alone
makes it write nothing, and a broken one does; uninstall writes if the crontab had
a line of the collector's.

### The MCP server

A JSON value is its type and what the checks tell apart of it; a schema field is
a type, an enumeration and whether it has a maximum. `Schema` has the tools of
the table in `mcp.py`, `CheckParams` is `_check_params`, `ParamsError` adds what
the adapters refuse (the confirm gates), and
`NamespaceFits` says when the adapter of a tool can build what its handler reads.

`McpServer` is the loop. The client writes lines, whole or in two pieces, hangs
up or falls silent (`WriteBeginning`, `WriteLine`, `CloseStdin`). `Read` takes
any amount of what is in the pipe, also up to the middle of a line; `HandleLine`
answers what is not a call; a call is `BeginCall` (clock, then checks),
`RunCall` (handler and confinement), `CloseCall` (audit, sweep) and `SendAnswer`.
`Wake` is the select that times out. A call's effect on the leases is coarse:
its interior is `Lab`, and the way to a power-off `HostPower`. `rested` is a
history variable: the idle time has passed since the last call began, or that
call could not write the clock. It follows the calls and the failed writes, never
the clock, so that a server that touches the clock too late, or only for some
calls, is caught.

### Console and calibration

A client `c` has a record `cl[c]`: program point, the points still to be resolved
and the resolved ones, how many calls are left, and what it has last read off
the markers. A command is the sequence of its ssh calls: a pointer command looks
at the display (`Dump`, `Fetch`), resolves its points one look each, then moves,
presses, hops and releases, each a call that may fail with or without its
effect. What tells commands apart is a `Request`: whether it asks the lease, its
points, its looks, its number of calls. So `keys`, `type`, `guest run`, `media`,
a memory access and a traffic capture differ in their numbers only, as they do
in the code.

The display has one axis. A frame of size `s` has pixels `0 .. s - 1`, a viewer
shows it shrunk by `Zoom[s]`, and a record is the size it is saved for and the
reading it was fitted to: the size of the grid, the size of the image it was
drawn on, and whether the client measured or guessed. That is all the fit of
`calibration.py` depends on, as long as the markers left in the image determine
it; those that fall off a smaller image are dropped by the code.

The store is `file`, `temp` and one open handle per client. `os.replace` moves
the file under the handles: a handle on the temporary file becomes one on the
store, and one on the store leads nowhere. That is how two commits tear it.

### What is simplified

* The host's own statement that a config does not exist is taken to be true; any
  other text that reads like it is not (`Misread`).
* `forget_resource` updates the row of each lease in a transaction of its own;
  here it is one step. `lease-abandon`'s status calls are one step before its
  claim; `lease-destroy`'s metadata calls are one step with any subset reached.
* The config and the status a command reads back to back are one read
  (`FinalizeStop`, `ConvertGuest`).
* `lease-register` reads the store twice before its row, in `RegisterCheck` once;
  `GcJudge` reads the stamp and asks for the power-off in one step; the look at a
  guest's kind behind the gate of a console command (`_guest_kind`), which may
  refuse it, is left out, and so is a `tools/call` whose `arguments` are no object
  (the same error as other bad parameters).
* `Published` is a guard of the model, not of the code: nobody names a lease
  whose id has not been printed.
* A call ssh gave up on takes effect in the step that gives up, never later.
* An MCP call is one handler step, and any call can fail before it has done
  anything. The audit line of a call never fails it. Numbers are "in range" or
  "over any maximum"; `minimum` is not modelled because `_check_params` does not
  read it.
* A console guest has one pointer, one button, one axis; a drag's hops are one
  step (the last one decides); key names are translated before the first is sent
  and are left out, as are `console read` and the drawing of the grid.
* The least-squares fit is exact for measured readings and bad for guessed ones;
  rounding is that of integer division.
* `[power] auto_shutdown` is off in `Lab` (the default): a command is over when
  its lease is saved. `HostPower` has the switch on and what comes after.
* `HostPower` treats retained guests and shared guests like guests of nobody's;
  a lost probe of a host that is up is missed in fewer than `MinFailures` rounds
  in a row, which is what that number is for.
  Audit writes cannot fail except in lease-begin, where the
  code has a handler for it.
* `lease-begin` does not wake the host; ids are never reused (they are random).
* The collector's dry run, failing stamp or lock files and metadata that does
  not parse (it is treated like a missing tag: never deleted, never pinned) are
  left out.
* One transfer command runs at a time, on one guest file; `--sha256` of a push
  and the confinement of paths are decided before it starts.
* A line of others that names the collector's path would be taken for the
  collector's, and so would a piece of a broken line; blank crontabs are empty
  ones, as they are for `install`, which replaces them.
* `CloneSource`: the code asks the first lease that lists the template; here any
  may be first.

## 3. Runs

Every run is a `.cfg` of the same name. Bounds common to the controller's runs:
`TTL = 1` tick so that a lease expires, is renewed and expires again within
`MaxTime`; `MaxErrors` is 1, so that each call of each command can be the one that
fails, and 2 in `Races` and `GcAndSweep`, so that the probe after a failed destroy
can fail as well; the clock starts at 2 because 0 means "never" and lease-destroy stamps
"one tick ago".

| Run | Instance | Shows |
|---|---|---|
| `Races` | 2 actors, an ordinary and a long-term lease, one running guest, 7 commands, two failing calls | `Inductive`, `OneFinalizer`, `EndingIsHeld`, `TombstoneIsTruth`, `TerminalIsFinal`, and that `Lab` implements `LeaseSpec` |
| `Solo` | 1 actor, 2 leases, 2 guests of which one is a template at first, one failing call; guests are made, cloned, shared, destroyed and made again | `StampsMatchKind`, `EndedLeftNothing` |
| `Watchdog` | 2 actors, 1 lease, 1 guest that is stopped, converted or deleted meanwhile, one failing call, one killed command, fairness | `ExpiredIsClosed` |
| `GcKeeps` | 2 collector runs, a VM and a container of every kind, one event | `OneReaper`, `ReapsOnlyExpired`, `PinnedKeepsHostOn` |
| `GcReaps` | 2 collector runs, 1 guest, two events, fairness | `ExpiredIsReaped` |
| `GcAndSweep` | a command and a collector run on one guest, two failing calls | `RacingSweepIsHarmless`, `GoneIsSuccess` |
| `Power` | 1 actor, 2 leases, a guest of a lease, one of nobody's and one of the lab's own, three unanswered calls, fairness | `NeverUnderRunning`, `OtherLeasesKeepHostOn`, `VerifiedMeansDown`, `IdleHostGoesOff` |
| `Transfers` | 2 threads, 4 payloads of 0 to 3 bytes, chunks of 2, one edit by the guest, one thing that fails, overruns or is killed | `CleanTransferSucceeds`, `CarriedWhole`, `PullAllOrNothing` |
| `Installs` | 2 commands, 2 releases, a plain, a foreign and a broken line of others, one edit, one failing call or kill; commands and releases symmetric | `InstTypeOK`, `UserLinesSurvive`, `LineHasScript`, `SuccessIsWhole` |
| `Server` | conversations of at most 2 lines out of 12 kinds, whole or in pieces, an ordinary and a long-term lease, one failing clock write or shutdown, fairness | `McpTypeOK`, `ConfinedDuringCalls`, `LongTermNeedsConfirm`, `CallsHoldOffSweeps`, `IdleIsNoticed`, `ImplementsProtocol` |
| `Clients` | 2 clients (symmetric), 15 kinds of command, 3 commands in all, modes of 2 and 4 pixels of which a viewer halves the second, one failing call or killed command, one change of mode or owner | `InputIsOwned`, `ButtonsComeUp`, `PointsOnScreen`, `SizeIsFresh`, `TornOnlyByOverlap`, `MeantIsHit`, `RecordsAreKept` |

Two lines are enough for `Server`: an answer depends on its own line, the leases
and the clock, and a second line is needed for lines that arrive together, in
pieces, or behind a call that has changed something. Three commands are enough
for `Clients`: two commits that overlap and one that reads what they left, or
markers, a commit and a click. `Clients` has about 3.5 million states, `Installs` 3.4
million, `Races` and `Server` one million each; they take two to three minutes
each, the others less. Types are invariants of the proofs
where there are proofs (`TypeOK`, `GTypeOK`, `PTypeOK`, `TransferTypeOK`,
`ConTypeOK`), and no run repeats them.

Two actors are enough for what the claim protects: each property relates two
commands, or one command and the database, and the proofs remove the bound for
the invariants. One guest suffices where guests do not interact (`Races`); where
order or several failures matter (`Solo`, `GcKeeps`) there are two.
`EndedLeftNothing` is checked with one command at a time: with two it does not
hold, because a guest created or registered during a teardown is not in its
snapshot (`Takeover` shows its neighbour). For the same
reason `NeverUnderRunning` and `OtherLeasesKeepHostOn` are: leases are counted
and guests listed some seconds before `shutdown -h now`, and a second command in
between is not noticed.

One run expects a violation and is the entry of "findings": in `Takeover` a guest
that another lease registers during a teardown is destroyed under that lease,
because the owner check precedes the shutdown by minutes ("the one failure mode
expiry cleanup must never have", `cleanup.py:520`).

That is a window of seconds to minutes that needs a second actor; it is recorded
as a disagreement between text and code, and says nothing about how often it
occurs. More such places were met while the modules were written. The modules
have the behaviour, no run is spent on them; where a module states the sentence,
it is named, and putting it into a `.cfg` shows the trace:

* `cleanup.py:318`: `_confirm_absent` gives every error of its probe to the test of
  the text it was written to distrust, ssh's failures and vmids with 404 in them
  included ("absence must be *positively claimed*", "a probe that fails is proof
  only when the host itself says the guest does not exist", line 311). A live guest
  is then written off and its lease ends: with the constants of `Races`,
  `Lab.AbsenceIsPositive` fails after a lost destroy and a misread probe.
* `leases.py:285`: lease-register renews the row and stamps one guest; the stamps
  of the lease's other guests stay old, and the collector goes by them ("stale
  metadata would reap live work"). `LabGc.CollectsOnlyExpiredLeases`, with the
  constants of `GcAndSweep` and a second guest.
* `cleanup.py:692`: the lease whose teardown has just failed is not counted among
  the others, and the host goes off ("never powered off while any lease is still
  non-terminal"). `HostPower.LeasesKeepHostOn`, with the constants of `Power`.
* `mcp.py:1126`: "the sweep is per contract lease-scoped over the wire", yet
  `cleanup_expired` closes every lease that is due, whatever lease the call
  names. `McpServer.SweepIsScoped`, with the constants of `Server`.
* `calibration.py:265`: the temporary name is fixed, so of two overlapping commits
  one may tear the store or find its file moved away, which raises ("the swap has
  to be all-or-nothing"). `Console.SwapIsWhole`, with the constants of `Clients`.
  An upsert over a store that does not parse replaces all of it.
* `console.py`, calibrate commit: a fit that is not trustworthy is saved all the
  same ("submit refuses a fit that does not fit"), and the status line then says
  "ACTIVE (poor fit)" and that points are mapped (`calibration.py:447`), although
  `resolve_point` refuses them.
* `console.py`: a click or drag whose release fails leaves the button down, and
  the next `move`, which "changes nothing but the cursor", drags. A capture whose
  screendump is rejected returns the frame of an earlier one.
* `guest.py:490`, `leases.py:661`: `guest_clone` and `lease_register` without the
  optional `name` end in "internal error" over MCP, because the namespace lacks
  what the handler reads (`McpCalls.NamespaceFits`). Booleans are not checked by
  the schema check, so a text, also "false", is taken for true by most handlers.
* A client that never stops writing keeps the reader's select from timing out;
  the sweep at the end of its calls then finds a clock they have just touched.

* `store.py:314`: a vmid destroyed under a lease and created again under it meets
  the UNIQUE row: the create raises after the guest exists, `destroyed_at` stays,
  and the guest is nobody's ("the guest is gone", `leases.py:371`).
* `pxl-gc.py:390`: the clear stamp survives the power-off it allowed, so the first
  clear run after the next boot powers the host off at once ("two consecutive
  runs at least 10 minutes apart", line 13). Within one boot there is nothing to
  check but the comparison itself.
* `transfer.py:93`: a push that overran goes on writing, in its thread (MCP) or its
  last ssh call, into a file a repeated push has verified ("with nothing partial
  kept", line 80).
* `gc.py:96`: a `crontab -l` that fails counts as "no crontab": `gc install` writes
  its block alone and the lines of others are gone, `gc uninstall` removes the
  script and leaves the line. A line somebody adds between the read and the write
  is lost as well. With these excused, `UserLinesSurvive` and `LineHasScript` hold.
* `gc.py:70`, `102`: a line of others with bytes that are no UTF-8 comes back with
  replacement characters, and one with a form feed, a lone carriage return or
  U+2028 inside comes back as two, which cron reads as two entries. No failing call
  and no second editor is needed. `UserLinesSurvive` says what does hold: no line is
  lost, added or moved, and the plain ones are unaltered. A crontab of blank lines
  is replaced (`existing.strip()`, line 116).
* `gc.py:151`: two controllers stage different releases under one name, and each
  reports its own as installed.
* `guest.py:420`: a create or clone killed between the host call and the stamp or
  the row leaves a guest no lease knows ("a half-built guest is still visible to
  cleanup", `guest.py:309`).
* `cleanup.py:1011`: a sweep acts on the expiry it listed, so a heartbeat that
  arrives while it tears down another lease does not revive one
  (`docs/troubleshooting.md:50`).
* `cleanup.py:516`: an authorized lease-end leaves a shared guest to its other
  lease, although line 681 says the flag destroys it.
* `guest.py:137`: start, stop, destroy and template work under a closed lease
  (`docs/safety-policy.md:39`).
* `cleanup.py:490`: a config that cannot be read counts as "not a template" and
  the teardown destroys it (`docs/safety-policy.md:51`).
* `guest.py:624`: guest destroy fails when the guest has vanished, although "a
  destroy that finds nothing to destroy is still a success" (621).
* `cleanup.py:906`: a guest started between lease-abandon's checks and its claim
  runs on (`docs/safety-policy.md:187`).
* `pxl-gc.py:416`, `427`, `451`, `238`: a guest started after the listing goes down
  with the host; a config that cannot be read does not pin; a heartbeat after the
  read does not save a guest; a run that waited destroys what was created under
  the vmid another run freed.
* `pxl-gc.py:263`: `stopped` gets bare vmids and is asked for (kind, vmid), so a
  guest the run stopped still counts as running and the stamp is dropped.
* `cleanup.py:204`: one unanswered probe is reported as a verified power-off.

Deadlock is checked wherever the clock or a command can always move; it is off
(`CHECK_DEADLOCK FALSE`) where the clock bound and the end of the scenario let
the system stop, or where the host may be off for good.

### Fairness

`Watchdog` assumes: time passes; a command that has started goes on (weak
fairness on its next step, a kill is the exception and is bounded); somebody runs
`cleanup-expired` again and again (the watchdog timer of the documentation, every
few minutes; strong fairness, because a free actor comes and goes); a lease stuck
in `ending` is put back by hand as `docs/troubleshooting.md` says. Nobody starts
the guest of an expired lease again and again: the gate of `guest start` would let
them, and every destroy would find the guest running. Without the hand reclaim, a killed finalizer leaves its lease in `ending` for ever: no sweep looks at
`ending`. `GcReaps` assumes that cron starts runs and that they go on, and that a
run asking for a free lock again and again gets it: `flock` without waiting fails
only while another run holds it, so a run that always asks at the wrong moment is
not excluded by weak fairness but by the schedule of cron. `Power` assumes that a
command goes on and that the MCP server looks at its idle clock again and again:
after every call, and about every 60 seconds when the client is silent
(`mcp._read_messages`). `Server` assumes that the loop runs: the server takes its
next step, and a handler comes back. Nothing is asked of the client, who may
fall silent in the middle of a line, and a killed server owes no answer.

## 4. Proofs

`LabProofs` proves, for every set of leases, guests, actors and commands and
every bound, from the named assumptions of `LabState` only:

| Theorem | Statement |
|---|---|
| `TypeCorrect` | `Spec => [](TypeOK /\ Located)` |
| `Invariance` | `Spec => []IInv` |
| `ExclusiveClaim` | `Spec => []OneFinalizer` |
| `ClosedStaysClosed` | `Spec => TerminalIsFinal` |
| `Refinement` | `Spec => ImplementsLeaseSpec` |

`OneFinalizer` is not inductive: `SaveLease` writes without a compare-and-swap,
`lease-destroy` writes a second time when its claim is over, and a lease-begin
that fails writes `abandoned` whatever the state is. `IInv` says why none of this
hurts, in three parts:

* `Located`: what a command's locals are at each program point. Above all, a
  claim is always made out of an open state (`OpenState`), also by a sweep that
  remembers the state in its batch.
* `Claimed`: whoever is at a point of `Finalizer` holds the only claim, and its
  lease is in `ending`, or `abandoned` by its failed begin; when lease-destroy
  saves for the second time the lease is closed and held by nobody.
* `Young`: a lease whose begin has not returned has no rows and is known only to
  sweeps. So the only finalizer a failing begin can collide with works on an
  empty snapshot, has no failure to report, and writes `ended`: one closed
  state over another. Without this part a `cleanup_failed` over `abandoned`
  would be possible, and with it a lease that reopens.

The proof that a step keeps `IInv` has one lemma per command and one case per
action; steps are grouped by what they leave alone (`Quiet`, `Inside`: a
finalizer moves without touching the states; `RowsOfOwnLease`) so that each part
of `IInv` is argued once per group. `Refinement` maps a lease's state to a phase
and the finalizers to its holder, and shows each step to be one of `LeaseSpec`'s
actions or a stutter.

`TeardownProofs` builds on `Invariance`:

| Theorem | Statement | Assumption |
|---|---|---|
| `EndingHeld` | `Spec => []EndingIsHeld` | |
| `StampsAlways`, `StampsTellTheKind` | `Spec => []Stamps`, `Spec => []StampsMatchKind` | |
| `TombstonesTrue` | `Spec /\ [][NoVmidTwice]_vars => []TombstoneIsTruth` | |
| `EndedIsEmpty` | `Spec => EndedLeftNothing` | `OneActor` |
| `InductiveAlways` | `Spec => []Inductive` | |
| `SafeBesideCollector` | `LgSpec => [](OneFinalizer /\ EndingIsHeld /\ StampsMatchKind)` | |
| `RefinementBesideCollector` | `LgSpec => ImplementsLeaseSpec` | |
| `SweepBesideCollector` | `LgSpec /\ [][NoVmidTwice]_lgvars => RacingSweepIsHarmless` | `OneActor` |
| `GoneCounts` | `LgSpec => GoneIsSuccess` | |

`EndingIsHeld` is inductive beside `IInv`: every step out of a point of `Finalizer`
stays in it, or writes the lease out of `ending`, or is a kill. `Stamps` is the part
of the state behind `StampsMatchKind`: the expiry is 0 for a long-term lease and only
for one, in the row, in what a command carries from a read to a stamp (`Dated`), and
on the guest. `Tombs` says that a command about to write a guest off has seen it
gone, or has the word of a failed probe (`TakenForGone`). That it then stays gone is false once a vmid is used twice (`store.py:314` in
section 3 is what follows), hence `NoVmidTwice`: no step makes a guest under a vmid
some lease has had a row of. Guests may be created and cloned under new vmids by any
number of commands at once, and beside that a hand or the collector may remove them.
`Booked` connects the two: every guest a teardown or a guest destroy works on, and
every one written off, is in some row. `NoCreates`, no create or clone among the commands, implies
`NoVmidTwice` (`NothingMade`); `Races` and `GcAndSweep` are such instances.
`Accounted` says that every guest still on the books of the lease under teardown is
in the snapshot or settled; with a second command a guest registered meanwhile is in
neither, which is what `Takeover` lives on, hence `OneActor`. `Solo` and `GcAndSweep`
satisfy it. `Inductive` is all five, the last two where they hold; `Races` checks it,
with `NoCreates` true and two actors.

In `LabGc` a step of the collector changes guests, their metadata and its own
state, never `lab.db` or a command's locals, only ever stops and removes guests, and
stamps nothing (`CollectorOnly`); so it keeps each part of the invariant
(`CollectorKeeps`), and what the commands promise they promise beside it as well.

`TransferProofs` proves, for payloads of every length, every chunk size, any number
of threads and every bound, from `TransferAssumption`:

| Theorem | Statement |
|---|---|
| `TransferInvariance` | `TSpec => []TransferInv` |
| `TransfersCarryWhole` | `TSpec => []CarriedWhole` |
| `PullsAreAllOrNothing` | `TSpec => PullAllOrNothing` |
| `UndisturbedSucceeds` | `TSpec => []CleanTransferSucceeds` |

`TransferInv` is the types and `Held`: while a command runs, the file is in `seen`,
a thread of it that has a value has carried a member of `seen` (the digest sees to
that, whatever else writes), and the local file is untouched until it is opened and
what was carried when it is checked.
`CleanTransferSucceeds` needs `Undisturbed` besides: while nothing disturbs the
command, its thread has sent or fetched exactly the first `k` chunks, and after the
last one all of the payload (`Progress`). That is an induction over steps, not over
the payload, so it is an invariant like any other; what it needs of the data is one
lemma on sequences, that a prefix of `k` chunks and the next one are a prefix of
`k + 1`, or the whole when no chunk is left (`PieceFollows`).

`InstallProofs` proves, for any commands, releases, lines, faults and edits, from
`InstallAssumption`:

| Theorem | Statement |
|---|---|
| `InstallTypeCorrect` | `ISpec => []InstTypeOK` |
| `InstallInvariance` | `ISpec => []InstInv` |
| `UserLinesAlwaysSurvive` | `ISpec => []UserLinesSurvive` |
| `LineAlwaysHasScript` | `ISpec => []LineHasScript` |
| `SuccessAlwaysWhole` | `ISpec => SuccessIsWhole` |

`InstInv` adds to the types which calls a command can come to (`Sane`), that the
lines of others are the same in the crontab and in what a command that is about to
write has read of it, but for what a rewrite tears (`UsersKept`, as long as no read
failed and nobody edited), and
what a command nothing has disturbed has come to by its next call (`OrderKept`: the
script is there before its line is, and goes after it). The crontab is rewritten by
a filter, the recursive function `Only`, and the proof needs what that filter does
to sequences of every length: it distributes over `\o`, yields only members of its
set, and commutes with the tearing of lines (`TearKeeps`). The library's induction theorems take an operator,
which no prover here can be given, but `WFMin` of `WellFoundedInduction` takes a set;
`LeastNumber`, `Counting` and `GrowSequences` are induction over numbers and over
sequences stated for sets, and the lemmas on `Only` follow from them.

`McpProofs` proves, for conversations of every length, any set of lines, any
leases and any bound on faults:

| Theorem | Statement |
|---|---|
| `McpTypeCorrect` | `McpSpec => []McpTypeOK` |
| `Confinement` | `McpSpec => []ConfinedDuringCalls` |
| `ConfirmGate` | `McpSpec => []LongTermNeedsConfirm` |
| `SweepsHeldOff` | `McpSpec => CallsHoldOffSweeps` |
| `SafetyRefinement` | `McpSpec => Promise!ProtocolSafety` |

`LongTermNeedsConfirm` needs to know that whatever runs has passed the checks
(`ChecksPassed`: a lease-destroy under way carries a confirm that is literally
true), and that a call under way is the line the server believes it is serving
(`CallUnderWay`). `CallsHoldOffSweeps` rests on `TouchedIsRecent`: from the start of
a call until the idle time has passed, the clock is recent, unless it could not be
written; no action but `BeginCall` of the code makes that true, and each way through
it must, the refused calls included. The refinement adds that every call ends in one of
three codes (`OutcomeOfCall`). That requests are answered in the end is
`ImplementsProtocol`'s liveness half and stays with TLC.

`ConsoleProofs` proves, for any clients, resolutions, zooms and requests, from
`SizeAssumption`, `DocumentAssumption` and `ConsoleAssumption`:

| Theorem | Statement |
|---|---|
| `ConsoleInvariance`, `ConTypeCorrect` | `ConSpec => []CInv`, `ConSpec => []ConTypeOK` |
| `OwnedInput` | `ConSpec => []InputIsOwned` |
| `ButtonsUp` | `ConSpec => []ButtonsComeUp` |
| `OnTheScreen` | `ConSpec => []PointsOnScreen` |
| `FreshSize` | `ConSpec => []SizeIsFresh` |
| `TornOnly` | `ConSpec => []TornOnlyByOverlap` |
| `RecordsKept` | `ConSpec => RecordsAreKept` |
| `MeantHit` | `ConSpec => MeantIsHit` |

`CInv` has five ideas. `Gated`: a command that acts has passed the gate, and the
guest is still the lease's or has changed hands since. `FrameThere` and `OnScreen`:
the frame a command is about to read is no older than its own dump, so what it
knows of the display is true until the mode changes. `Filed`: a record lies under
the size it was saved for, in the store, in the temporary file and in the hands
of a commit; with the arithmetic of the transform (a marker grid taken without a
change of mode maps a shown pixel back to the one meant) this gives `MeantIsHit`.
`OneByOne`: as long as commits have not overlapped, one client at most is saving,
only it has a handle, and the temporary file is its own, half or whole; so the
store never tears and no record is lost. `Resolving` and `Located` say where a
gesture is, for the button.

`HostGcProofs` proves, for any guests, runs, events and bounds:

| Theorem | Statement | Assumption |
|---|---|---|
| `GcInvariance`, `GcTypeCorrect` | `GSpec => []GInv`, `GSpec => []GTypeOK` | |
| `OneReaperAlways` | `GSpec => []OneReaper` | |
| `OnlyExpiredReaped` | `GSpec => ReapsOnlyExpired` | `Punctual` |
| `PinnedKeepsOn` | `GSpec => PinnedKeepsHostOn` | `Punctual` |

`Punctual`: the environment's events include no heartbeat after the expiry, no
guest created under a used vmid, no expired guest made a template and no config
that cannot be read; each of these breaks the two properties, as the list in
section 3 says. `GcKeeps` satisfies it. `GInv` adds to the types: a
guest a run is going to destroy has expired (`Doomed`: a verdict stays true
because expiries only move before they pass); a guest that must keep the host on
is among those a run has yet to look at or has pinned (`Watched`); a run that
judges has looked at everything (`Judged`); no run's clock is ahead of the host's
(`Clocked`).

`HostPowerProofs` proves, for any leases, guests and bounds:

| Theorem | Statement | Assumption |
|---|---|---|
| `PowerInvariance`, `PTypeCorrect` | `PSpec => []PInv`, `PSpec => []PTypeOK` | |
| `VerifiedDown` | `PSpec => VerifiedMeansDown` | |
| `RunningKeepsOn` | `PSpec => NeverUnderRunning` | `OneCommand` |
| `OpenLeasesKeepOn` | `PSpec => OtherLeasesKeepHostOn` | `OneCommand` |

`VerifiedDown` holds for any number of commands: as long as the host has been up
since the request, a run of silent rounds is no longer than the number of rounds
the network has lost in a row, which stays below `MinFailures` (`Verifying`). The
other two need one command at a time: then what a command has counted (`Alone`)
and listed (`Unneeded`) is still true when it acts; each step of it is shown to
pass that knowledge on (`Guarded`). With two commands both fail, as said above.

Every invariant and action property of a passing run is the conclusion of a
theorem. Only model-checked are the liveness properties and their fairness, which
are out of the prover's reach: `ExpiredIsClosed`, `ExpiredIsReaped`,
`IdleHostGoesOff`, `IdleIsNoticed`, and the liveness half of `ImplementsProtocol`.
`OwnerKeepsGuest` fails, as `Takeover` shows.

## 5. Not modelled

* `ssh.py`: which remote commands the policy lets run is decided on their text,
  character by character; in the models a host call is what the policy lets pass.
* `memflow`: the host set-up script and the gdb stepper. What they do follows
  from QEMU's gdb stub and the kernel of the host, not from this code.
* `guest snapshot` and `resize`: one host call behind the gate of `guest start`,
  nothing read back.
* `reclaim_orphans` stops guests whose stamp names a lease the store has never
  heard of: another controller's, or this one's after `lab.db` was lost. The
  models have one controller that keeps its store, and there every stamp names a
  lease it knows.
* `diagnostics`, `storage`, `network`, `config`: read and print. `audit`, `journal`:
  append and print; nothing decides by them. `cli`: argument parsing. `png`:
  arithmetic over bytes with its own unit tests.
* The repository's scripts are not part of the program.

## 6. Plan

Done: the lease life cycle, guest commands, teardown, the collector, their
composition, automatic power-off, transfers, installing the collector, the MCP
server, console and calibration, memory access and captures as far as this code
decides them, and the theorems of section 4. What is left, in this order:

1. A second controller on the same host, with its own `lab.db`: then orphans, and
   what two idle sweeps do to each other's guests.
2. Several transfers at once, and a command's transfer next to its teardown.
3. Theorems: that the collector and the controller keep on each other's promise,
   `OnlyExpiredReaped` restated for `LabGc` under `Punctual`'s counterpart there;
   the assumptions `OneCommand` of `HostPowerProofs` and `OneActor` of
   `TeardownProofs` weakened to "no other command touches this lease's guests".
