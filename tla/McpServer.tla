------------------------------ MODULE McpServer ------------------------------
(***************************************************************************)
(* The MCP server (mcp.py): a reader that wakes by itself, one line at a   *)
(* time, one answer a line, the idle clock and the idle sweep, and what a  *)
(* call does to the leases. The client is whoever writes to stdin. How the *)
(* host goes off once a sweep asks for it is in HostPower.                 *)
(***************************************************************************)
EXTENDS McpCalls, Sequences

CONSTANTS
  Message,    \* the lines a client may write
  Lease, LongTerm,
  MaxLines,   \* bound on the lines of one conversation
  MaxFaults   \* bound on clock writes and shutdowns that fail

ASSUME McpAssumption ==
  /\ LongTerm \subseteq Lease
  /\ MaxLines \in Nat /\ MaxFaults \in Nat

VARIABLES
  lines,     \* the complete lines in the stream, from its beginning
  half,      \* the client has begun another one
  closed,    \* the client has closed its end
  read,      \* complete lines the server has taken out of the pipe
  partial,   \* it has also taken the beginning of the next one
  served,    \* lines dealt with
  answers,
  alive,
  pc,        \* where the server is
  outcome,   \* what the running call will be answered with
  clock,     \* last_mcp_activity: "none", "recent", "quiet" (idle long enough)
  rested,    \* history: the idle time has passed since the last call began, or
             \* that call could not write the clock
  confined,  \* transfer._CONFINED
  lease,     \* lease -> "none", "open", "expired" or "ended"
  host,      \* "on" or "off"
  faults

stream    == <<lines, half, closed>>
reader    == <<read, partial>>
replies   == <<served, answers>>
lab       == <<clock, lease, host>>
mcpvars   == <<lines, half, closed, read, partial, served, answers, alive, pc,
               outcome, clock, rested, confined, lease, host, faults>>

McpInit ==
  /\ lines = <<>> /\ half = FALSE /\ closed = FALSE
  /\ read = 0 /\ partial = FALSE
  /\ served = 0 /\ answers = <<>> /\ alive = TRUE
  /\ pc = "select" /\ outcome = "result"
  /\ clock \in {"none", "recent", "quiet"} /\ rested = TRUE /\ confined = FALSE
  /\ lease \in [Lease -> {"none", "open", "expired"}]
  /\ \A l \in LongTerm : lease[l] # "expired"
  /\ host = "on" /\ faults = 0

Fault == faults < MaxFaults /\ faults' = faults + 1

-----------------------------------------------------------------------------
(* The client writes a line in one piece or in two, or hangs up.           *)

ClientOnly == UNCHANGED <<read, partial, served, answers, alive, pc, outcome,
                          clock, rested, confined, lease, host, faults>>

WriteBeginning ==
  /\ ~closed /\ ~half /\ Len(lines) < MaxLines
  /\ half' = TRUE
  /\ UNCHANGED <<lines, closed>> /\ ClientOnly

\* The newline, after a beginning or after a whole line.
WriteLine ==
  /\ ~closed /\ Len(lines) < MaxLines
  /\ \E m \in Message : lines' = Append(lines, m)
  /\ half' = FALSE
  /\ UNCHANGED closed /\ ClientOnly

CloseStdin ==
  /\ ~closed /\ closed' = TRUE
  /\ UNCHANGED <<lines, half>> /\ ClientOnly

-----------------------------------------------------------------------------
(* _read_messages                                                          *)

Readable == read < Len(lines) \/ (half /\ ~partial)

\* os.read: some more of what is there, up to the middle of a line. The inner
\* loop then looks for a newline.
Read ==
  /\ alive /\ pc = "select" /\ Readable
  /\ \E n \in read .. Len(lines), p \in BOOLEAN :
       /\ p => n < Len(lines) \/ half
       /\ n > read \/ (p /\ ~partial)
       /\ read' = n /\ partial' = p
  /\ pc' = "split"
  /\ UNCHANGED <<stream, replies, alive, outcome, lab, rested, confined, faults>>

\* No newline in what is pending.
NoLine ==
  /\ alive /\ pc = "split" /\ served = read
  /\ pc' = "select"
  /\ UNCHANGED <<stream, reader, replies, alive, outcome, lab, rested, confined, faults>>

\* Mutant of EndOfFile: the rest of a line is served as if it had ended.
ServesTheRest ==
  /\ alive /\ pc = "select" /\ closed /\ ~Readable
  /\ alive' = FALSE
  /\ served' = IF partial THEN served + 1 ELSE served
  /\ UNCHANGED <<stream, reader, answers, pc, outcome, lab, rested, confined, faults>>

\* os.read returns nothing any more: the rest of a line is dropped.
EndOfFile ==
  /\ alive /\ pc = "select" /\ closed /\ ~Readable
  /\ alive' = FALSE
  /\ UNCHANGED <<stream, reader, replies, pc, outcome, lab, rested, confined, faults>>

\* A signal, a SystemExit of a handler, a client that no longer reads.
Killed ==
  /\ alive /\ alive' = FALSE
  /\ UNCHANGED <<stream, reader, replies, pc, outcome, lab, rested, confined, faults>>

-----------------------------------------------------------------------------
(* _idle_sweep                                                             *)

\* store.active_leases: an expired lease nobody has closed yet is active.
Unowned == \A l \in Lease : lease[l] \in {"none", "ended"}

\* leases.mcp_idle_shutdown_due; without a recorded call the clock reads 0.
Due == clock = "quiet" /\ Unowned

\* Due and off, or due and failed (a guest that runs, a store or a host that
\* does not answer); otherwise nothing.
Sweep ==
  \/ Due /\ host' = "off" /\ UNCHANGED faults
  \/ Due /\ Fault /\ UNCHANGED host
  \/ ~Due /\ UNCHANGED <<host, faults>>

\* Mutant of Wake: a partial line keeps the reader in readline.
WakeBetweenLines ==
  /\ alive /\ pc = "select" /\ ~Readable /\ ~closed /\ ~partial
  /\ Sweep
  /\ UNCHANGED <<stream, reader, replies, alive, pc, outcome, clock, rested, confined, lease>>

\* selector.select times out: nothing to read, whatever is pending.
Wake ==
  /\ alive /\ pc = "select" /\ ~Readable /\ ~closed
  /\ Sweep
  /\ UNCHANGED <<stream, reader, replies, alive, pc, outcome, clock, rested, confined, lease>>

-----------------------------------------------------------------------------
(* _handle_line and _handle_message                                        *)

Current == lines[served + 1]

AnswerWith(m, code) ==
  /\ served' = served + 1
  /\ answers' = IF Answered(m)
                THEN Append(answers, [id |-> IF m.form = "object" THEN served + 1 ELSE 0,
                                      code |-> code])
                ELSE answers

\* Everything but a call: answered or skipped at once.
HandleLine ==
  /\ alive /\ pc = "split" /\ served < read
  /\ ~IsCall(Current)
  /\ AnswerWith(Current, PlainCode(Current))
  /\ UNCHANGED <<stream, reader, alive, pc, outcome, lab, rested, confined, faults>>

\* Mutant of BeginCall: only a call that passes the checks touches the clock.
ClockAfterChecks ==
  /\ alive /\ pc = "split" /\ served < read
  /\ IsCall(Current)
  /\ rested' = FALSE
  /\ IF ParamsError(Current.call.name, Current.call.args)
     THEN pc' = "close" /\ outcome' = "invalid params" /\ UNCHANGED <<clock, confined>>
     ELSE /\ pc' = "run" /\ clock' = "recent" /\ UNCHANGED outcome
          /\ confined' = ~Direct(Current.call.name, Current.call.args)
  /\ UNCHANGED <<stream, reader, replies, alive, lease, host, faults>>

\* _call_tool: the clock, then the checks. A clock that cannot be written is
\* logged and the call goes on.
BeginCall ==
  /\ alive /\ pc = "split" /\ served < read
  /\ IsCall(Current)
  /\ \/ clock' = "recent" /\ UNCHANGED faults
     \/ Fault /\ UNCHANGED clock
  /\ rested' = (faults' # faults)
  /\ IF ParamsError(Current.call.name, Current.call.args)
     THEN pc' = "close" /\ outcome' = "invalid params" /\ UNCHANGED confined
     ELSE /\ pc' = "run" /\ UNCHANGED outcome
          /\ confined' = ~Direct(Current.call.name, Current.call.args)
  /\ UNCHANGED <<stream, reader, replies, alive, lease, host>>

-----------------------------------------------------------------------------
(* What a handler does to the leases and the host.                         *)

NoEffect == UNCHANGED <<lease, host>>

\* bool(args.get(field)), as the handlers take their flags.
Flag(args, field) ==
  field \in DOMAIN args /\ args[field] \notin {JsonFalse, Text("")}

\* cmd_lease_begin
BeginEffect(args) ==
  /\ \E l \in Lease :
       /\ lease[l] = "none" /\ (l \in LongTerm) = Flag(args, "long_term")
       /\ lease' = [lease EXCEPT ![l] = "open"]
  /\ UNCHANGED host

\* A teardown that fails leaves a row the next sweep takes up again; a
\* long-term one stays as it is.
Failed(l) == IF l \in LongTerm THEN lease[l] ELSE "expired"

\* The host goes off, or its power-off could not be verified.
MaySwitchOff(due) == host' = host \/ (due /\ host' = "off")

\* finalize_lease on the leases of `torn`, some of which fail; then the host, if
\* no lease but those of `own` is active.
TearDown(torn, own, all, code) ==
  \E failed \in SUBSET torn :
    /\ lease' = [l \in Lease |-> IF l \in failed THEN Failed(l)
                                 ELSE IF l \in torn THEN "ended" ELSE lease[l]]
    /\ MaySwitchOff(/\ \A l \in Lease \ own : lease'[l] \in {"none", "ended"}
                    /\ torn # failed \/ all \/ clock = "quiet")
    /\ failed # {} => code = "internal error"

Standing(l) == l \in Lease /\ lease[l] \in {"open", "expired"}

\* cmd_lease_end and cmd_lease_destroy.
CloseEffect(l, kind, code) ==
  /\ Standing(l) /\ l \in kind
  /\ TearDown({l}, {l}, TRUE, code)

\* cmd_cleanup_expired: whatever lease_id the call carries.
Sweepable(args) ==
  {l \in Lease \ LongTerm : lease[l] = "expired" \/ (lease[l] = "open" /\ Flag(args, "all"))}

\* An effect and the code it is answered with. Any call can also fail before
\* it has done anything.
Effect(name, args, code) ==
  \/ name = "lease_begin" /\ BeginEffect(args) /\ code = "result"
  \/ name = "lease_end" /\ CloseEffect(args["lease"].val, Lease \ LongTerm, code)
  \/ name = "lease_destroy" /\ CloseEffect(args["lease"].val, LongTerm, code)
  \/ name = "cleanup_expired" /\ TearDown(Sweepable(args), {}, Flag(args, "all"), code)
  \/ name \notin {"lease_begin", "lease_end", "lease_destroy", "cleanup_expired"}
     /\ NoEffect
  \/ code = "internal error" /\ NoEffect

\* Mutant of RunCall: what raises leaves the confinement as it is.
NoFinally ==
  /\ alive /\ pc = "run"
  /\ \E code \in {"result", "internal error"} :
       /\ outcome' = code /\ confined' = (code # "result")
       /\ NoEffect
  /\ pc' = "close"
  /\ UNCHANGED <<stream, reader, replies, alive, clock, rested, faults>>

\* _run_tool and _invoke: the handler, and the confinement taken back.
RunCall ==
  /\ alive /\ pc = "run"
  /\ LET name == Current.call.name
         args == Current.call.args IN
     \E code \in {"result", "internal error"} :
       /\ outcome' = code
       /\ IF NamespaceFits(name, args) THEN Effect(name, args, code)
          ELSE code = "internal error" /\ NoEffect
  /\ confined' = FALSE
  /\ pc' = "close"
  /\ UNCHANGED <<stream, reader, replies, alive, clock, rested, faults>>

\* The finally of _call_tool: the audit line, which never fails the call, and
\* the sweep.
CloseCall ==
  /\ alive /\ pc = "close"
  /\ Sweep
  /\ pc' = "answer"
  /\ UNCHANGED <<stream, reader, replies, alive, outcome, clock, rested, confined, lease>>

\* Mutant of SendAnswer: a call that fails is answered even if nobody asked.
AnswersFailures ==
  /\ alive /\ pc = "answer"
  /\ served' = served + 1
  /\ answers' = IF Answered(Current) \/ outcome # "result"
                THEN Append(answers, [id |-> served + 1, code |-> outcome])
                ELSE answers
  /\ pc' = "split"
  /\ UNCHANGED <<stream, reader, alive, outcome, lab, rested, confined, faults>>

SendAnswer ==
  /\ alive /\ pc = "answer"
  /\ AnswerWith(Current, outcome)
  /\ pc' = "split"
  /\ UNCHANGED <<stream, reader, alive, outcome, lab, rested, confined, faults>>

-----------------------------------------------------------------------------
(* The world.                                                              *)

Outside == UNCHANGED <<stream, reader, replies, alive, pc, outcome, confined, host, faults>>

\* Ten minutes without a call.
GoesQuiet ==
  /\ clock = "recent" /\ clock' = "quiet" /\ rested' = TRUE
  /\ UNCHANGED lease /\ Outside

\* Time, or another command: a lease is opened, runs out, is renewed in time
\* or late, is closed. Nobody else destroys a long-term lease.
Elsewhere ==
  /\ \E l \in Lease, s \in {"open", "expired", "ended"} :
       /\ lease[l] # s
       /\ s = "open" => lease[l] \in {"none", "expired"}
       /\ s = "expired" => lease[l] = "open" /\ l \notin LongTerm
       /\ s = "ended" => Standing(l) /\ l \notin LongTerm
       /\ lease' = [lease EXCEPT ![l] = s]
  /\ UNCHANGED <<clock, rested>> /\ Outside

Server ==
  Read \/ NoLine \/ EndOfFile \/ Wake \/ HandleLine \/ BeginCall \/ RunCall
       \/ CloseCall \/ SendAnswer

McpNext ==
  \/ WriteBeginning \/ WriteLine \/ CloseStdin
  \/ Read \/ NoLine \/ EndOfFile \/ Wake \/ HandleLine
  \/ BeginCall \/ RunCall \/ CloseCall \/ SendAnswer
  \/ Killed \/ GoesQuiet \/ Elsewhere

\* The loop runs, and a call comes back. Nothing is asked of the client.
McpSpec == McpInit /\ [][McpNext]_mcpvars /\ WF_mcpvars(Server)

-----------------------------------------------------------------------------
(* Properties.                                                             *)

\* Every variable has its type, and the server is never ahead of its input.
McpTypeOK ==
  /\ lines \in Seq(Message) /\ half \in BOOLEAN /\ closed \in BOOLEAN
  /\ read \in 0 .. Len(lines) /\ partial \in BOOLEAN
  /\ served \in 0 .. read
  /\ answers \in Seq([id : Nat, code : Codes])
  /\ alive \in BOOLEAN /\ pc \in {"select", "split", "run", "close", "answer"}
  /\ outcome \in Codes /\ clock \in {"none", "recent", "quiet"}
  /\ rested \in BOOLEAN /\ confined \in BOOLEAN
  /\ lease \in [Lease -> {"none", "open", "expired", "ended"}]
  /\ host \in {"on", "off"} /\ faults \in 0 .. MaxFaults

\* Transfers are confined to the scratch root exactly while a handler runs,
\* however it ends (transfer.set_unconfined in _invoke).
ConfinedDuringCalls ==
  confined <=> pc = "run" /\ ~Direct(Current.call.name, Current.call.args)

SaysYes(args) == "confirm" \in DOMAIN args /\ args["confirm"] = JsonTrue

\* However a conversation goes, a long-term lease stands until the client has
\* sent a call whose confirm is literally true.
LongTermNeedsConfirm ==
  (\E l \in LongTerm : lease[l] = "ended")
     => \E k \in 1 .. Len(lines) : IsCall(lines[k]) /\ SaysYes(lines[k].call.args)

\* Every call holds off the idle sweep, the one at its own end and those of the
\* self-wake after it: whatever the call was and however old the clock it found,
\* the sweep powers the host off only when the idle time has passed since
\* ("always a no-op right after the clock was just touched", _idle_sweep).
CallsHoldOffSweeps ==
  [][(pc \in {"close", "select"} /\ host' # host) => rested]_mcpvars

\* An idle lab that nobody owns is noticed: the host goes off, or the lab is
\* in use again, or the server has gone. A line the client has only begun
\* does not keep the reader from waking up.
IdleIsNoticed == (alive /\ Due /\ host = "on") ~> (host = "off" \/ ~Due \/ ~alive)

\* The server keeps its promise to the client.
Promise == INSTANCE McpProtocol
ImplementsProtocol == Promise!ProtocolSpec

\* "the sweep is per contract lease-scoped over the wire": cleanup_expired
\* closes no lease but the one the call names.
SweepIsScoped ==
  [][pc = "run" /\ Current.call.name = "cleanup_expired" /\ pc' = "close"
       => \A l \in Lease : lease'[l] # lease[l]
                             => Text(l) = Current.call.args["lease_id"]]_mcpvars
=============================================================================
