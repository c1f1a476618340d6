------------------------------ MODULE Transfer ------------------------------
(***************************************************************************)
(* push and pull: a payload travels in chunks through guest exec, its      *)
(* digest is compared in the end, and a budget bounds the command but not  *)
(* the thread that does the work (transfer.py, proxmox.py). One guest      *)
(* file, one local file, one command at a time.                            *)
(***************************************************************************)
EXTENDS Integers, Sequences

CONSTANTS
  Worker,    \* threads that may be alive at once
  Byte,
  Content,   \* payloads, and what the guest writes: sequences of bytes
  Chunk,     \* TRANSFER_CHUNK
  Absent, NoWorker,
  MaxFaults, \* bound on failing execs and local writes, overruns and kills
  MaxEdits   \* bound on the guest's own changes to the file

ASSUME TransferAssumption ==
  /\ Content \subseteq Seq(Byte) /\ Absent \notin Seq(Byte)
  /\ NoWorker \notin Worker
  /\ Chunk \in Nat \ {0} /\ MaxFaults \in Nat /\ MaxEdits \in Nat

VARIABLES
  file,     \* the file in the guest
  out,      \* the local file a pull writes
  cmd,      \* the command
  work,     \* thread -> its program point, payload or parts, chunk index
  late,     \* writes whose ssh call nobody waits for any more
  faults, edits,
  seen,     \* history: what `file` has been since the command started
  clean     \* history: nothing went wrong or interfered since then

tvars == <<file, out, cmd, work, late, faults, edits, seen, clean>>

MaybeFile == Seq(Byte) \cup {Absent}

Rest == [pc |-> "rest", kind |-> "push", server |-> FALSE, worker |-> NoWorker,
         expected |-> Absent, before |-> Absent, outcome |-> "ok"]

Command ==
  [pc : {"rest", "join", "open", "write", "check"}, kind : {"push", "pull"},
   server : BOOLEAN,       \* a tool call of the MCP server, not a process
   worker : Worker \cup {NoWorker},
   expected : MaybeFile,   \* --sha256, as the content that has it
   before : MaybeFile,     \* `out` when the command started
   outcome : {"ok", "failed", "overrun", "killed"}]

NoThread == [pc |-> "none", data |-> <<>>, k |-> 0]

Thread == [pc : {"none", "send", "fetch", "digest", "value", "error"},
           data : Seq(Byte), k : Nat]

TransferTypeOK ==
  /\ file \in MaybeFile /\ out \in MaybeFile
  /\ cmd \in Command
  /\ work \in [Worker -> Thread]
  /\ late \in SUBSET [first : BOOLEAN, piece : Seq(Byte)]
  /\ faults \in 0 .. MaxFaults /\ edits \in 0 .. MaxEdits
  /\ seen \in SUBSET MaybeFile /\ clean \in BOOLEAN

TInit ==
  /\ file \in Content \cup {Absent} /\ out \in {Absent, <<>>}
  /\ cmd = Rest /\ work = [w \in Worker |-> NoThread]
  /\ late = {} /\ faults = 0 /\ edits = 0
  /\ seen = {} /\ clean = TRUE

\* Piece k of s, short or empty at its end, and how many a push sends.
Piece(s, k) ==
  SubSeq(s, k * Chunk + 1,
         IF (k + 1) * Chunk < Len(s) THEN (k + 1) * Chunk ELSE Len(s))
Chunks(s) == IF s = <<>> THEN 1 ELSE (Len(s) + Chunk - 1) \div Chunk

\* What a shell reads from the file or appends to.
Bytes == IF file = Absent THEN <<>> ELSE file

SetFile(s)      == file' = s /\ seen' = seen \cup {s}
SetThread(w, t) == work' = [work EXCEPT ![w] = t]

\* base64 -d > dest for the first chunk, >> dest for the others.
Write(s, c) == (IF c.first THEN <<>> ELSE s) \o c.piece
InFlight(t) == IF t.pc = "send" THEN {[first |-> t.k = 0, piece |-> Piece(t.data, t.k)]}
                                ELSE {}

\* Whoever works for a command that is over disturbs the one that runs.
Smoothly(w) == clean' = (clean /\ w = cmd.worker) /\ UNCHANGED <<late, faults>>
Fault       == faults < MaxFaults /\ faults' = faults + 1 /\ clean' = FALSE

-----------------------------------------------------------------------------
(* The commands: gate, thread, join.                                       *)

StartCommand(w, kind, expected, thread) ==
  /\ cmd.pc = "rest" /\ work[w] = NoThread
  /\ \E server \in BOOLEAN :
       cmd' = [Rest EXCEPT !.pc = "join", !.kind = kind, !.server = server,
                           !.worker = w, !.expected = expected, !.before = out]
  /\ SetThread(w, thread)
  /\ seen' = {file} /\ clean' = TRUE
  /\ UNCHANGED <<file, out, late, faults, edits>>

\* A local file whose digest is not --sha256 is refused before any of this.
StartPush(w) ==
  \E s \in Content :
    StartCommand(w, "push", Absent, [pc |-> "send", data |-> s, k |-> 0])

StartPull(w) ==
  \E e \in Content \cup {Absent} :
    StartCommand(w, "pull", e, [pc |-> "fetch", data |-> <<>>, k |-> 0])

End(outcome) == cmd' = [Rest EXCEPT !.kind = cmd.kind, !.outcome = outcome]
Drop         == SetThread(cmd.worker, NoThread)
Answered     == work[cmd.worker].pc \in {"value", "error"}

\* The thread has finished in time; a pull goes on with what it brought.
Join ==
  LET value == work[cmd.worker].pc = "value" IN
  /\ cmd.pc = "join" /\ Answered
  /\ \/ ~value /\ End("failed") /\ Drop
     \/ value /\ cmd.kind = "push" /\ End("ok") /\ Drop
     \/ value /\ cmd.kind = "pull" /\ cmd' = [cmd EXCEPT !.pc = "open"] /\ UNCHANGED work
  /\ UNCHANGED <<file, out, late, faults, edits, seen, clean>>

\* It has not: the command fails. A server keeps the (daemon) thread; a process
\* ends and takes it along, but not the ssh call the thread was waiting for.
Overrun ==
  /\ cmd.pc = "join" /\ ~Answered
  /\ Fault /\ End("overrun")
  /\ \/ cmd.server /\ UNCHANGED <<work, late>>
     \/ ~cmd.server /\ Drop /\ late' = late \cup InFlight(work[cmd.worker])
  /\ UNCHANGED <<file, out, edits, seen>>

\* The outcome of a thread nobody joins is dropped.
Vanish(w) ==
  /\ w # cmd.worker /\ work[w].pc \in {"value", "error"}
  /\ SetThread(w, NoThread)
  /\ UNCHANGED <<file, out, cmd, late, faults, edits, seen, clean>>

\* The process is killed: a command-line one, or the server with all its threads.
Kill ==
  LET dead == IF cmd.server THEN Worker ELSE {cmd.worker} IN
  /\ cmd.pc # "rest" /\ Fault /\ End("killed")
  /\ work' = [w \in Worker |-> IF w \in dead THEN NoThread ELSE work[w]]
  /\ late' = late \cup UNION {InFlight(work[w]) : w \in dead}
  /\ UNCHANGED <<file, out, edits, seen>>

-----------------------------------------------------------------------------
(* push_bytes and pull_bytes, one guest exec at a time.                    *)

Fails(w) == Fault /\ SetThread(w, [work[w] EXCEPT !.pc = "error"])

\* Sent or fetched: the next chunk, or the digest.
Advance(t, more) == [t EXCEPT !.k = @ + 1, !.pc = IF more THEN @ ELSE "digest"]

\* Mutant of SendChunk: the first chunk does not truncate.
SendAppending(w) ==
  LET t == work[w] IN
  /\ t.pc = "send" /\ Smoothly(w)
  /\ SetFile(Write(Bytes, [first |-> FALSE, piece |-> Piece(t.data, t.k)]))
  /\ SetThread(w, Advance(t, t.k + 1 < Chunks(t.data)))
  /\ UNCHANGED <<out, cmd, edits>>

\* A call that fails has written, has not, or will when nobody waits for it.
SendChunk(w) ==
  LET t == work[w] IN
  /\ t.pc = "send"
  /\ \E c \in InFlight(t) :
       \/ /\ Smoothly(w) /\ SetFile(Write(Bytes, c))
          /\ SetThread(w, Advance(t, t.k + 1 < Chunks(t.data)))
       \/ Fails(w) /\ SetFile(Write(Bytes, c)) /\ UNCHANGED late
       \/ Fails(w) /\ late' \in {late, late \cup {c}} /\ UNCHANGED <<file, seen>>
  /\ UNCHANGED <<out, cmd, edits>>

\* dd | base64 until a short chunk; dd's own exit code is lost in the pipe, so
\* a file that is not there reads as empty.
FetchChunk(w) ==
  LET t == work[w]
      p == Piece(Bytes, t.k) IN
  /\ t.pc = "fetch"
  /\ \/ /\ Smoothly(w)
        /\ SetThread(w, Advance([t EXCEPT !.data = @ \o p], Len(p) >= Chunk))
     \/ Fails(w) /\ UNCHANGED late
  /\ UNCHANGED <<file, out, cmd, edits, seen>>

\* Mutant of Digest: only a push is verified.
DigestOfPush(w) ==
  LET t == work[w] IN
  /\ t.pc = "digest" /\ Smoothly(w)
  /\ SetThread(w, [t EXCEPT !.pc = IF file = t.data \/ cmd.kind = "pull"
                                   THEN "value" ELSE "error"])
  /\ UNCHANGED <<file, out, cmd, edits, seen>>

\* sha256sum in the guest against the digest of the payload or of the parts.
Digest(w) ==
  LET t == work[w] IN
  /\ t.pc = "digest"
  /\ \/ /\ Smoothly(w)
        /\ SetThread(w, [t EXCEPT !.pc = IF file = t.data THEN "value" ELSE "error"])
     \/ Fails(w) /\ UNCHANGED late
  /\ UNCHANGED <<file, out, cmd, edits, seen>>

LateWrite ==
  \E c \in late :
    /\ late' = late \ {c} /\ SetFile(Write(Bytes, c)) /\ clean' = FALSE
    /\ UNCHANGED <<out, cmd, work, faults, edits>>

-----------------------------------------------------------------------------
(* The end of a pull: _write_private, then --sha256.                       *)

Pulled == work[cmd.worker].data

OpenOut ==
  /\ cmd.pc = "open"
  /\ \/ /\ out' = <<>> /\ cmd' = [cmd EXCEPT !.pc = "write"]
        /\ UNCHANGED <<work, faults, clean>>
     \/ Fault /\ End("failed") /\ Drop /\ UNCHANGED out
  /\ UNCHANGED <<file, late, edits, seen>>

\* Mutant of WriteOut: what could not be written whole stays.
WriteOutPartly ==
  /\ cmd.pc = "write"
  /\ \/ /\ out' = Pulled /\ cmd' = [cmd EXCEPT !.pc = "check"]
        /\ UNCHANGED <<work, faults, clean>>
     \/ Fault /\ End("failed") /\ Drop /\ UNCHANGED out
  /\ UNCHANGED <<file, late, edits, seen>>

WriteOut ==
  /\ cmd.pc = "write"
  /\ \/ /\ out' = Pulled /\ cmd' = [cmd EXCEPT !.pc = "check"]
        /\ UNCHANGED <<work, faults, clean>>
     \/ Fault /\ End("failed") /\ Drop /\ out' = Absent
  /\ UNCHANGED <<file, late, edits, seen>>

CheckOut ==
  /\ cmd.pc = "check" /\ Drop
  /\ \/ cmd.expected \in {Absent, Pulled} /\ End("ok") /\ UNCHANGED out
     \/ cmd.expected \notin {Absent, Pulled} /\ End("failed") /\ out' = Absent
  /\ UNCHANGED <<file, late, faults, edits, seen, clean>>

-----------------------------------------------------------------------------
\* The guest's own programs.
Edit ==
  /\ edits < MaxEdits /\ edits' = edits + 1
  /\ \E s \in (Content \cup {Absent}) \ {file} : SetFile(s)
  /\ clean' = FALSE
  /\ UNCHANGED <<out, cmd, work, late, faults>>

TNext ==
  \/ \E w \in Worker : \/ StartPush(w) \/ StartPull(w) \/ Vanish(w)
                       \/ SendChunk(w) \/ FetchChunk(w) \/ Digest(w)
  \/ Join \/ Overrun \/ Kill \/ LateWrite
  \/ OpenOut \/ WriteOut \/ CheckOut \/ Edit

TSpec == TInit /\ [][TNext]_tvars

-----------------------------------------------------------------------------
(* Properties                                                              *)

\* proxmox.push_bytes, pull_bytes: the chunking is exact at every length, the
\* empty file, exact multiples and leftovers of a cut push included: a transfer
\* nothing disturbs does not fail, unless there is no file to pull.
CleanTransferSucceeds ==
  clean /\ cmd.pc = "join" /\ work[cmd.worker].pc = "error"
  => cmd.kind = "pull" /\ file = Absent

\* proxmox.push_bytes, pull_bytes: whatever the guest, a late write or a thread
\* of an earlier command does between two chunks, a transfer that succeeds has
\* carried one version of the file: its payload was all of it at one moment.
CarriedWhole ==
  cmd.pc = "join" /\ work[cmd.worker].pc = "value" => work[cmd.worker].data \in seen

\* transfer.cmd_pull: a pull that fails leaves the local file as it was or
\* removes it, and one that succeeds has left one version of the guest's file,
\* the one --sha256 names.
PullAllOrNothing ==
  [][cmd.pc # "rest" /\ cmd.kind = "pull" /\ cmd'.pc = "rest" =>
       /\ cmd'.outcome \in {"failed", "overrun"} => out' \in {cmd.before, Absent}
       /\ cmd'.outcome = "ok" => out' \in seen /\ cmd.expected \in {Absent, out'}]_tvars
=============================================================================
