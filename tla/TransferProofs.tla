--------------------------- MODULE TransferProofs ---------------------------
(***************************************************************************)
(* What holds of Transfer for payloads of every length, any chunk size and *)
(* any number of threads that outlive their command.                       *)
(***************************************************************************)
EXTENDS Transfer, SequenceTheorems, TLAPS

-----------------------------------------------------------------------------
(* Types                                                                   *)

\* A piece of a payload is a sequence of bytes, whatever its index.
LEMMA PieceType ==
  ASSUME NEW s \in Seq(Byte), NEW k \in Nat PROVE Piece(s, k) \in Seq(Byte)
<1>. DEFINE m == k * Chunk + 1
            n == IF (k + 1) * Chunk < Len(s) THEN (k + 1) * Chunk ELSE Len(s)
<1>1. Chunk \in Nat /\ Len(s) \in Nat  BY TransferAssumption
<1>2. k * Chunk \in Nat /\ (k + 1) * Chunk \in Nat  BY <1>1
<1>3. m \in Int /\ n \in Int /\ n <= Len(s) /\ m >= 1  BY <1>1, <1>2
<1>4. \A i \in m .. n : s[i] \in Byte  BY <1>1, <1>3
<1>5. SubSeq(s, m, n) \in Seq(Byte)
  <2>. HIDE DEF m, n
  <2>. QED BY <1>3, <1>4, SubSeqProperties
<1>. QED BY <1>5 DEF Piece

\* What the shell finds in the file is a sequence of bytes.
LEMMA BytesType == ASSUME TransferTypeOK PROVE Bytes \in Seq(Byte)
  BY DEF TransferTypeOK, MaybeFile, Bytes

\* A write leaves a sequence of bytes.
LEMMA WriteType ==
  ASSUME NEW s \in Seq(Byte), NEW c \in [first : BOOLEAN, piece : Seq(Byte)]
  PROVE  Write(s, c) \in Seq(Byte)
<1>1. c.piece \in Seq(Byte) /\ <<>> \in Seq(Byte)  OBVIOUS
<1>. QED BY <1>1, ConcatProperties DEF Write

\* The call a sender waits for is a write.
LEMMA InFlightType ==
  ASSUME NEW t \in Thread PROVE InFlight(t) \subseteq [first : BOOLEAN, piece : Seq(Byte)]
<1>1. t.data \in Seq(Byte) /\ t.k \in Nat  BY DEF Thread
<1>2. Piece(t.data, t.k) \in Seq(Byte)  BY <1>1, PieceType
<1>3. \A b \in BOOLEAN, p \in Seq(Byte) :
        [first |-> b, piece |-> p] \in [first : BOOLEAN, piece : Seq(Byte)]
  OBVIOUS
<1>4. (t.k = 0) \in BOOLEAN  OBVIOUS
<1>5. [first |-> t.k = 0, piece |-> Piece(t.data, t.k)]
        \in [first : BOOLEAN, piece : Seq(Byte)]
  BY <1>2, <1>3, <1>4, Zenon
<1>. QED BY <1>5, Zenon DEF InFlight

\* SetFile, SetThread, Fault, End keep the types of what they write.
LEMMA SetFileType ==
  ASSUME TransferTypeOK, NEW s \in MaybeFile, SetFile(s)
  PROVE  file' \in MaybeFile /\ seen' \in SUBSET MaybeFile
  BY DEF TransferTypeOK, SetFile

LEMMA SetThreadType ==
  ASSUME TransferTypeOK, NEW w \in Worker, NEW t \in Thread, SetThread(w, t)
  PROVE  work' \in [Worker -> Thread]
  BY DEF TransferTypeOK, SetThread

LEMMA FaultType ==
  ASSUME TransferTypeOK, Fault PROVE faults' \in 0 .. MaxFaults /\ clean' \in BOOLEAN
<1>1. faults' \in 0 .. MaxFaults  BY TransferAssumption DEF TransferTypeOK, Fault
<1>2. clean' \in BOOLEAN  BY Zenon DEF Fault
<1>. QED BY <1>1, <1>2

LEMMA SmoothlyType ==
  ASSUME TransferTypeOK, NEW w, Smoothly(w)
  PROVE  /\ faults' \in 0 .. MaxFaults /\ clean' \in BOOLEAN
         /\ late' \in SUBSET [first : BOOLEAN, piece : Seq(Byte)]
  BY DEF TransferTypeOK, Smoothly

LEMMA EndType ==
  ASSUME TransferTypeOK, NEW outcome \in {"ok", "failed", "overrun", "killed"}, End(outcome)
  PROVE  cmd' \in Command
  BY DEF TransferTypeOK, End, Rest, Command, MaybeFile

\* A thread that is left, and one in its next state, is a thread.
LEMMA ThreadType ==
  /\ NoThread \in Thread
  /\ \A t \in Thread :
       /\ \A p \in {"error", "value"} : [t EXCEPT !.pc = p] \in Thread
       /\ \A more : Advance(t, more) \in Thread
       /\ \A s \in Seq(Byte) : [t EXCEPT !.data = s] \in Thread
<1>1. NoThread \in Thread
  <2>1. <<>> \in Seq(Byte)  OBVIOUS
  <2>. QED BY <2>1 DEF NoThread, Thread
<1>2. ASSUME NEW t \in Thread, NEW p \in {"error", "value"}
      PROVE  [t EXCEPT !.pc = p] \in Thread
  BY DEF Thread
<1>3. ASSUME NEW t \in Thread, NEW more PROVE Advance(t, more) \in Thread
  <2>1. t.k + 1 \in Nat  BY DEF Thread
  <2>2. (IF more THEN t.pc ELSE "digest") \in
          {"none", "send", "fetch", "digest", "value", "error"}
    BY DEF Thread
  <2>. QED BY <2>1, <2>2 DEF Thread, Advance
<1>4. ASSUME NEW t \in Thread, NEW s \in Seq(Byte) PROVE [t EXCEPT !.data = s] \in Thread
  BY DEF Thread
<1>. QED BY <1>1, <1>2, <1>3, <1>4

LEMMA FailsType ==
  ASSUME TransferTypeOK, NEW w \in Worker, Fails(w)
  PROVE  work' \in [Worker -> Thread] /\ faults' \in 0 .. MaxFaults /\ clean' \in BOOLEAN
<1>1. work[w] \in Thread  BY DEF TransferTypeOK
<1>. QED BY <1>1, ThreadType, SetThreadType, FaultType DEF Fails

-----------------------------------------------------------------------------
(* The inductive invariant: while a command runs, what the file has been is *)
(* in `seen`, a thread that has a value has carried one of those, and the   *)
(* local file is untouched, or empty, or what was carried.                  *)

Held ==
  cmd.pc # "rest" =>
    /\ cmd.worker \in Worker /\ file \in seen
    /\ work[cmd.worker].pc = "value" => work[cmd.worker].data \in seen
    /\ cmd.pc # "join" => cmd.kind = "pull" /\ work[cmd.worker].pc = "value"
    /\ cmd.pc \in {"join", "open"} => out = cmd.before
    /\ cmd.pc = "check" => out = Pulled

TransferInv == TransferTypeOK /\ Held

LEMMA InvInit == TInit => TransferInv
<1>. SUFFICES ASSUME TInit PROVE TransferInv  OBVIOUS
<1>1. <<>> \in Seq(Byte)  OBVIOUS
<1>2. file \in MaybeFile /\ out \in MaybeFile /\ Absent \in MaybeFile
  BY <1>1, TransferAssumption DEF TInit, MaybeFile
<1>3. cmd \in Command  BY <1>2 DEF TInit, Rest, Command
<1>4. work \in [Worker -> Thread]  BY ThreadType DEF TInit
<1>5. faults \in 0 .. MaxFaults /\ edits \in 0 .. MaxEdits
  BY TransferAssumption DEF TInit
<1>6. clean \in BOOLEAN  BY Zenon DEF TInit
<1>7. TransferTypeOK
  BY <1>2, <1>3, <1>4, <1>5, <1>6 DEF TInit, TransferTypeOK
<1>. QED BY <1>7 DEF TransferInv, Held, TInit, Rest

\* A step that ends the command leaves nothing for Held to say.
LEMMA EndHeld == ASSUME NEW outcome, End(outcome) PROVE Held'
  BY DEF End, Rest, Held

\* A step of a thread that changes neither the command nor the local file: if
\* it is the command's own, it was not finished; if it has a value now, that is
\* a version of the file.
LEMMA WorkHeld ==
  ASSUME TransferInv, NEW w \in Worker, NEW t \in Thread, SetThread(w, t),
         UNCHANGED <<cmd, out>>, seen \subseteq seen',
         cmd.pc # "rest" => file' \in seen',
         w = cmd.worker => work[w].pc # "value",
         t.pc = "value" /\ w = cmd.worker => t.data \in seen'
  PROVE  Held'
<1>. SUFFICES ASSUME cmd.pc # "rest" PROVE Held'
  BY DEF Held
<1>1. cmd.worker \in Worker /\ work' = [work EXCEPT ![w] = t] /\ work \in [Worker -> Thread]
  BY DEF TransferInv, Held, TransferTypeOK, SetThread
<1>2. CASE w = cmd.worker
  <2>1. cmd.pc = "join" /\ out = cmd.before
    BY <1>2 DEF TransferInv, Held, TransferTypeOK, Command
  <2>2. work'[cmd.worker] = t  BY <1>1, <1>2
  <2>. QED BY <2>1, <2>2, <1>1, <1>2 DEF Held
<1>3. CASE w # cmd.worker
  <2>1. work'[cmd.worker] = work[cmd.worker]  BY <1>1, <1>3
  <2>. QED BY <2>1, <1>1 DEF TransferInv, Held, Pulled
<1>. QED BY <1>2, <1>3

\* A step of somebody who is no thread, on the guest's file.
LEMMA FileHeld ==
  ASSUME TransferInv, NEW s, SetFile(s), UNCHANGED <<cmd, out, work>> PROVE Held'
  BY DEF TransferInv, Held, SetFile, Pulled

-----------------------------------------------------------------------------
(* One lemma per group of actions.                                         *)

LEMMA StartKeeps ==
  ASSUME TransferInv, NEW w \in Worker, NEW kind \in {"push", "pull"},
         NEW expected \in MaybeFile, NEW t \in Thread, t.pc # "value",
         StartCommand(w, kind, expected, t)
  PROVE  TransferInv'
<1>1. work' \in [Worker -> Thread] /\ work'[w] = t
  <2>1. work' \in [Worker -> Thread]
    BY SetThreadType DEF StartCommand, TransferInv
  <2>. QED BY <2>1 DEF StartCommand, SetThread, TransferInv, TransferTypeOK
<1>2. PICK server \in BOOLEAN :
        cmd' = [Rest EXCEPT !.pc = "join", !.kind = kind, !.server = server,
                            !.worker = w, !.expected = expected, !.before = out]
  BY DEF StartCommand
<1>3. cmd' \in Command
  BY <1>2 DEF Rest, Command, TransferInv, TransferTypeOK, MaybeFile
<1>4. TransferTypeOK'
  BY <1>1, <1>3 DEF StartCommand, TransferInv, TransferTypeOK
<1>5. cmd'.pc = "join" /\ cmd'.worker = w /\ cmd'.before = out  BY <1>2 DEF Rest
<1>6. Held'
  BY <1>1, <1>5 DEF StartCommand, Held
<1>. QED BY <1>4, <1>6 DEF TransferInv

LEMMA StartPushKeeps == ASSUME TransferInv, NEW w \in Worker, StartPush(w) PROVE TransferInv'
<1>1. PICK s \in Content :
        StartCommand(w, "push", Absent, [pc |-> "send", data |-> s, k |-> 0])
  BY DEF StartPush
<1>2. [pc |-> "send", data |-> s, k |-> 0] \in Thread
  BY TransferAssumption DEF Thread
<1>. QED BY <1>1, <1>2, StartKeeps DEF MaybeFile

LEMMA StartPullKeeps == ASSUME TransferInv, NEW w \in Worker, StartPull(w) PROVE TransferInv'
<1>1. PICK e \in Content \cup {Absent} :
        StartCommand(w, "pull", e, [pc |-> "fetch", data |-> <<>>, k |-> 0])
  BY DEF StartPull
<1>2. [pc |-> "fetch", data |-> <<>>, k |-> 0] \in Thread /\ e \in MaybeFile
  BY TransferAssumption DEF Thread, MaybeFile
<1>. QED BY <1>1, <1>2, StartKeeps

\* The running command has a thread.
LEMMA WorkerType ==
  ASSUME TransferInv, cmd.pc # "rest"
  PROVE  cmd.worker \in Worker /\ work[cmd.worker] \in Thread
  BY DEF TransferInv, Held, TransferTypeOK

LEMMA DropType ==
  ASSUME TransferInv, cmd.pc # "rest", Drop PROVE work' \in [Worker -> Thread]
  BY WorkerType, ThreadType, SetThreadType DEF Drop, TransferInv

LEMMA JoinKeeps == ASSUME TransferInv, Join PROVE TransferInv'
<1>0. cmd.pc = "join" /\ UNCHANGED <<file, out, late, faults, edits, seen, clean>>
  BY DEF Join
<1>. SUFFICES work' \in [Worker -> Thread] /\ cmd' \in Command /\ Held'
  BY <1>0 DEF TransferInv, TransferTypeOK
<1>1. CASE Drop /\ (End("failed") \/ End("ok"))
  BY <1>0, <1>1, DropType, EndType, EndHeld DEF TransferInv
<1>2. CASE /\ work[cmd.worker].pc = "value" /\ cmd.kind = "pull"
           /\ cmd' = [cmd EXCEPT !.pc = "open"] /\ UNCHANGED work
  <2>1. cmd' \in Command  BY <1>2 DEF TransferInv, TransferTypeOK, Command
  <2>2. /\ cmd'.pc = "open" /\ cmd'.worker = cmd.worker
        /\ cmd'.before = cmd.before /\ cmd'.kind = cmd.kind
    BY <1>2 DEF TransferInv, TransferTypeOK, Command
  <2>. QED BY <2>1, <2>2, <1>0, <1>2 DEF Held, TransferInv, TransferTypeOK
<1>. QED BY <1>1, <1>2 DEF Join

LEMMA OverrunKeeps == ASSUME TransferInv, Overrun PROVE TransferInv'
<1>1. cmd.pc # "rest" /\ cmd' \in Command /\ Held'
  BY EndType, EndHeld DEF Overrun, TransferInv
<1>2. faults' \in 0 .. MaxFaults /\ clean' \in BOOLEAN
  BY FaultType DEF Overrun, TransferInv
<1>3. work' \in [Worker -> Thread] /\ late' \in SUBSET [first : BOOLEAN, piece : Seq(Byte)]
  BY <1>1, DropType, WorkerType, InFlightType DEF Overrun, TransferInv, TransferTypeOK
<1>. QED BY <1>1, <1>2, <1>3 DEF Overrun, TransferInv, TransferTypeOK

LEMMA KillKeeps == ASSUME TransferInv, Kill PROVE TransferInv'
<1>. DEFINE dead == IF cmd.server THEN Worker ELSE {cmd.worker}
<1>1. cmd.pc # "rest" /\ cmd' \in Command /\ Held'
  BY EndType, EndHeld DEF Kill, TransferInv
<1>2. faults' \in 0 .. MaxFaults /\ clean' \in BOOLEAN
  BY FaultType DEF Kill, TransferInv
<1>3. work' \in [Worker -> Thread]
  BY ThreadType DEF Kill, TransferInv, TransferTypeOK
<1>4. dead \subseteq Worker  BY <1>1, WorkerType
<1>5. \A w \in dead : InFlight(work[w]) \subseteq [first : BOOLEAN, piece : Seq(Byte)]
  BY <1>4, InFlightType DEF TransferInv, TransferTypeOK
<1>6. late' \in SUBSET [first : BOOLEAN, piece : Seq(Byte)]
  BY <1>5 DEF Kill, TransferInv, TransferTypeOK
<1>. QED BY <1>1, <1>2, <1>3, <1>6 DEF Kill, TransferInv, TransferTypeOK

LEMMA VanishKeeps == ASSUME TransferInv, NEW w \in Worker, Vanish(w) PROVE TransferInv'
<1>1. SetThread(w, NoThread) /\ w # cmd.worker
      /\ UNCHANGED <<file, out, cmd, late, faults, edits, seen, clean>>
  BY DEF Vanish
<1>2. work' \in [Worker -> Thread]  BY <1>1, ThreadType, SetThreadType DEF TransferInv
<1>3. cmd.pc # "rest" => file' \in seen'  BY <1>1 DEF TransferInv, Held
<1>4. Held'  BY <1>1, <1>3, ThreadType, WorkHeld
<1>. QED BY <1>1, <1>2, <1>4 DEF TransferInv, TransferTypeOK

\* A thread fails: its file may have changed or not.
LEMMA FailsHeld ==
  ASSUME TransferInv, NEW w \in Worker, Fails(w), work[w].pc # "value",
         UNCHANGED <<cmd, out>>, UNCHANGED <<file, seen>> \/ \E s : SetFile(s)
  PROVE  Held'
<1>. DEFINE t == [work[w] EXCEPT !.pc = "error"]
<1>0. work[w] \in Thread  BY DEF TransferInv, TransferTypeOK
<1>1. t \in Thread /\ t.pc = "error"
  <2>1. t \in Thread  BY <1>0, ThreadType
  <2>. QED BY <1>0, <2>1 DEF Thread
<1>2. SetThread(w, t)  BY DEF Fails
<1>3. seen \subseteq seen' /\ (cmd.pc # "rest" => file' \in seen')
  BY DEF SetFile, TransferInv, Held
<1>. HIDE DEF t
<1>. QED BY <1>1, <1>2, <1>3, WorkHeld

LEMMA SendChunkKeeps == ASSUME TransferInv, NEW w \in Worker, SendChunk(w) PROVE TransferInv'
<1>. DEFINE t == work[w]
<1>0. t \in Thread /\ t.pc = "send" /\ UNCHANGED <<out, cmd, edits>>
  BY DEF SendChunk, TransferInv, TransferTypeOK
<1>1. PICK c \in InFlight(t) :
        \/ /\ Smoothly(w) /\ SetFile(Write(Bytes, c))
           /\ SetThread(w, Advance(t, t.k + 1 < Chunks(t.data)))
        \/ Fails(w) /\ SetFile(Write(Bytes, c)) /\ UNCHANGED late
        \/ Fails(w) /\ late' \in {late, late \cup {c}} /\ UNCHANGED <<file, seen>>
  BY DEF SendChunk
<1>2. c \in [first : BOOLEAN, piece : Seq(Byte)]  BY <1>0, InFlightType
<1>3. Write(Bytes, c) \in MaybeFile
  BY <1>2, BytesType, WriteType DEF TransferInv, MaybeFile
<1>4. CASE Fails(w)
  <2>1. Held'  BY <1>0, <1>1, <1>4, FailsHeld DEF Smoothly, Fails, Fault
  <2>2. late' \in SUBSET [first : BOOLEAN, piece : Seq(Byte)]
    BY <1>1, <1>2, <1>4 DEF TransferInv, TransferTypeOK, Smoothly
  <2>3. file' \in MaybeFile /\ seen' \in SUBSET MaybeFile
    BY <1>1, <1>3, SetFileType DEF TransferInv, TransferTypeOK
  <2>. QED BY <1>0, <1>4, <2>1, <2>2, <2>3, FailsType DEF TransferInv, TransferTypeOK
<1>5. CASE /\ Smoothly(w) /\ SetFile(Write(Bytes, c))
           /\ SetThread(w, Advance(t, t.k + 1 < Chunks(t.data)))
  <2>. DEFINE u == Advance(t, t.k + 1 < Chunks(t.data))
  <2>1. u \in Thread /\ u.pc # "value"  BY <1>0, ThreadType DEF Advance, Thread
  <2>2. seen \subseteq seen' /\ file' \in seen'  BY <1>5 DEF SetFile
  <2>3. SetThread(w, u)  BY <1>5
  <2>. HIDE DEF u
  <2>4. Held'  BY <1>0, <2>1, <2>2, <2>3, WorkHeld
  <2>5. work' \in [Worker -> Thread]  BY <2>1, <2>3, SetThreadType DEF TransferInv
  <2>. QED BY <1>0, <1>3, <1>5, <2>4, <2>5, SetFileType, SmoothlyType
           DEF TransferInv, TransferTypeOK
<1>. QED BY <1>1, <1>4, <1>5

LEMMA FetchChunkKeeps == ASSUME TransferInv, NEW w \in Worker, FetchChunk(w) PROVE TransferInv'
<1>. DEFINE t == work[w]
            p == Piece(Bytes, t.k)
            u == Advance([t EXCEPT !.data = @ \o p], Len(p) >= Chunk)
<1>0. t \in Thread /\ t.pc = "fetch" /\ UNCHANGED <<file, out, cmd, edits, seen>>
  BY DEF FetchChunk, TransferInv, TransferTypeOK
<1>1. CASE Fails(w) /\ UNCHANGED late
  <2>1. Held'  BY <1>0, <1>1, FailsHeld
  <2>. QED BY <1>0, <1>1, <2>1, FailsType DEF TransferInv, TransferTypeOK
<1>2. CASE Smoothly(w) /\ SetThread(w, u)
  <2>1. t.data \in Seq(Byte) /\ t.k \in Nat  BY <1>0 DEF Thread
  <2>2. p \in Seq(Byte)  BY <2>1, BytesType, PieceType DEF TransferInv
  <2>3. t.data \o p \in Seq(Byte)
    <3>. HIDE DEF t, p
    <3>. QED BY <2>1, <2>2, ConcatProperties
  <2>4. [t EXCEPT !.data = @ \o p] \in Thread /\ [t EXCEPT !.data = @ \o p].pc = "fetch"
    BY <1>0, <2>3 DEF Thread
  <2>5. u \in Thread  BY <2>4, ThreadType
  <2>6. u.pc # "value"  BY <2>4 DEF Advance, Thread
  <2>7. cmd.pc # "rest" => file' \in seen'  BY <1>0 DEF TransferInv, Held
  <2>8. SetThread(w, u)  BY <1>2
  <2>. HIDE DEF u
  <2>9. Held'  BY <1>0, <2>5, <2>6, <2>7, <2>8, WorkHeld
  <2>10. work' \in [Worker -> Thread]  BY <2>5, <2>8, SetThreadType DEF TransferInv
  <2>. QED BY <1>0, <1>2, <2>9, <2>10, SmoothlyType DEF TransferInv, TransferTypeOK
<1>. QED BY <1>1, <1>2 DEF FetchChunk

\* The digest is what makes a value a version of the file.
LEMMA DigestKeeps == ASSUME TransferInv, NEW w \in Worker, Digest(w) PROVE TransferInv'
<1>. DEFINE t == work[w]
            u == [t EXCEPT !.pc = IF file = t.data THEN "value" ELSE "error"]
<1>0. t \in Thread /\ t.pc = "digest" /\ UNCHANGED <<file, out, cmd, edits, seen>>
  BY DEF Digest, TransferInv, TransferTypeOK
<1>1. CASE Fails(w) /\ UNCHANGED late
  <2>1. Held'  BY <1>0, <1>1, FailsHeld
  <2>. QED BY <1>0, <1>1, <2>1, FailsType DEF TransferInv, TransferTypeOK
<1>2. CASE Smoothly(w) /\ SetThread(w, u)
  <2>1. u \in Thread  BY <1>0, ThreadType
  <2>2. cmd.pc # "rest" => file' \in seen'  BY <1>0 DEF TransferInv, Held
  <2>3. ASSUME cmd.pc # "rest" PROVE Held'
    <3>1. u.pc = "value" => u.data \in seen'  BY <1>0, <2>2, <2>3 DEF Thread
    <3>2. SetThread(w, u)  BY <1>2
    <3>. HIDE DEF u
    <3>. QED BY <1>0, <2>1, <2>2, <3>1, <3>2, WorkHeld
  <2>4. ASSUME cmd.pc = "rest" PROVE Held'  BY <1>0, <2>4 DEF Held
  <2>5. Held'  BY <2>3, <2>4
  <2>6. work' \in [Worker -> Thread]  BY <1>2, <2>1, SetThreadType DEF TransferInv
  <2>. QED BY <1>0, <1>2, <2>5, <2>6, SmoothlyType DEF TransferInv, TransferTypeOK
<1>. QED BY <1>1, <1>2 DEF Digest

LEMMA LateWriteKeeps == ASSUME TransferInv, LateWrite PROVE TransferInv'
<1>1. PICK c \in late :
        /\ late' = late \ {c} /\ SetFile(Write(Bytes, c)) /\ clean' = FALSE
        /\ UNCHANGED <<out, cmd, work, faults, edits>>
  BY DEF LateWrite
<1>2. Write(Bytes, c) \in MaybeFile
  BY BytesType, WriteType DEF TransferInv, TransferTypeOK, MaybeFile
<1>3. Held'  BY <1>1, FileHeld
<1>. QED BY <1>1, <1>2, <1>3, SetFileType DEF TransferInv, TransferTypeOK

LEMMA EditKeeps == ASSUME TransferInv, Edit PROVE TransferInv'
<1>1. PICK s \in (Content \cup {Absent}) \ {file} : SetFile(s)  BY DEF Edit
<1>2. s \in MaybeFile  BY TransferAssumption DEF MaybeFile
<1>3. Held'  BY <1>1, FileHeld DEF Edit
<1>4. edits' \in 0 .. MaxEdits
  BY TransferAssumption DEF Edit, TransferInv, TransferTypeOK
<1>. QED BY <1>1, <1>2, <1>3, <1>4, SetFileType DEF Edit, TransferInv, TransferTypeOK

-----------------------------------------------------------------------------
(* The end of a pull.                                                      *)

LEMMA OpenOutKeeps == ASSUME TransferInv, OpenOut PROVE TransferInv'
<1>0. cmd.pc = "open" /\ UNCHANGED <<file, late, edits, seen>>  BY DEF OpenOut
<1>1. CASE Fault /\ End("failed") /\ Drop /\ UNCHANGED out
  BY <1>0, <1>1, EndType, EndHeld, DropType, FaultType DEF TransferInv, TransferTypeOK
<1>2. CASE /\ out' = <<>> /\ cmd' = [cmd EXCEPT !.pc = "write"]
           /\ UNCHANGED <<work, faults, clean>>
  <2>1. cmd' \in Command /\ cmd'.pc = "write" /\ cmd'.worker = cmd.worker /\ cmd'.kind = cmd.kind
    BY <1>2 DEF TransferInv, TransferTypeOK, Command
  <2>2. out' \in MaybeFile  BY <1>2 DEF MaybeFile
  <2>3. Held'  BY <1>0, <1>2, <2>1 DEF TransferInv, Held
  <2>. QED BY <1>0, <1>2, <2>1, <2>2, <2>3 DEF TransferInv, TransferTypeOK
<1>. QED BY <1>1, <1>2 DEF OpenOut

LEMMA WriteOutKeeps == ASSUME TransferInv, WriteOut PROVE TransferInv'
<1>0. cmd.pc = "write" /\ UNCHANGED <<file, late, edits, seen>>  BY DEF WriteOut
<1>1. CASE Fault /\ End("failed") /\ Drop /\ out' = Absent
  BY <1>0, <1>1, EndType, EndHeld, DropType, FaultType
     DEF TransferInv, TransferTypeOK, MaybeFile
<1>2. CASE /\ out' = Pulled /\ cmd' = [cmd EXCEPT !.pc = "check"]
           /\ UNCHANGED <<work, faults, clean>>
  <2>1. cmd' \in Command /\ cmd'.pc = "check" /\ cmd'.worker = cmd.worker /\ cmd'.kind = cmd.kind
    BY <1>2 DEF TransferInv, TransferTypeOK, Command
  <2>2. out' \in MaybeFile  BY <1>0, <1>2, WorkerType DEF MaybeFile, Pulled, Thread
  <2>3. Held'  BY <1>0, <1>2, <2>1 DEF TransferInv, Held, Pulled
  <2>. QED BY <1>0, <1>2, <2>1, <2>2, <2>3 DEF TransferInv, TransferTypeOK
<1>. QED BY <1>1, <1>2 DEF WriteOut

LEMMA CheckOutKeeps == ASSUME TransferInv, CheckOut PROVE TransferInv'
<1>1. cmd.pc # "rest" /\ work' \in [Worker -> Thread]  BY DropType DEF CheckOut
<1>2. cmd' \in Command /\ Held'  BY EndType, EndHeld DEF CheckOut, TransferInv
<1>3. out' \in MaybeFile  BY DEF CheckOut, TransferInv, TransferTypeOK, MaybeFile
<1>. QED BY <1>1, <1>2, <1>3 DEF CheckOut, TransferInv, TransferTypeOK

LEMMA InvNext == TransferInv /\ [TNext]_tvars => TransferInv'
<1>. SUFFICES ASSUME TransferInv, [TNext]_tvars PROVE TransferInv'  OBVIOUS
<1>1. ASSUME NEW w \in Worker,
             \/ StartPush(w) \/ StartPull(w) \/ Vanish(w)
             \/ SendChunk(w) \/ FetchChunk(w) \/ Digest(w)
      PROVE  TransferInv'
  BY <1>1, StartPushKeeps, StartPullKeeps, VanishKeeps, SendChunkKeeps, FetchChunkKeeps,
     DigestKeeps
<1>2. CASE Join \/ Overrun \/ Kill \/ LateWrite
  BY <1>2, JoinKeeps, OverrunKeeps, KillKeeps, LateWriteKeeps
<1>3. CASE OpenOut \/ WriteOut \/ CheckOut \/ Edit
  BY <1>3, OpenOutKeeps, WriteOutKeeps, CheckOutKeeps, EditKeeps
<1>4. CASE UNCHANGED tvars
  BY <1>4 DEF tvars, TransferInv, TransferTypeOK, Held, Pulled
<1>. QED BY <1>1, <1>2, <1>3, <1>4 DEF TNext

-----------------------------------------------------------------------------
(* A transfer nothing disturbs                                             *)

\* How far the thread of a command has come, chunk by chunk.
Progress(t) ==
  /\ cmd.kind = "push" =>
       /\ t.pc \in {"send", "digest", "value"}
       /\ t.pc = "send" =>
            t.k < Chunks(t.data) /\ (t.k # 0 => file = SubSeq(t.data, 1, t.k * Chunk))
       /\ t.pc = "digest" => file = t.data
  /\ cmd.kind = "pull" =>
       /\ t.pc \in {"fetch", "digest", "value", "error"}
       /\ t.pc = "fetch" =>
            t.k * Chunk <= Len(Bytes) /\ t.data = SubSeq(Bytes, 1, t.k * Chunk)
       /\ t.pc = "digest" => t.data = Bytes
       /\ t.pc = "error" => file = Absent

Undisturbed == clean /\ cmd.pc = "join" => Progress(work[cmd.worker])

\* Products with the chunk size.
LEMMA ChunkTimes ==
  ASSUME NEW k \in Nat
  PROVE  /\ k * Chunk \in Nat /\ (k + 1) * Chunk \in Nat
         /\ (k + 1) * Chunk = k * Chunk + Chunk
         /\ Chunk \in Nat /\ Chunk > 0
<1>1. Chunk \in Nat /\ Chunk > 0  BY TransferAssumption
<1>. QED BY <1>1

\* More chunks are no fewer bytes.
LEMMA ChunkMonotonic ==
  ASSUME NEW k \in Nat, NEW n \in Nat, k <= n PROVE k * Chunk <= n * Chunk
<1>1. Chunk \in Nat  BY TransferAssumption
<1>2. PICK d \in Nat : n = k + d
  <2>1. n - k \in Nat /\ n = k + (n - k)  OBVIOUS
  <2>. QED BY <2>1
<1>3. n * Chunk = k * Chunk + d * Chunk  BY <1>1, <1>2
<1>4. d * Chunk \in Nat /\ k * Chunk \in Nat  BY <1>1
<1>. QED BY <1>3, <1>4

\* All chunks but the last end within the payload, the last does not.
LEMMA ChunksBound ==
  ASSUME NEW s \in Seq(Byte)
  PROVE  /\ Chunks(s) \in Nat \ {0}
         /\ (Chunks(s) - 1) * Chunk <= Len(s) /\ Len(s) <= Chunks(s) * Chunk
<1>. DEFINE n == Len(s) + Chunk - 1
            q == n \div Chunk
<1>1. Chunk \in Nat /\ Chunk > 0 /\ Len(s) \in Nat  BY TransferAssumption
<1>2. CASE s = <<>>
  <2>1. Chunks(s) = 1 /\ Len(s) = 0  BY <1>2 DEF Chunks
  <2>. QED BY <1>1, <2>1
<1>3. CASE s # <<>>
  <2>1. Chunks(s) = q /\ Len(s) > 0 /\ n \in Nat /\ n >= Chunk
    BY <1>1, <1>3, EmptySeq DEF Chunks
  <2>. HIDE DEF n
  <2>2. q \in Nat /\ q * Chunk <= n /\ n < (q + 1) * Chunk
    BY <1>1, <2>1
  <2>3. q # 0  BY <1>1, <2>1, <2>2
  <2>4. (q - 1) * Chunk = q * Chunk - Chunk /\ (q + 1) * Chunk = q * Chunk + Chunk
        /\ q * Chunk \in Nat
    BY <1>1, <2>2
  <2>. HIDE DEF q
  <2>5. q * Chunk - Chunk <= Len(s) /\ Len(s) <= q * Chunk
    BY <1>1, <2>1, <2>2, <2>4 DEF n
  <2>. QED BY <2>1, <2>2, <2>3, <2>4, <2>5
<1>. QED BY <1>2, <1>3

\* The bytes before a piece, and the piece.
LEMMA PieceFollows ==
  ASSUME NEW s \in Seq(Byte), NEW k \in Nat, k * Chunk <= Len(s)
  PROVE  LET m == IF (k + 1) * Chunk < Len(s) THEN (k + 1) * Chunk ELSE Len(s)
         IN  /\ SubSeq(s, 1, k * Chunk) \o Piece(s, k) = SubSeq(s, 1, m)
             /\ Len(Piece(s, k)) = m - k * Chunk
<1>. DEFINE x == k * Chunk
            m == IF (k + 1) * Chunk < Len(s) THEN (k + 1) * Chunk ELSE Len(s)
<1>1. x \in Nat /\ Len(s) \in Nat /\ m \in Nat /\ x <= m /\ m <= Len(s)
  <2>. DEFINE y == (k + 1) * Chunk
  <2>1. y \in Nat /\ x \in Nat /\ x <= y /\ x <= Len(s)  BY ChunkTimes
  <2>2. m = IF y < Len(s) THEN y ELSE Len(s)  OBVIOUS
  <2>. HIDE DEF x, y, m
  <2>. QED BY <2>1, <2>2
<1>2. Piece(s, k) = SubSeq(s, x + 1, m)  BY DEF Piece
<1>. HIDE DEF x, m
<1>3. 1 \in 1 .. Len(s) + 1 /\ x \in 1 - 1 .. Len(s) /\ m \in x .. Len(s)  BY <1>1
<1>4. SubSeq(s, 1, x) \o SubSeq(s, x + 1, m) = SubSeq(s, 1, m)
  BY <1>3, ConcatAdjacentSubSeq
<1>5. Len(SubSeq(s, x + 1, m)) = m - x
  <2>1. \A i \in x + 1 .. m : s[i] \in Byte  BY <1>1
  <2>. QED BY <1>1, <2>1, SubSeqProperties
<1>. QED BY <1>2, <1>4, <1>5 DEF x, m

\* What push_bytes has written with one more chunk.
LEMMA PushStep ==
  ASSUME NEW s \in Seq(Byte), NEW k \in Nat, k < Chunks(s),
         NEW b, b = IF k = 0 THEN <<>> ELSE SubSeq(s, 1, k * Chunk)
  PROVE  b \o Piece(s, k) = IF k + 1 < Chunks(s) THEN SubSeq(s, 1, (k + 1) * Chunk) ELSE s
<1>. DEFINE n == Chunks(s)
            x == k * Chunk
            y == (k + 1) * Chunk
            m == IF y < Len(s) THEN y ELSE Len(s)
<1>1. n \in Nat \ {0} /\ (n - 1) * Chunk <= Len(s) /\ Len(s) <= n * Chunk /\ Len(s) \in Nat
  BY ChunksBound
<1>2. x \in Nat /\ y \in Nat  BY ChunkTimes
<1>3. x <= Len(s)
  <2>1. n - 1 \in Nat /\ k <= n - 1  BY <1>1
  <2>2. k * Chunk <= (n - 1) * Chunk  BY <2>1, ChunkMonotonic
  <2>3. (n - 1) * Chunk \in Nat  BY <2>1, ChunkTimes
  <2>. HIDE DEF n
  <2>. QED BY <1>1, <1>2, <2>2, <2>3
<1>4. k + 1 < n => y <= Len(s)
  <2>. SUFFICES ASSUME k + 1 < n PROVE y <= Len(s)  OBVIOUS
  <2>1. n - 1 \in Nat /\ k + 1 \in Nat /\ k + 1 <= n - 1  BY <1>1
  <2>2. y <= (n - 1) * Chunk  BY <2>1, ChunkMonotonic
  <2>3. (n - 1) * Chunk \in Nat  BY <2>1, ChunkTimes
  <2>. HIDE DEF n, y
  <2>. QED BY <1>1, <1>2, <2>2, <2>3
<1>5. ~ (k + 1 < n) => Len(s) <= y
  <2>1. ~ (k + 1 < n) => k + 1 = n  BY <1>1
  <2>. QED BY <1>1, <2>1
<1>6. SubSeq(s, 1, x) \o Piece(s, k) = SubSeq(s, 1, m)  BY <1>3, PieceFollows
<1>7. m = IF k + 1 < n THEN y ELSE Len(s)
  <2>. HIDE DEF n, y
  <2>. QED BY <1>1, <1>2, <1>4, <1>5
<1>8. SubSeq(s, 1, Len(s)) = s  BY SubSeqFull
<1>9. b = SubSeq(s, 1, x)
  <2>1. CASE k = 0
    <3>1. x = 0  BY <2>1, ChunkTimes
    <3>2. SubSeq(s, 1, 0) = <<>>  BY SubSeqEmpty
    <3>. QED BY <2>1, <3>1, <3>2
  <2>2. CASE k # 0  BY <2>2
  <2>. QED BY <2>1, <2>2
<1>. HIDE DEF m, n, x, y
<1>10. b \o Piece(s, k) = IF k + 1 < n THEN SubSeq(s, 1, y) ELSE s
  BY <1>6, <1>7, <1>8, <1>9
<1>. QED BY <1>10 DEF n, y

\* What pull_bytes has fetched with one more chunk.
LEMMA PullStep ==
  ASSUME NEW s \in Seq(Byte), NEW k \in Nat, k * Chunk <= Len(s)
  PROVE  IF Len(Piece(s, k)) >= Chunk
         THEN /\ (k + 1) * Chunk <= Len(s)
              /\ SubSeq(s, 1, k * Chunk) \o Piece(s, k) = SubSeq(s, 1, (k + 1) * Chunk)
         ELSE SubSeq(s, 1, k * Chunk) \o Piece(s, k) = s
<1>. DEFINE x == k * Chunk
            y == (k + 1) * Chunk
            m == IF y < Len(s) THEN y ELSE Len(s)
<1>1. x \in Nat /\ y = x + Chunk /\ Chunk \in Nat /\ Len(s) \in Nat  BY ChunkTimes
<1>2. /\ SubSeq(s, 1, x) \o Piece(s, k) = SubSeq(s, 1, m)
      /\ Len(Piece(s, k)) = m - x
  BY PieceFollows
<1>3. SubSeq(s, 1, Len(s)) = s  BY SubSeqFull
<1>. HIDE DEF x, y
<1>4. CASE Len(Piece(s, k)) >= Chunk
  <2>1. y <= Len(s) /\ m = y  BY <1>1, <1>2, <1>4
  <2>. QED BY <1>2, <1>4, <2>1 DEF x, y
<1>5. CASE ~ Len(Piece(s, k)) >= Chunk
  <2>1. m = Len(s)  BY <1>1, <1>2, <1>5
  <2>. QED BY <1>2, <1>3, <1>5, <2>1 DEF x, y
<1>. QED BY <1>4, <1>5

\* A command starts with nothing sent or fetched.
LEMMA StartProgress ==
  ASSUME TransferInv, NEW w \in Worker, StartPush(w) \/ StartPull(w)
  PROVE  Undisturbed'
<1>1. CASE StartPush(w)
  <2>1. PICK s \in Content :
          StartCommand(w, "push", Absent, [pc |-> "send", data |-> s, k |-> 0])
    BY <1>1 DEF StartPush
  <2>2. s \in Seq(Byte)  BY TransferAssumption
  <2>3. work'[w] = [pc |-> "send", data |-> s, k |-> 0] /\ cmd'.worker = w /\ cmd'.kind = "push"
    BY <2>1 DEF StartCommand, SetThread, Rest, TransferInv, TransferTypeOK
  <2>4. 0 < Chunks(s)  BY <2>2, ChunksBound
  <2>. QED BY <2>3, <2>4 DEF Undisturbed, Progress
<1>2. CASE StartPull(w)
  <2>1. PICK e \in Content \cup {Absent} :
          StartCommand(w, "pull", e, [pc |-> "fetch", data |-> <<>>, k |-> 0])
    BY <1>2 DEF StartPull
  <2>2. /\ work'[w] = [pc |-> "fetch", data |-> <<>>, k |-> 0] /\ cmd'.worker = w
        /\ cmd'.kind = "pull" /\ file' = file
    BY <2>1 DEF StartCommand, SetThread, Rest, TransferInv, TransferTypeOK
  <2>3. Bytes' = Bytes /\ Bytes \in Seq(Byte)
    BY <2>2, BytesType DEF Bytes, TransferInv
  <2>4. 0 * Chunk = 0 /\ 0 <= Len(Bytes)
    <3>1. Chunk \in Nat /\ Len(Bytes) \in Nat  BY <2>3, TransferAssumption
    <3>. QED BY <3>1
  <2>5. SubSeq(Bytes, 1, 0) = <<>>  BY <2>3, SubSeqEmpty
  <2>6. PICK u : u = work'[w]  OBVIOUS
  <2>7. u.pc = "fetch" /\ u.data = <<>> /\ u.k = 0  BY <2>2, <2>6
  <2>8. u.k * Chunk <= Len(Bytes') /\ u.data = SubSeq(Bytes', 1, u.k * Chunk)
    BY <2>3, <2>4, <2>5, <2>7
  <2>9. Progress(u)'  BY <2>2, <2>7, <2>8 DEF Progress
  <2>. QED BY <2>2, <2>6, <2>9 DEF Undisturbed, Progress
<1>. QED BY <1>1, <1>2

\* The thread of an undisturbed command is the only one to step.
LEMMA SmoothProgress ==
  ASSUME TransferInv, Undisturbed, NEW w \in Worker, Smoothly(w), clean', cmd.pc = "join"
  PROVE  w = cmd.worker /\ Progress(work[w])
  BY DEF Smoothly, Undisturbed

LEMMA SendProgress ==
  ASSUME TransferInv, Undisturbed, NEW w \in Worker, SendChunk(w), clean', cmd'.pc = "join"
  PROVE  Undisturbed'
<1>. DEFINE t == work[w]
            c == [first |-> t.k = 0, piece |-> Piece(t.data, t.k)]
            more == t.k + 1 < Chunks(t.data)
<1>1. t \in Thread /\ t.pc = "send" /\ UNCHANGED <<out, cmd, edits>>
  BY DEF SendChunk, TransferInv, TransferTypeOK
<1>2. Smoothly(w) /\ SetFile(Write(Bytes, c)) /\ SetThread(w, Advance(t, more))
  BY <1>1 DEF SendChunk, InFlight, Fails, Fault
<1>3. w = cmd.worker /\ Progress(t)  BY <1>1, <1>2, SmoothProgress
<1>4. cmd.kind = "push" /\ cmd'.kind = "push"
  BY <1>1, <1>3 DEF Progress, TransferInv, TransferTypeOK, Command
<1>5. /\ t.data \in Seq(Byte) /\ t.k \in Nat /\ t.k < Chunks(t.data)
      /\ t.k # 0 => file = SubSeq(t.data, 1, t.k * Chunk)
  BY <1>1, <1>3, <1>4 DEF Progress, Thread
<1>6. PICK b : b = IF t.k = 0 THEN <<>> ELSE SubSeq(t.data, 1, t.k * Chunk)  OBVIOUS
<1>7. b \o Piece(t.data, t.k)
        = IF more THEN SubSeq(t.data, 1, (t.k + 1) * Chunk) ELSE t.data
  <2>. HIDE DEF t
  <2>. QED BY <1>5, <1>6, PushStep
<1>8. file' = b \o Piece(t.data, t.k)
  <2>1. t.k # 0 => Bytes = b
    <3>1. Absent \notin Seq(Byte)  BY TransferAssumption
    <3>2. file \in Seq(Byte) \cup {Absent}  BY DEF TransferInv, TransferTypeOK, MaybeFile
    <3>3. ASSUME t.k # 0 PROVE file # Absent
      <4>1. \A i \in 1 .. t.k * Chunk : t.data[i] \in Byte
        <5>1. t.k <= Chunks(t.data) - 1 /\ Chunks(t.data) - 1 \in Nat  BY <1>5, ChunksBound
        <5>2. t.k * Chunk <= (Chunks(t.data) - 1) * Chunk
          <6>. HIDE DEF t
          <6>. QED BY <1>5, <5>1, ChunkMonotonic
        <5>3. (Chunks(t.data) - 1) * Chunk <= Len(t.data)  BY <1>5, ChunksBound
        <5>4. t.k * Chunk \in Nat /\ (Chunks(t.data) - 1) * Chunk \in Nat
          BY <1>5, <5>1, ChunkTimes
        <5>5. t.k * Chunk <= Len(t.data)
          <6>1. PICK p, q : p = t.k * Chunk /\ q = (Chunks(t.data) - 1) * Chunk  OBVIOUS
          <6>2. Len(t.data) \in Nat  BY <1>5
          <6>. QED BY <5>2, <5>3, <5>4, <6>1, <6>2
        <5>. HIDE DEF t
        <5>. QED BY <1>5, <5>4, <5>5
      <4>2. SubSeq(t.data, 1, t.k * Chunk) \in Seq(Byte)
        <5>. HIDE DEF t
        <5>1. t.k * Chunk \in Int
          <6>1. PICK x : x = t.k * Chunk  OBVIOUS
          <6>2. x \in Nat  BY <1>5, <6>1, ChunkTimes
          <6>. QED BY <6>1, <6>2
        <5>. QED BY <4>1, <5>1, SubSeqProperties
      <4>. QED BY <1>5, <3>1, <3>3, <4>2
    <3>. QED BY <1>5, <1>6, <3>3 DEF Bytes
  <2>2. file' = (IF t.k = 0 THEN <<>> ELSE Bytes) \o Piece(t.data, t.k)
    BY <1>2 DEF SetFile, Write
  <2>. QED BY <1>6, <2>1, <2>2
<1>9. PICK u : u = work'[w]  OBVIOUS
<1>10. /\ u.pc = IF more THEN "send" ELSE "digest"
       /\ u.data = t.data /\ u.k = t.k + 1
  BY <1>1, <1>2, <1>9 DEF SetThread, Advance, TransferInv, TransferTypeOK, Thread
<1>. HIDE DEF t, c
<1>11. Progress(u)'
  BY <1>4, <1>7, <1>8, <1>10 DEF Progress
<1>. QED BY <1>1, <1>3, <1>9, <1>11 DEF Undisturbed, Progress

LEMMA FetchProgress ==
  ASSUME TransferInv, Undisturbed, NEW w \in Worker, FetchChunk(w), clean', cmd'.pc = "join"
  PROVE  Undisturbed'
<1>. DEFINE t == work[w]
            p == Piece(Bytes, t.k)
<1>1. t \in Thread /\ t.pc = "fetch" /\ UNCHANGED <<file, out, cmd, edits, seen>>
  BY DEF FetchChunk, TransferInv, TransferTypeOK
<1>2. Smoothly(w) /\ SetThread(w, Advance([t EXCEPT !.data = @ \o p], Len(p) >= Chunk))
  BY <1>1 DEF FetchChunk, Fails, Fault
<1>3. w = cmd.worker /\ Progress(t)  BY <1>1, <1>2, SmoothProgress
<1>4. cmd.kind = "pull" /\ cmd'.kind = "pull"
  BY <1>1, <1>3 DEF Progress, TransferInv, TransferTypeOK, Command
<1>5. /\ t.k \in Nat /\ t.k * Chunk <= Len(Bytes) /\ t.data = SubSeq(Bytes, 1, t.k * Chunk)
      /\ Bytes \in Seq(Byte) /\ Bytes' = Bytes
  BY <1>1, <1>3, <1>4, BytesType DEF Progress, Thread, TransferInv, Bytes
<1>6. PICK u : u = work'[w]  OBVIOUS
<1>7. /\ u.pc = IF Len(p) >= Chunk THEN "fetch" ELSE "digest"
      /\ u.data = t.data \o p /\ u.k = t.k + 1
  BY <1>1, <1>2, <1>6 DEF SetThread, Advance, TransferInv, TransferTypeOK, Thread
<1>8. IF Len(p) >= Chunk
      THEN (t.k + 1) * Chunk <= Len(Bytes) /\ t.data \o p = SubSeq(Bytes, 1, (t.k + 1) * Chunk)
      ELSE t.data \o p = Bytes
  <2>. HIDE DEF t
  <2>. QED BY <1>5, PullStep
<1>. HIDE DEF t, p
<1>9. Progress(u)'
  BY <1>4, <1>5, <1>7, <1>8 DEF Progress
<1>. QED BY <1>1, <1>3, <1>6, <1>9 DEF Undisturbed, Progress, Bytes

LEMMA DigestProgress ==
  ASSUME TransferInv, Undisturbed, NEW w \in Worker, Digest(w), clean', cmd'.pc = "join"
  PROVE  Undisturbed'
<1>. DEFINE t == work[w]
<1>1. t \in Thread /\ t.pc = "digest" /\ UNCHANGED <<file, out, cmd, edits, seen>>
  BY DEF Digest, TransferInv, TransferTypeOK
<1>2. Smoothly(w) /\ SetThread(w, [t EXCEPT !.pc = IF file = t.data THEN "value" ELSE "error"])
  BY <1>1 DEF Digest, Fails, Fault
<1>3. w = cmd.worker /\ Progress(t) /\ cmd.kind \in {"push", "pull"}
  BY <1>1, <1>2, SmoothProgress DEF TransferInv, TransferTypeOK, Command
<1>4. PICK u : u = work'[w]  OBVIOUS
<1>5. u.pc = IF file = t.data THEN "value" ELSE "error"
  BY <1>1, <1>2, <1>4 DEF SetThread, TransferInv, TransferTypeOK, Thread
<1>6. CASE cmd.kind = "push"
  <2>1. u.pc = "value"  BY <1>1, <1>3, <1>5, <1>6 DEF Progress
  <2>2. Progress(u)'  BY <1>1, <1>6, <2>1 DEF Progress
  <2>. QED BY <1>1, <1>3, <1>4, <2>2 DEF Undisturbed, Progress, Bytes
<1>7. CASE cmd.kind = "pull"
  <2>1. u.pc = "value" \/ (u.pc = "error" /\ file = Absent)
    BY <1>1, <1>3, <1>5, <1>7 DEF Progress, Bytes
  <2>2. Progress(u)'  BY <1>1, <1>7, <2>1 DEF Progress
  <2>. QED BY <1>1, <1>3, <1>4, <2>2 DEF Undisturbed, Progress, Bytes
<1>. QED BY <1>3, <1>6, <1>7

LEMMA UndisturbedStep == TransferInv /\ Undisturbed /\ [TNext]_tvars => Undisturbed'
<1>. SUFFICES ASSUME TransferInv, Undisturbed, [TNext]_tvars, clean', cmd'.pc = "join"
              PROVE  Undisturbed'
  BY DEF Undisturbed
<1>1. ASSUME NEW w \in Worker, StartPush(w) \/ StartPull(w) PROVE Undisturbed'
  BY <1>1, StartProgress
<1>2. ASSUME NEW w \in Worker, SendChunk(w) \/ FetchChunk(w) \/ Digest(w) PROVE Undisturbed'
  BY <1>2, SendProgress, FetchProgress, DigestProgress
<1>3. ASSUME NEW w \in Worker, Vanish(w) PROVE Undisturbed'
  <2>1. UNCHANGED <<file, cmd, clean>> /\ work' = [work EXCEPT ![w] = NoThread] /\ w # cmd.worker
    BY <1>3 DEF Vanish, SetThread
  <2>2. work'[cmd.worker] = work[cmd.worker]
    BY <2>1, WorkerType DEF TransferInv, TransferTypeOK
  <2>. QED BY <2>1, <2>2 DEF Undisturbed, Progress, Bytes
<1>4. ~ (Overrun \/ Kill \/ LateWrite \/ Edit)
  BY DEF Overrun, Kill, LateWrite, Edit, Fault
<1>5. ~ End("ok") /\ ~ End("failed")
  BY DEF End, Rest
<1>6. ~ Join
  BY <1>5 DEF Join, TransferInv, TransferTypeOK, Command
<1>7. ~ (OpenOut \/ WriteOut \/ CheckOut)
  BY <1>5 DEF OpenOut, WriteOut, CheckOut, TransferInv, TransferTypeOK, Command
<1>8. CASE UNCHANGED tvars
  BY <1>8 DEF tvars, Undisturbed, Progress, Bytes
<1>. QED BY <1>1, <1>2, <1>3, <1>4, <1>6, <1>7, <1>8 DEF TNext

-----------------------------------------------------------------------------
(* The theorems                                                            *)

\* Every variable keeps its type; Held is never broken.
THEOREM TransferInvariance == TSpec => []TransferInv
<1>1. TInit => TransferInv  BY InvInit
<1>2. TransferInv /\ [TNext]_tvars => TransferInv'  BY InvNext
<1>. QED BY <1>1, <1>2, PTL DEF TSpec

\* Types (the variables of Transfer).
THEOREM TransferTypeCorrect == TSpec => []TransferTypeOK
<1>1. TransferInv => TransferTypeOK  BY DEF TransferInv
<1>. QED BY <1>1, TransferInvariance, PTL

\* proxmox.push_bytes, pull_bytes: a transfer that has succeeded has carried one
\* version of the guest's file, for every length and every chunk size.
THEOREM TransfersCarryWhole == TSpec => []CarriedWhole
<1>1. TransferInv => CarriedWhole  BY DEF TransferInv, Held, CarriedWhole
<1>. QED BY <1>1, TransferInvariance, PTL

\* transfer.cmd_pull: a failed pull leaves the local file alone or removes it, a
\* successful one has left one version of the guest's file, the one asked for.
THEOREM PullsAreAllOrNothing == TSpec => PullAllOrNothing
<1>. DEFINE A == cmd.pc # "rest" /\ cmd.kind = "pull" /\ cmd'.pc = "rest" =>
       /\ cmd'.outcome \in {"failed", "overrun"} => out' \in {cmd.before, Absent}
       /\ cmd'.outcome = "ok" => out' \in seen /\ cmd.expected \in {Absent, out'}
<1>1. TransferInv /\ [TNext]_tvars => A
  <2>. SUFFICES ASSUME TransferInv, [TNext]_tvars, cmd.pc # "rest", cmd.kind = "pull",
                       cmd'.pc = "rest"
                PROVE  A
    OBVIOUS
  <2>0. cmd' # cmd  OBVIOUS
  <2>1. CASE Join
    <3>1. End("failed") /\ UNCHANGED out /\ cmd.pc = "join"
      BY <2>1 DEF Join, TransferInv, TransferTypeOK, Command
    <3>. QED BY <3>1 DEF End, Rest, TransferInv, Held
  <2>2. CASE Overrun
    BY <2>2 DEF Overrun, End, Rest, TransferInv, Held
  <2>3. CASE Kill  BY <2>3 DEF Kill, End, Rest
  <2>4. CASE OpenOut
    <3>1. End("failed") /\ UNCHANGED out /\ cmd.pc = "open"
      BY <2>4 DEF OpenOut, TransferInv, TransferTypeOK, Command
    <3>. QED BY <3>1 DEF End, Rest, TransferInv, Held
  <2>5. CASE WriteOut
    <3>1. End("failed") /\ out' = Absent
      BY <2>5 DEF WriteOut, TransferInv, TransferTypeOK, Command
    <3>. QED BY <3>1 DEF End, Rest
  <2>6. CASE CheckOut
    <3>1. out = Pulled /\ Pulled \in seen
      BY <2>6 DEF CheckOut, TransferInv, Held, Pulled
    <3>2. CASE cmd.expected \in {Absent, Pulled} /\ End("ok") /\ UNCHANGED out
      BY <3>1, <3>2 DEF End, Rest
    <3>3. CASE End("failed") /\ out' = Absent  BY <3>3 DEF End, Rest
    <3>. QED BY <2>6, <3>2, <3>3 DEF CheckOut
  <2>7. ASSUME NEW w \in Worker,
               \/ StartPush(w) \/ StartPull(w) \/ Vanish(w)
               \/ SendChunk(w) \/ FetchChunk(w) \/ Digest(w)
        PROVE  A
    BY <2>0, <2>7
       DEF StartPush, StartPull, StartCommand, Vanish, SendChunk, FetchChunk, Digest
  <2>8. CASE LateWrite \/ Edit \/ UNCHANGED tvars
    BY <2>0, <2>8 DEF LateWrite, Edit, tvars
  <2>. HIDE DEF A
  <2>. QED BY <2>1, <2>2, <2>3, <2>4, <2>5, <2>6, <2>7, <2>8 DEF TNext
<1>. QED BY <1>1, TransferInvariance, PTL DEF TSpec, PullAllOrNothing

\* proxmox.push_bytes, pull_bytes: a transfer nothing disturbs does not fail,
\* unless there is no file to pull: the chunking is exact for payloads of every
\* length, any chunk size and whatever an earlier push has left.
THEOREM UndisturbedSucceeds == TSpec => []CleanTransferSucceeds
<1>1. TInit => Undisturbed  BY DEF TInit, Rest, Undisturbed
<1>2. TransferInv /\ Undisturbed /\ [TNext]_tvars => Undisturbed'  BY UndisturbedStep
<1>3. TransferInv /\ Undisturbed => CleanTransferSucceeds
  BY DEF TransferInv, TransferTypeOK, Command, Undisturbed, Progress, CleanTransferSucceeds
<1>. QED BY <1>1, <1>2, <1>3, TransferInvariance, PTL DEF TSpec
=============================================================================
