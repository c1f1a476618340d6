------------------------------ MODULE McpProofs ------------------------------
(***************************************************************************)
(* Proofs about the MCP server, for conversations of every length, any set *)
(* of lines and any set of leases. What needs fairness (that a request is  *)
(* answered in the end, that an idle host is noticed) stays with TLC.      *)
(***************************************************************************)
EXTENDS McpServer, TLAPS

-----------------------------------------------------------------------------
(* The inductive invariant.                                                *)

\* A call is under way exactly between BeginCall and SendAnswer, and the line
\* it came in is the next to be served.
CallUnderWay == pc \in {"run", "close", "answer"} => served < read /\ IsCall(Current)

\* A handler runs only for arguments that passed every check.
ChecksPassed ==
  pc = "run" => ~ParamsError(Current.call.name, Current.call.args)

\* A call ends in one of three codes.
OutcomeOfCall ==
  pc \in {"close", "answer"} => outcome \in {"result", "invalid params", "internal error"}

\* The clock that a call has touched has not run out.
TouchedIsRecent == ~rested => clock = "recent"

MInv ==
  /\ McpTypeOK
  /\ CallUnderWay
  /\ ChecksPassed
  /\ OutcomeOfCall
  /\ TouchedIsRecent
  /\ ConfinedDuringCalls
  /\ LongTermNeedsConfirm

\* The code of a line that is no call is one of the codes.
LEMMA PlainCodes == ASSUME NEW m PROVE PlainCode(m) \in Codes
  BY DEF PlainCode, Codes

\* A line once written stays where it is.
LEMMA LinesStay ==
  ASSUME lines \in Seq(Message), NEW m \in Message, lines' = Append(lines, m)
  PROVE  /\ lines' \in Seq(Message)
         /\ Len(lines') = Len(lines) + 1
         /\ \A k \in 1 .. Len(lines) : lines'[k] = lines[k]
  OBVIOUS

\* Dealing with a line that has been read keeps the answers well-formed.
LEMMA AnswerTyped ==
  ASSUME McpTypeOK, served < read, NEW m, NEW code \in Codes, AnswerWith(m, code)
  PROVE  answers' \in Seq([id : Nat, code : Codes]) /\ served' \in 0 .. read
  <1>1. served' \in 0 .. read
    BY DEF McpTypeOK, AnswerWith
  <1> DEFINE a == [id |-> IF m.form = "object" THEN served + 1 ELSE 0, code |-> code]
  <1>2. a \in [id : Nat, code : Codes]
    BY DEF McpTypeOK
  <1>3. answers' = answers \/ answers' = Append(answers, a)
    BY DEF AnswerWith
  <1>4. answers \in Seq([id : Nat, code : Codes])
    BY DEF McpTypeOK
  <1> DEFINE R == [id : Nat, code : Codes]
  <1> HIDE DEF a, R
  <1>5. answers' \in Seq(R)
    <2>1. a \in R /\ answers \in Seq(R)
      BY <1>2, <1>4 DEF R
    <2>2. QED
      BY ONLY <1>3, <2>1
  <1>6. QED
    BY <1>1, <1>5 DEF R

\* A line the server has taken and not dealt with is one that was written.
LEMMA NextIsWritten ==
  ASSUME McpTypeOK, served < read
  PROVE  served + 1 \in 1 .. Len(lines)
  <1>1. served \in Nat /\ read \in Nat /\ Len(lines) \in Nat /\ read <= Len(lines)
    BY DEF McpTypeOK
  <1>2. QED
    BY <1>1

\* Faults are counted up to their bound.
LEMMA FaultCounted ==
  ASSUME McpTypeOK, McpAssumption, Fault \/ UNCHANGED faults
  PROVE  faults' \in 0 .. MaxFaults /\ (Fault => faults' # faults)
  BY DEF McpTypeOK, McpAssumption, Fault

\* The invariant holds when the server starts.
THEOREM InvInit == McpInit => MInv
  <1> SUFFICES ASSUME McpInit PROVE MInv
    OBVIOUS
  <1> USE McpAssumption DEF McpInit, McpAssumption
  <1>1. McpTypeOK
    <2>1. lines \in Seq(Message) /\ answers \in Seq([id : Nat, code : Codes])
      <3>1. lines = <<>> /\ answers = <<>>
        OBVIOUS
      <3>2. \A S : <<>> \in Seq(S)
        OBVIOUS
      <3>3. QED
        BY ONLY <3>1, <3>2
    <2>2. read \in 0 .. Len(lines) /\ served \in 0 .. read
      OBVIOUS
    <2>3. outcome \in Codes
      BY DEF Codes
    <2>4. lease \in [Lease -> {"none", "open", "expired", "ended"}]
      <3>1. \A S, T : S \subseteq T => [Lease -> S] \subseteq [Lease -> T]
        OBVIOUS
      <3>2. lease \in [Lease -> {"none", "open", "expired"}]
        OBVIOUS
      <3>3. QED
        BY <3>2
    <2>5. /\ half \in BOOLEAN /\ closed \in BOOLEAN /\ partial \in BOOLEAN /\ alive \in BOOLEAN
          /\ rested \in BOOLEAN /\ confined \in BOOLEAN
      OBVIOUS
    <2>6. /\ pc \in {"select", "split", "run", "close", "answer"}
          /\ clock \in {"none", "recent", "quiet"} /\ host \in {"on", "off"}
          /\ faults \in 0 .. MaxFaults
      OBVIOUS
    <2>7. QED
      BY ONLY <2>1, <2>2, <2>3, <2>4, <2>5, <2>6 DEF McpTypeOK
  <1>2. CallUnderWay /\ ChecksPassed /\ OutcomeOfCall /\ TouchedIsRecent
    BY DEF CallUnderWay, ChecksPassed, OutcomeOfCall, TouchedIsRecent
  <1>3. ConfinedDuringCalls
    BY DEF ConfinedDuringCalls
  <1>4. LongTermNeedsConfirm
    BY DEF LongTermNeedsConfirm
  <1>5. QED
    BY <1>1, <1>2, <1>3, <1>4 DEF MInv

-----------------------------------------------------------------------------
(* Every step preserves it.                                                *)

LEMMA WriteBeginningKeeps == ASSUME MInv, WriteBeginning PROVE MInv'
  <1> USE McpAssumption DEF McpAssumption, MInv, WriteBeginning, ClientOnly
  <1>1. McpTypeOK'
    BY DEF McpTypeOK
  <1>2. CallUnderWay' /\ ChecksPassed' /\ OutcomeOfCall'
    BY DEF McpTypeOK, CallUnderWay, ChecksPassed, OutcomeOfCall, Current
  <1>3. TouchedIsRecent'
    BY DEF TouchedIsRecent
  <1>4. ConfinedDuringCalls'
    BY DEF ConfinedDuringCalls, Current
  <1>5. LongTermNeedsConfirm'
    BY DEF LongTermNeedsConfirm
  <1>6. QED
    BY <1>1, <1>2, <1>3, <1>4, <1>5

LEMMA CloseStdinKeeps == ASSUME MInv, CloseStdin PROVE MInv'
  <1> USE McpAssumption DEF McpAssumption, MInv, CloseStdin, ClientOnly
  <1>1. McpTypeOK'
    BY DEF McpTypeOK
  <1>2. CallUnderWay' /\ ChecksPassed' /\ OutcomeOfCall'
    BY DEF McpTypeOK, CallUnderWay, ChecksPassed, OutcomeOfCall, Current
  <1>3. TouchedIsRecent'
    BY DEF TouchedIsRecent
  <1>4. ConfinedDuringCalls'
    BY DEF ConfinedDuringCalls, Current
  <1>5. LongTermNeedsConfirm'
    BY DEF LongTermNeedsConfirm
  <1>6. QED
    BY <1>1, <1>2, <1>3, <1>4, <1>5

LEMMA ReadKeeps == ASSUME MInv, Read PROVE MInv'
  <1> USE McpAssumption DEF McpAssumption, MInv, Read, Readable, stream, replies, lab
  <1>1. McpTypeOK'
    BY DEF McpTypeOK
  <1>2. CallUnderWay' /\ ChecksPassed' /\ OutcomeOfCall'
    BY DEF McpTypeOK, CallUnderWay, ChecksPassed, OutcomeOfCall, Current
  <1>3. TouchedIsRecent'
    BY DEF TouchedIsRecent
  <1>4. ConfinedDuringCalls'
    BY DEF ConfinedDuringCalls, Current
  <1>5. LongTermNeedsConfirm'
    BY DEF LongTermNeedsConfirm
  <1>6. QED
    BY <1>1, <1>2, <1>3, <1>4, <1>5

LEMMA NoLineKeeps == ASSUME MInv, NoLine PROVE MInv'
  <1> USE McpAssumption DEF McpAssumption, MInv, NoLine, stream, reader, replies, lab
  <1>1. McpTypeOK'
    BY DEF McpTypeOK
  <1>2. CallUnderWay' /\ ChecksPassed' /\ OutcomeOfCall'
    BY DEF McpTypeOK, CallUnderWay, ChecksPassed, OutcomeOfCall, Current
  <1>3. TouchedIsRecent'
    BY DEF TouchedIsRecent
  <1>4. ConfinedDuringCalls'
    BY DEF ConfinedDuringCalls, Current
  <1>5. LongTermNeedsConfirm'
    BY DEF LongTermNeedsConfirm
  <1>6. QED
    BY <1>1, <1>2, <1>3, <1>4, <1>5

LEMMA EndOfFileKeeps == ASSUME MInv, EndOfFile PROVE MInv'
  <1> USE McpAssumption DEF McpAssumption, MInv, EndOfFile, stream, reader, replies, lab
  <1>1. McpTypeOK'
    BY DEF McpTypeOK
  <1>2. CallUnderWay' /\ ChecksPassed' /\ OutcomeOfCall'
    BY DEF McpTypeOK, CallUnderWay, ChecksPassed, OutcomeOfCall, Current
  <1>3. TouchedIsRecent'
    BY DEF TouchedIsRecent
  <1>4. ConfinedDuringCalls'
    BY DEF ConfinedDuringCalls, Current
  <1>5. LongTermNeedsConfirm'
    BY DEF LongTermNeedsConfirm
  <1>6. QED
    BY <1>1, <1>2, <1>3, <1>4, <1>5

LEMMA WakeKeeps == ASSUME MInv, Wake PROVE MInv'
  <1> USE McpAssumption DEF McpAssumption, MInv, Wake, stream, reader, replies, Sweep, Fault, Due
  <1>1. McpTypeOK'
    BY DEF McpTypeOK
  <1>2. CallUnderWay' /\ ChecksPassed' /\ OutcomeOfCall'
    BY DEF McpTypeOK, CallUnderWay, ChecksPassed, OutcomeOfCall, Current
  <1>3. TouchedIsRecent'
    BY DEF TouchedIsRecent
  <1>4. ConfinedDuringCalls'
    BY DEF ConfinedDuringCalls, Current
  <1>5. LongTermNeedsConfirm'
    BY DEF LongTermNeedsConfirm
  <1>6. QED
    BY <1>1, <1>2, <1>3, <1>4, <1>5

LEMMA HandleLineKeeps == ASSUME MInv, HandleLine PROVE MInv'
  <1> USE McpAssumption DEF McpAssumption, MInv, HandleLine, stream, reader, lab
  <1>1. McpTypeOK'
    <2>1. PlainCode(Current) \in Codes
      BY PlainCodes
    <2>2. answers' \in Seq([id : Nat, code : Codes]) /\ served' \in 0 .. read
      BY <2>1, AnswerTyped DEF McpTypeOK
    <2>3. QED
      BY <2>2 DEF McpTypeOK
  <1>2. CallUnderWay' /\ ChecksPassed' /\ OutcomeOfCall'
    BY DEF McpTypeOK, CallUnderWay, ChecksPassed, OutcomeOfCall, Current
  <1>3. TouchedIsRecent'
    BY DEF TouchedIsRecent
  <1>4. ConfinedDuringCalls'
    BY DEF ConfinedDuringCalls, Current
  <1>5. LongTermNeedsConfirm'
    BY DEF LongTermNeedsConfirm
  <1>6. QED
    BY <1>1, <1>2, <1>3, <1>4, <1>5

LEMMA BeginCallKeeps == ASSUME MInv, BeginCall PROVE MInv'
  <1> USE McpAssumption DEF McpAssumption, MInv, BeginCall, stream, reader, replies, Fault
  <1>1. McpTypeOK'
    <2>1. confined' \in BOOLEAN /\ outcome' \in Codes /\ pc' \in {"run", "close"}
      BY DEF McpTypeOK, Codes
    <2>2. clock' \in {"none", "recent", "quiet"} /\ rested' \in BOOLEAN
      BY DEF McpTypeOK
    <2>3. faults' \in 0 .. MaxFaults
      BY FaultCounted
    <2>4. QED
      BY <2>1, <2>2, <2>3 DEF McpTypeOK
  <1>2. CallUnderWay' /\ ChecksPassed' /\ OutcomeOfCall'
    BY DEF McpTypeOK, CallUnderWay, ChecksPassed, OutcomeOfCall, Current
  <1>3. TouchedIsRecent'
    <2>1. CASE clock' = "recent"
      BY <2>1 DEF TouchedIsRecent
    <2>2. CASE Fault /\ UNCHANGED clock
      <3>1. faults' # faults
        BY <2>2, FaultCounted DEF McpTypeOK
      <3>2. rested' = (faults' # faults)
        OBVIOUS
      <3>3. QED
        BY <3>1, <3>2 DEF TouchedIsRecent
    <2>3. QED
      BY <2>1, <2>2
  <1>4. ConfinedDuringCalls'
    BY DEF ConfinedDuringCalls, Current
  <1>5. LongTermNeedsConfirm'
    BY DEF LongTermNeedsConfirm
  <1>6. QED
    BY <1>1, <1>2, <1>3, <1>4, <1>5

LEMMA CloseCallKeeps == ASSUME MInv, CloseCall PROVE MInv'
  <1> USE McpAssumption DEF McpAssumption, MInv, CloseCall, stream, reader, replies,
         Sweep, Fault, Due
  <1>1. McpTypeOK'
    BY DEF McpTypeOK
  <1>2. CallUnderWay' /\ ChecksPassed' /\ OutcomeOfCall'
    BY DEF McpTypeOK, CallUnderWay, ChecksPassed, OutcomeOfCall, Current
  <1>3. TouchedIsRecent'
    BY DEF TouchedIsRecent
  <1>4. ConfinedDuringCalls'
    BY DEF ConfinedDuringCalls, Current
  <1>5. LongTermNeedsConfirm'
    BY DEF LongTermNeedsConfirm
  <1>6. QED
    BY <1>1, <1>2, <1>3, <1>4, <1>5

LEMMA SendAnswerKeeps == ASSUME MInv, SendAnswer PROVE MInv'
  <1> USE McpAssumption DEF McpAssumption, MInv, SendAnswer, stream, reader, lab
  <1>1. McpTypeOK'
    <2>1. served < read
      BY DEF CallUnderWay
    <2>2. answers' \in Seq([id : Nat, code : Codes]) /\ served' \in 0 .. read
      BY <2>1, AnswerTyped DEF McpTypeOK
    <2>3. QED
      BY <2>2 DEF McpTypeOK
  <1>2. CallUnderWay' /\ ChecksPassed' /\ OutcomeOfCall'
    BY DEF McpTypeOK, CallUnderWay, ChecksPassed, OutcomeOfCall, Current
  <1>3. TouchedIsRecent'
    BY DEF TouchedIsRecent
  <1>4. ConfinedDuringCalls'
    BY DEF ConfinedDuringCalls, Current
  <1>5. LongTermNeedsConfirm'
    BY DEF LongTermNeedsConfirm
  <1>6. QED
    BY <1>1, <1>2, <1>3, <1>4, <1>5

LEMMA KilledKeeps == ASSUME MInv, Killed PROVE MInv'
  <1> USE McpAssumption DEF McpAssumption, MInv, Killed, stream, reader, replies, lab
  <1>1. McpTypeOK'
    BY DEF McpTypeOK
  <1>2. CallUnderWay' /\ ChecksPassed' /\ OutcomeOfCall'
    BY DEF McpTypeOK, CallUnderWay, ChecksPassed, OutcomeOfCall, Current
  <1>3. TouchedIsRecent'
    BY DEF TouchedIsRecent
  <1>4. ConfinedDuringCalls'
    BY DEF ConfinedDuringCalls, Current
  <1>5. LongTermNeedsConfirm'
    BY DEF LongTermNeedsConfirm
  <1>6. QED
    BY <1>1, <1>2, <1>3, <1>4, <1>5

LEMMA GoesQuietKeeps == ASSUME MInv, GoesQuiet PROVE MInv'
  <1> USE McpAssumption DEF McpAssumption, MInv, GoesQuiet, Outside, stream, reader, replies
  <1>1. McpTypeOK'
    BY DEF McpTypeOK
  <1>2. CallUnderWay' /\ ChecksPassed' /\ OutcomeOfCall'
    BY DEF McpTypeOK, CallUnderWay, ChecksPassed, OutcomeOfCall, Current
  <1>3. TouchedIsRecent'
    BY DEF TouchedIsRecent
  <1>4. ConfinedDuringCalls'
    BY DEF ConfinedDuringCalls, Current
  <1>5. LongTermNeedsConfirm'
    BY DEF LongTermNeedsConfirm
  <1>6. QED
    BY <1>1, <1>2, <1>3, <1>4, <1>5

LEMMA ElsewhereKeeps == ASSUME MInv, Elsewhere PROVE MInv'
  <1> USE McpAssumption DEF McpAssumption, MInv, Elsewhere, Outside, stream, reader, replies,
         Standing
  <1>1. McpTypeOK'
    BY DEF McpTypeOK
  <1>2. CallUnderWay' /\ ChecksPassed' /\ OutcomeOfCall'
    BY DEF McpTypeOK, CallUnderWay, ChecksPassed, OutcomeOfCall, Current
  <1>3. TouchedIsRecent'
    BY DEF TouchedIsRecent
  <1>4. ConfinedDuringCalls'
    BY DEF ConfinedDuringCalls, Current
  <1>5. LongTermNeedsConfirm'
    BY DEF LongTermNeedsConfirm
  <1>6. QED
    BY <1>1, <1>2, <1>3, <1>4, <1>5

\* A new line changes nothing about the lines the server has taken.
LEMMA WriteLineKeeps == ASSUME MInv, WriteLine PROVE MInv'
  <1> USE McpAssumption DEF McpAssumption, MInv, ClientOnly
  <1>1. PICK m \in Message : lines' = Append(lines, m)
    BY DEF WriteLine
  <1>2. /\ lines' \in Seq(Message)
        /\ Len(lines') = Len(lines) + 1
        /\ \A k \in 1 .. Len(lines) : lines'[k] = lines[k]
    BY <1>1, LinesStay DEF McpTypeOK
  <1>3. UNCHANGED <<closed, read, partial, served, answers, alive, pc, outcome,
                    clock, rested, confined, lease, host, faults>> /\ half' = FALSE
    BY DEF WriteLine
  <1>4. Len(lines) \in Nat /\ served \in Nat /\ read \in 0 .. Len(lines)
    BY DEF McpTypeOK
  <1>5. McpTypeOK'
    <2>1. lines' \in Seq(Message) /\ read' \in 0 .. Len(lines')
      BY <1>2, <1>3, <1>4
    <2>2. QED
      BY <2>1, <1>3 DEF McpTypeOK
  <1>6. served < read => Current' = Current
    BY <1>2, <1>3, <1>4 DEF Current
  <1>7. CallUnderWay' /\ ChecksPassed' /\ OutcomeOfCall'
    BY <1>3, <1>6 DEF CallUnderWay, ChecksPassed, OutcomeOfCall
  <1>8. TouchedIsRecent'
    BY <1>3 DEF TouchedIsRecent
  <1>9. ConfinedDuringCalls'
    BY <1>3, <1>6 DEF ConfinedDuringCalls, CallUnderWay
  <1>10. LongTermNeedsConfirm'
    <2>1. SUFFICES ASSUME NEW l \in LongTerm, lease[l] = "ended"
                   PROVE  \E k \in 1 .. Len(lines') :
                             IsCall(lines'[k]) /\ SaysYes(lines'[k].call.args)
      BY <1>3 DEF LongTermNeedsConfirm
    <2>2. PICK k \in 1 .. Len(lines) : IsCall(lines[k]) /\ SaysYes(lines[k].call.args)
      BY <2>1 DEF LongTermNeedsConfirm
    <2>3. k \in 1 .. Len(lines') /\ lines'[k] = lines[k]
      BY <1>2, <1>4
    <2>4. QED
      BY <2>2, <2>3
  <1>11. QED
    BY <1>5, <1>7, <1>8, <1>9, <1>10

-----------------------------------------------------------------------------
(* The handlers: which long-term lease a call can end.                     *)

\* A teardown of leases that are not long-term, or of one after a confirm.
LEMMA TearDownTyped ==
  ASSUME McpTypeOK, McpAssumption, NEW torn \in SUBSET Lease, NEW own, NEW all, NEW code,
         TearDown(torn, own, all, code)
  PROVE  /\ lease' \in [Lease -> {"none", "open", "expired", "ended"}]
         /\ host' \in {"on", "off"}
         /\ \A l \in Lease \ torn : lease'[l] = lease[l]
  <1>1. PICK failed \in SUBSET torn :
          lease' = [l \in Lease |-> IF l \in failed THEN Failed(l)
                                    ELSE IF l \in torn THEN "ended" ELSE lease[l]]
    BY DEF TearDown
  <1>2. \A l \in Lease : lease[l] \in {"none", "open", "expired", "ended"}
    BY DEF McpTypeOK
  <1>3. \A l \in Lease : Failed(l) \in {"none", "open", "expired", "ended"}
    BY <1>2 DEF Failed
  <1>4. lease' \in [Lease -> {"none", "open", "expired", "ended"}]
    BY <1>1, <1>2, <1>3
  <1>5. host' \in {"on", "off"}
    BY DEF TearDown, MaySwitchOff, McpTypeOK
  <1>6. \A l \in Lease \ torn : lease'[l] = lease[l]
    BY <1>1
  <1>7. QED
    BY <1>4, <1>5, <1>6

\* An effect keeps the leases and the host well-formed, and a long-term lease
\* it ends was ended by lease_destroy.
LEMMA EffectOnLeases ==
  ASSUME McpTypeOK, NEW name, NEW args, NEW code, Effect(name, args, code)
  PROVE  /\ lease' \in [Lease -> {"none", "open", "expired", "ended"}]
         /\ host' \in {"on", "off"}
         /\ name # "lease_destroy"
              => \A l \in LongTerm : lease'[l] = "ended" => lease[l] = "ended"
  <1> USE McpAssumption DEF McpAssumption
  <1>1. CASE name = "lease_begin" /\ BeginEffect(args)
    BY <1>1 DEF BeginEffect, McpTypeOK
  <1>2. CASE name = "lease_end" /\ CloseEffect(args["lease"].val, Lease \ LongTerm, code)
    <2> DEFINE l == args["lease"].val
    <2>1. l \in Lease \ LongTerm /\ TearDown({l}, {l}, TRUE, code)
      BY <1>2 DEF CloseEffect
    <2> HIDE DEF l
    <2>2. /\ lease' \in [Lease -> {"none", "open", "expired", "ended"}]
          /\ host' \in {"on", "off"}
          /\ \A k \in Lease \ {l} : lease'[k] = lease[k]
      BY <2>1, TearDownTyped
    <2>3. QED
      BY <2>1, <2>2
  <1>3. CASE name = "lease_destroy" /\ CloseEffect(args["lease"].val, LongTerm, code)
    <2> DEFINE l == args["lease"].val
    <2>1. l \in Lease /\ TearDown({l}, {l}, TRUE, code)
      BY <1>3 DEF CloseEffect
    <2> HIDE DEF l
    <2>2. QED
      BY <1>3, <2>1, TearDownTyped
  <1>4. CASE name = "cleanup_expired" /\ TearDown(Sweepable(args), {}, Flag(args, "all"), code)
    <2> DEFINE torn == Sweepable(args)
    <2>1. torn \in SUBSET Lease /\ torn \cap LongTerm = {}
      BY DEF Sweepable
    <2> HIDE DEF torn
    <2>2. TearDown(torn, {}, Flag(args, "all"), code)
      BY <1>4 DEF torn
    <2>3. /\ lease' \in [Lease -> {"none", "open", "expired", "ended"}]
          /\ host' \in {"on", "off"}
          /\ \A k \in Lease \ torn : lease'[k] = lease[k]
      BY <2>1, <2>2, TearDownTyped
    <2>4. QED
      BY <2>1, <2>3
  <1>5. CASE NoEffect
    BY <1>5 DEF NoEffect, McpTypeOK
  <1>6. QED
    BY <1>1, <1>2, <1>3, <1>4, <1>5 DEF Effect

\* A lease_destroy that runs has passed the confirm gate.
LEMMA DestroyIsConfirmed ==
  ASSUME NEW args, ~ParamsError("lease_destroy", args)
  PROVE  SaysYes(args)
  BY DEF ParamsError, ConfirmTools, Confirmed, SaysYes

LEMMA RunCallKeeps == ASSUME MInv, RunCall PROVE MInv'
  <1> USE McpAssumption DEF McpAssumption, MInv
  <1> DEFINE name == Current.call.name
             args == Current.call.args
  <1>1. /\ pc = "run" /\ pc' = "close" /\ confined' = FALSE
        /\ UNCHANGED <<lines, half, closed, read, partial, served, answers, alive,
                       clock, rested, faults>>
    BY DEF RunCall, stream, reader, replies
  <1>2. PICK code \in {"result", "internal error"} :
          /\ outcome' = code
          /\ Effect(name, args, code) \/ NoEffect
    BY DEF RunCall
  <1>3. /\ lease' \in [Lease -> {"none", "open", "expired", "ended"}]
        /\ host' \in {"on", "off"}
        /\ name # "lease_destroy"
             => \A l \in LongTerm : lease'[l] = "ended" => lease[l] = "ended"
    <2>1. CASE Effect(name, args, code)
      BY <2>1, EffectOnLeases
    <2>2. CASE NoEffect
      BY <2>2 DEF NoEffect, McpTypeOK
    <2>3. QED
      BY <1>2, <2>1, <2>2
  <1>4. McpTypeOK'
    BY <1>1, <1>2, <1>3 DEF McpTypeOK, Codes
  <1>5. Current' = Current
    BY <1>1 DEF Current
  <1>6. CallUnderWay' /\ ChecksPassed' /\ OutcomeOfCall'
    BY <1>1, <1>2, <1>5 DEF CallUnderWay, ChecksPassed, OutcomeOfCall
  <1>7. TouchedIsRecent'
    BY <1>1 DEF TouchedIsRecent
  <1>8. ConfinedDuringCalls'
    BY <1>1 DEF ConfinedDuringCalls
  <1>9. LongTermNeedsConfirm'
    <2>1. CASE name = "lease_destroy"
      <3>1. SaysYes(args)
        BY <1>1, <2>1, DestroyIsConfirmed DEF ChecksPassed
      <3>2. served + 1 \in 1 .. Len(lines) /\ IsCall(lines[served + 1])
        <4>1. served < read /\ IsCall(lines[served + 1])
          BY <1>1 DEF CallUnderWay, Current
        <4>2. QED
          BY <4>1, NextIsWritten
      <3>3. QED
        BY <1>1, <3>1, <3>2 DEF LongTermNeedsConfirm, Current
    <2>2. CASE name # "lease_destroy"
      BY <1>1, <1>3, <2>2 DEF LongTermNeedsConfirm
    <2>3. QED
      BY <2>1, <2>2
  <1>10. QED
    BY <1>4, <1>6, <1>7, <1>8, <1>9

LEMMA StutterKeeps == ASSUME MInv, UNCHANGED mcpvars PROVE MInv'
  <1> USE DEF MInv, mcpvars
  <1>1. McpTypeOK'
    BY DEF McpTypeOK
  <1> OutcomeOfCall' /\ TouchedIsRecent'
    BY DEF OutcomeOfCall, TouchedIsRecent
  <1>2. CallUnderWay' /\ ChecksPassed' /\ ConfinedDuringCalls'
    BY DEF CallUnderWay, ChecksPassed, ConfinedDuringCalls, Current
  <1>3. LongTermNeedsConfirm'
    BY DEF LongTermNeedsConfirm
  <1>4. QED
    BY <1>1, <1>2, <1>3

\* No step leaves the invariant.
LEMMA InvNext == MInv /\ [McpNext]_mcpvars => MInv'
  BY WriteBeginningKeeps, WriteLineKeeps, CloseStdinKeeps, ReadKeeps, NoLineKeeps,
     EndOfFileKeeps, WakeKeeps, HandleLineKeeps, BeginCallKeeps, RunCallKeeps,
     CloseCallKeeps, SendAnswerKeeps, KilledKeeps, GoesQuietKeeps, ElsewhereKeeps,
     StutterKeeps DEF McpNext

-----------------------------------------------------------------------------
(* Theorems.                                                               *)

\* The invariant holds throughout every conversation.
THEOREM Invariance == McpSpec => []MInv
  BY InvInit, InvNext, PTL DEF McpSpec

\* Type correctness: the server is never ahead of its input, and answers with
\* one of the six codes.
THEOREM McpTypeCorrect == McpSpec => []McpTypeOK
  <1>1. MInv => McpTypeOK
    BY DEF MInv
  <1>2. QED
    BY <1>1, Invariance, PTL

\* Transfers are confined exactly while a handler runs (_invoke).
THEOREM Confinement == McpSpec => []ConfinedDuringCalls
  <1>1. MInv => ConfinedDuringCalls
    BY DEF MInv
  <1>2. QED
    BY <1>1, Invariance, PTL

\* No sequence of lines, however long, ends a long-term lease without a call
\* whose confirm is literally true (_lease_destroy).
THEOREM ConfirmGate == McpSpec => []LongTermNeedsConfirm
  <1>1. MInv => LongTermNeedsConfirm
    BY DEF MInv
  <1>2. QED
    BY <1>1, Invariance, PTL

\* Neither the sweep that closes a call nor one of the self-wake powers the host
\* off before the idle time has passed since the call began (_idle_sweep).
THEOREM SweepsHeldOff == McpSpec => CallsHoldOffSweeps
  <1>1. MInv /\ [McpNext]_mcpvars
          => [(pc \in {"close", "select"} /\ host' # host) => rested]_mcpvars
    <2> SUFFICES ASSUME MInv, McpNext, pc \in {"close", "select"}, host' # host
                 PROVE  rested
      OBVIOUS
    <2>1. CloseCall \/ Wake
      BY DEF McpNext, WriteBeginning, WriteLine, CloseStdin, ClientOnly, Read, NoLine,
         EndOfFile, HandleLine, BeginCall, RunCall, SendAnswer, Killed, GoesQuiet,
         Elsewhere, Outside, lab
    <2>2. clock = "quiet"
      BY <2>1 DEF CloseCall, Wake, Sweep, Due
    <2>3. QED
      BY <2>2 DEF MInv, McpTypeOK, TouchedIsRecent
  <1>2. QED
    BY <1>1, Invariance, PTL DEF McpSpec, CallsHoldOffSweeps

-----------------------------------------------------------------------------
(* The refinement: the server takes only the steps that its promise to the *)
(* client allows. That a request is answered in the end needs fairness.    *)

LEMMA InitPromised == McpInit => Promise!ProtocolInit
  BY DEF McpInit, Promise!ProtocolInit

\* Dealing with a line is one step of the promise.
LEMMA AnswerPromised ==
  ASSUME McpTypeOK, alive, served < read, NEW code \in Promise!AllowedCodes(Current),
         AnswerWith(Current, code), UNCHANGED <<lines, alive>>
  PROVE  Promise!ServesNext
  <1>1. served < Len(lines) /\ served' = served + 1
    BY DEF McpTypeOK, AnswerWith
  <1>2. CASE Answered(Current)
    BY <1>1, <1>2 DEF AnswerWith, Promise!ServesNext, Promise!IdOf, Current,
       Promise!Answered, Answered
  <1>3. CASE ~Answered(Current)
    BY <1>1, <1>3 DEF AnswerWith, Promise!ServesNext, Promise!Answered, Answered, Current
  <1>4. QED
    BY <1>2, <1>3

\* Every step of the server is a step of the promise or changes nothing of it.
LEMMA StepPromised ==
  MInv /\ [McpNext]_mcpvars => [Promise!ProtocolNext]_(Promise!protocolvars)
  <1> SUFFICES ASSUME MInv, [McpNext]_mcpvars
               PROVE  Promise!ProtocolNext \/ UNCHANGED <<lines, served, answers, alive>>
    BY DEF Promise!protocolvars
  <1>1. CASE WriteLine
    BY <1>1 DEF WriteLine, ClientOnly, Promise!ProtocolNext, Promise!Writes
  <1>2. CASE HandleLine
    <2>1. PlainCode(Current) \in Promise!AllowedCodes(Current)
      <3>1. ~Promise!IsCall(Current)
        BY <1>2 DEF HandleLine, Promise!IsCall, IsCall
      <3>2. Promise!PlainCode(Current) = PlainCode(Current)
        BY DEF Promise!PlainCode, PlainCode
      <3>3. QED
        BY <3>1, <3>2 DEF Promise!AllowedCodes
    <2>2. QED
      BY <1>2, <2>1, AnswerPromised
         DEF HandleLine, MInv, stream, Promise!ProtocolNext
  <1>3. CASE SendAnswer
    <2>1. outcome \in Promise!AllowedCodes(Current) /\ served < read
      BY <1>3 DEF SendAnswer, MInv, OutcomeOfCall, CallUnderWay, Promise!AllowedCodes,
         Promise!IsCall, IsCall
    <2>2. QED
      BY <1>3, <2>1, AnswerPromised
         DEF SendAnswer, MInv, stream, Promise!ProtocolNext
  <1>4. CASE EndOfFile \/ Killed
    BY <1>4 DEF EndOfFile, Killed, stream, replies, Promise!ProtocolNext, Promise!Dies
  <1>5. CASE UNCHANGED mcpvars
    BY <1>5 DEF mcpvars
  <1>6. CASE WriteBeginning \/ CloseStdin \/ Read \/ NoLine \/ Wake \/ BeginCall \/ RunCall
               \/ CloseCall \/ GoesQuiet \/ Elsewhere
    BY <1>6 DEF WriteBeginning, CloseStdin, ClientOnly, Read, NoLine, Wake, BeginCall,
       RunCall, CloseCall, GoesQuiet, Elsewhere, Outside, stream, replies
  <1>7. QED
    BY <1>1, <1>2, <1>3, <1>4, <1>5, <1>6 DEF McpNext

\* Exactly one answer for every request, none for a notification, in order
\* and under the request's id: the safety half of ImplementsProtocol.
THEOREM SafetyRefinement == McpSpec => Promise!ProtocolSafety
  BY InitPromised, StepPromised, Invariance, PTL DEF McpSpec, Promise!ProtocolSafety
=============================================================================
