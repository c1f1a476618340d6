---------------------------- MODULE McpProtocol ----------------------------
(***************************************************************************)
(* What the MCP server promises whoever writes to its stdin: every request *)
(* line gets exactly one answer, notifications and blank lines get none,   *)
(* answers come in the order of the requests and carry their id, and as    *)
(* long as the server lives no request waits for ever.                     *)
(***************************************************************************)
EXTENDS McpCalls, Sequences

CONSTANT Message

VARIABLES
  lines,    \* what the client has written, line by line
  served,   \* how many of them are dealt with
  answers,  \* what the server has written
  alive

protocolvars == <<lines, served, answers, alive>>

ProtocolInit == lines = <<>> /\ served = 0 /\ answers = <<>> /\ alive = TRUE

\* Broken lines are answered under the id null, written 0 here.
IdOf(k, m) == IF m.form = "object" THEN k ELSE 0

AllowedCodes(m) ==
  IF IsCall(m) THEN {"result", "invalid params", "internal error"} ELSE {PlainCode(m)}

Writes(m) ==
  /\ lines' = Append(lines, m)
  /\ UNCHANGED <<served, answers, alive>>

ServesNext ==
  /\ alive /\ served < Len(lines)
  /\ served' = served + 1
  /\ LET k == served + 1
         m == lines[served + 1] IN
     IF Answered(m)
     THEN \E c \in AllowedCodes(m) : answers' = Append(answers, [id |-> IdOf(k, m), code |-> c])
     ELSE UNCHANGED answers
  /\ UNCHANGED <<lines, alive>>

Dies == alive /\ alive' = FALSE /\ UNCHANGED <<lines, served, answers>>

ProtocolNext == (\E m \in Message : Writes(m)) \/ ServesNext \/ Dies

ProtocolSafety == ProtocolInit /\ [][ProtocolNext]_protocolvars

ProtocolSpec == ProtocolSafety /\ WF_protocolvars(ServesNext)
=============================================================================
