------------------------------ MODULE GcInstall ------------------------------
(***************************************************************************)
(* gc install and gc uninstall (gc.py): the collector's script on the host *)
(* and its lines in root's crontab, which other people edit as well. Every *)
(* ssh call is one step; a call may fail, or work and fail to say so.      *)
(***************************************************************************)
EXTENDS Integers, Sequences, SequencesExt

CONSTANTS
  Admin,     \* commands that may run at once
  Version,   \* the scripts of the releases in use
  UserLine,  \* crontab lines of others, among them
  Foreign,   \* those with bytes that are no UTF-8
  Broken,    \* those with a character inside that splitlines() ends a line at
  Torn,      \* what such lines come back as
  None, Partial,
  MaxFaults, \* bound on failing calls and on killed commands
  MaxEdits   \* bound on edits of the crontab by others

OwnLine == {"marker", "line", "line-auto"}

ASSUME InstallAssumption ==
  /\ {None, Partial} \cap Version = {} /\ None # Partial
  /\ Foreign \subseteq UserLine /\ Broken \subseteq UserLine
  /\ UserLine \cap OwnLine = {} /\ Torn \notin UserLine \cup OwnLine
  /\ None \notin Seq(UserLine \cup OwnLine \cup {Torn})
  /\ MaxFaults \in Nat /\ MaxEdits \in Nat

VARIABLES
  crontab,   \* root's, a sequence of lines, or None
  script,    \* at SCRIPT_INSTALL_PATH
  staged,    \* at SCRIPT_STAGING_PATH
  stateDir,
  proc,      \* the commands
  faults, edits,
  users,     \* history: the lines others have put there
  spoilt     \* history: what excuses a command or has come between two

ivars == <<crontab, script, staged, stateDir, proc, faults, edits, users, spoilt>>

OthersLine == UserLine \cup {Torn}
Line == OthersLine \cup OwnLine

Idle == [cmd |-> "install", pc |-> "idle", version |-> None, auto |-> FALSE,
         read |-> None, found |-> None, outcome |-> "none"]

Commands ==
  [cmd : {"install", "uninstall"},
   pc : {"idle", "look", "tee", "copy", "sweep", "dir", "list", "write", "remove"},
   version : Version \cup {None}, auto : BOOLEAN,
   read : Seq(Line) \cup {None},                    \* existing
   found : Version \cup {None, Partial},            \* remote
   outcome : {"none", "ok", "failed"}]

InstTypeOK ==
  /\ crontab \in Seq(Line) \cup {None}
  /\ script \in Version \cup {None, Partial}
  /\ staged \in Version \cup {None, Partial}
  /\ stateDir \in BOOLEAN
  /\ proc \in [Admin -> Commands]
  /\ faults \in 0 .. MaxFaults /\ edits \in 0 .. MaxEdits
  /\ users \in Seq(OthersLine) /\ spoilt \subseteq {"unread", "overlap", "edit"}

Lines(c) == IF c = None THEN <<>> ELSE c

\* The members of S in a sequence, in order (SelectSeq, for one kind of test).
Only(S, s) ==
  LET kept[i \in 0 .. Len(s)] ==
        IF i = 0 THEN <<>>
        ELSE IF s[i] \in S THEN Append(kept[i - 1], s[i]) ELSE kept[i - 1]
  IN kept[Len(s)]

\* A sequence with its lines in S torn.
Tear(S, s) == [i \in DOMAIN s |-> IF s[i] \in S THEN Torn ELSE s[i]]

\* _text: what is no UTF-8 is replaced.
Decoded(c) == IF c = None THEN None ELSE Tear(Foreign, c)

\* text.splitlines(), each written back with a newline.
SplitLines(c) == Tear(Broken, c)

Users(c) == Only(OthersLine, Lines(c))
Owns(c)  == Only(OwnLine, Lines(c))

Block(auto) == <<"marker", IF auto THEN "line-auto" ELSE "line">>

\* No collector, one above the lines of others, or one installed twice.
IInit ==
  /\ users \in {<<>>} \cup {<<u>> : u \in UserLine}
  /\ \/ script = None /\ crontab \in {None, users} /\ Users(crontab) = users
     \/ /\ script \in Version
        /\ crontab \in {Block(FALSE) \o users, Block(FALSE) \o users \o Block(TRUE)}
  /\ staged = None /\ stateDir = (script # None)
  /\ proc = [a \in Admin |-> Idle]
  /\ faults = 0 /\ edits = 0 /\ spoilt = {}

-----------------------------------------------------------------------------
Goto(a, pc)     == proc' = [proc EXCEPT ![a].pc = pc]
End(a, outcome) == proc' = [proc EXCEPT ![a] = [Idle EXCEPT !.outcome = outcome]]
Fault           == faults < MaxFaults /\ faults' = faults + 1

\* A call that changes x to y: done, not done, or done without an answer.
Call(a, x, xnext, y, pc) ==
  \/ xnext = y /\ Goto(a, pc) /\ UNCHANGED faults
  \/ Fault /\ xnext \in {x, y} /\ End(a, "failed")

Begin(a, p) ==
  /\ proc[a].pc = "idle" /\ proc' = [proc EXCEPT ![a] = p]
  /\ spoilt' = IF \A b \in Admin : proc[b].pc = "idle" THEN spoilt
               ELSE spoilt \cup {"overlap"}
  /\ UNCHANGED <<crontab, script, staged, stateDir, faults, edits, users>>

BeginInstall(a) ==
  \E v \in Version, auto \in BOOLEAN :
    Begin(a, [Idle EXCEPT !.pc = "look", !.version = v, !.auto = auto])

\* Mutant of BeginUninstall: the script goes first.
UninstallScriptFirst(a) ==
  Begin(a, [Idle EXCEPT !.cmd = "uninstall", !.pc = "look"])

BeginUninstall(a) == Begin(a, [Idle EXCEPT !.cmd = "uninstall", !.pc = "list"])

\* A read leads to `seen`; without an answer in time it ends the command; when it
\* exits non-zero that is taken for "there is none" and leads to `blank`.
Read(a, is, seen, blank) ==
  \/ proc' = [proc EXCEPT ![a] = seen] /\ UNCHANGED <<faults, spoilt>>
  \/ /\ Fault
     /\ \/ End(a, "failed") /\ UNCHANGED spoilt
        \/ /\ proc' = [proc EXCEPT ![a] = blank]
           /\ spoilt' = IF is = None THEN spoilt ELSE spoilt \cup {"unread"}

\* _remote_script
Look(a) ==
  LET p == proc[a]
      Seen(s) ==
        IF p.cmd = "uninstall" THEN [p EXCEPT !.found = s, !.pc = "remove"]
        ELSE [p EXCEPT !.pc = IF s = p.version THEN "dir" ELSE "tee"] IN
  /\ p.pc = "look" /\ Read(a, script, Seen(script), Seen(None))
  /\ UNCHANGED <<crontab, script, staged, stateDir, edits, users>>

-----------------------------------------------------------------------------
(* install                                                                 *)

\* Mutant of Stage: the staged copy is never whole.
StageBadly(a) ==
  /\ proc[a].pc = "tee" /\ staged' = "bad" /\ Goto(a, "copy")
  /\ UNCHANGED <<crontab, script, stateDir, faults, edits, users, spoilt>>

Stage(a) ==
  /\ proc[a].pc = "tee"
  /\ \/ Call(a, staged, staged', proc[a].version, "copy")
     \/ Fault /\ staged' = Partial /\ End(a, "failed")
  /\ UNCHANGED <<crontab, script, stateDir, edits, users, spoilt>>

\* install -m 0755 writes in place: it can fail halfway. It copies what is
\* staged, and fails if nothing is.
CopyScript(a) ==
  /\ proc[a].pc = "copy"
  /\ \/ staged # None /\ Call(a, script, script', staged, "sweep")
     \/ staged # None /\ Fault /\ script' = Partial /\ End(a, "failed")
     \/ staged = None /\ End(a, "failed") /\ UNCHANGED <<script, faults>>
  /\ UNCHANGED <<crontab, staged, stateDir, edits, users, spoilt>>

\* The staged copy goes; that it could not be removed is reported nowhere, that
\* the call got no answer ends the command.
SweepStaged(a) ==
  /\ proc[a].pc = "sweep"
  /\ \/ staged' = None /\ Goto(a, "dir") /\ UNCHANGED faults
     \/ Fault /\ staged' \in {staged, None} /\ (Goto(a, "dir") \/ End(a, "failed"))
  /\ UNCHANGED <<crontab, script, stateDir, edits, users, spoilt>>

EnsureStateDir(a) ==
  /\ proc[a].pc = "dir" /\ Call(a, stateDir, stateDir', TRUE, "list")
  /\ UNCHANGED <<crontab, script, staged, edits, users, spoilt>>

-----------------------------------------------------------------------------
(* The crontab, read whole and written back whole.                         *)

\* Mutant of Stripped: only the marker goes.
StrippedOfMarker(c) == Only(Line \ {"marker"}, c)

\* Mutant of Stripped: everything below the marker goes.
StrippedFromMarker(c) ==
  SubSeq(c, 1, (IF \E i \in DOMAIN c : c[i] = "marker"
                THEN CHOOSE i \in DOMAIN c : c[i] = "marker" ELSE Len(c) + 1) - 1)

\* _strip_own_block: every marker and every line that names the script.
Stripped(c) == Only(Line \ OwnLine, c)

\* What is written for what was read: the rest, and of install the block below.
Desired(p, c) ==
  Stripped(SplitLines(Lines(c)))
    \o (IF p.cmd = "install" THEN Block(p.auto) ELSE <<>>)

\* install is content with the crontab it would write (_ensure_crontab),
\* uninstall with one that has no line of the collector's (had_block).
Content(p, c) ==
  IF p.cmd = "install" THEN c = Desired(p, c) ELSE Owns(c) = <<>>

ListCrontab(a) ==
  LET p == proc[a]
      Seen(c) ==
        IF ~Content(p, c) THEN [p EXCEPT !.read = c, !.pc = "write"]
        ELSE IF p.cmd = "install" THEN [Idle EXCEPT !.outcome = "ok"]
        ELSE [p EXCEPT !.pc = "look"] IN
  /\ p.pc = "list" /\ Read(a, crontab, Seen(Decoded(crontab)), Seen(None))
  /\ UNCHANGED <<crontab, script, staged, stateDir, edits, users>>

WriteCrontab(a) ==
  LET p == proc[a] IN
  /\ p.pc = "write"
  /\ \/ /\ crontab' = Desired(p, p.read) /\ UNCHANGED faults
        /\ IF p.cmd = "install" THEN End(a, "ok") ELSE Goto(a, "look")
     \/ Fault /\ crontab' \in {crontab, Desired(p, p.read)} /\ End(a, "failed")
  /\ UNCHANGED <<script, staged, stateDir, edits, users, spoilt>>

-----------------------------------------------------------------------------
\* uninstall: rm -f of both files; a failure counts if there was a script.
RemoveScript(a) ==
  /\ proc[a].pc = "remove"
  /\ \/ script' = None /\ staged' = None /\ End(a, "ok") /\ UNCHANGED faults
     \/ /\ Fault /\ script' \in {script, None} /\ staged' \in {staged, None}
        /\ End(a, IF proc[a].found = None THEN "ok" ELSE "failed")
     \/ /\ Fault /\ script' \in {script, None} /\ staged' \in {staged, None}
        /\ End(a, "failed")
  /\ UNCHANGED <<crontab, stateDir, edits, users, spoilt>>

Kill(a) ==
  /\ proc[a].pc # "idle" /\ Fault /\ End(a, "failed")
  /\ UNCHANGED <<crontab, script, staged, stateDir, edits, users, spoilt>>

\* Somebody adds a line at the end or removes one; own lines stay.
EditCrontab ==
  /\ edits < MaxEdits /\ edits' = edits + 1
  /\ \/ \E u \in UserLine : crontab' = Append(Lines(crontab), u)
     \/ \E i \in DOMAIN Lines(crontab) :
          crontab[i] \in OthersLine /\ crontab' = RemoveAt(crontab, i)
  /\ users' = Users(crontab')
  /\ spoilt' = IF \A a \in Admin : proc[a].pc # "write" THEN spoilt
               ELSE spoilt \cup {"edit"}
  /\ UNCHANGED <<script, staged, stateDir, proc, faults>>

INext ==
  \/ \E a \in Admin :
       \/ BeginInstall(a) \/ BeginUninstall(a) \/ Look(a)
       \/ Stage(a) \/ CopyScript(a) \/ SweepStaged(a) \/ EnsureStateDir(a)
       \/ ListCrontab(a) \/ WriteCrontab(a) \/ RemoveScript(a) \/ Kill(a)
  \/ EditCrontab

ISpec == IInit /\ [][INext]_ivars

-----------------------------------------------------------------------------
(* Properties                                                              *)

Spoilt(by) == spoilt \cap by # {}

\* A sequence with every line torn that a rewrite may tear.
Rewritten(s) == Tear(Foreign \cup Broken, s)

\* gc.install and uninstall: no rewrite loses, adds or moves a line of others, nor
\* alters one that decodes and holds no other line break, whichever calls fail
\* and however many commands overlap; unless the crontab could not be read, or
\* was edited between the read and the write.
UserLinesSurvive ==
  Spoilt({"unread", "edit"}) \/ Rewritten(Users(crontab)) = Rewritten(users)

\* gc.install, gc.uninstall: cron never runs a script that is not there: install
\* brings the script first, uninstall takes the lines first, and a command that
\* dies halfway leaves it so; unless the crontab could not be read or two
\* commands worked at once.
LineHasScript ==
  Spoilt({"unread", "overlap"}) \/ (Owns(crontab) # <<>> => script # None)

\* gc.install, gc.uninstall: a command that reports success has left exactly its
\* block and its script, or nothing of either, whatever failed commands left
\* before it.
SuccessIsWhole ==
  [][\A a \in Admin :
       /\ proc[a].pc # "idle" /\ proc'[a].pc = "idle" /\ proc'[a].outcome = "ok"
       /\ ~Spoilt({"unread", "overlap"})
       => IF proc[a].cmd = "install"
          THEN /\ script' = proc[a].version /\ stateDir'
               /\ Owns(crontab') = Block(proc[a].auto)
          ELSE script' = None /\ Owns(crontab') = <<>>]_ivars
=============================================================================
