------------------------------ MODULE Console ------------------------------
(***************************************************************************)
(* The commands that act inside one running qemu guest: the console        *)
(* commands (console.py), guest run and media, memory writes and traffic   *)
(* captures. Several clients, each a command at a time, each command a     *)
(* sequence of calls over ssh that name the guest by its vmid. They share  *)
(* the guest's pointer and buttons, the one host file every capture        *)
(* overwrites, and the calibration store.                                  *)
(***************************************************************************)
EXTENDS Calibration, Sequences

CONSTANTS
  Requests,    \* the commands issued in this scenario
  MaxBegun,    \* bound on the commands of a scenario
  MaxFaults,   \* bound on monitor calls that fail and commands that die
  MaxChanges   \* bound on changes of resolution and of the guest's owner

CommandNames == {"move", "click", "drag", "keys", "run", "screenshot",
                 "start", "commit"}
Places == {"inside", "edge", "shown"}

\* A command, as far as the properties tell commands apart: whether it asks
\* the lease, the points it resolves, the looks it takes at the guest that
\* may make it refuse, and the clicks, calls or frames it makes.
Request(cmd, owned, places, looks, times) ==
  [cmd |-> cmd, owned |-> owned, places |-> places, looks |-> looks, times |-> times]

Move(place)    == Request("move", TRUE, <<place>>, 0, 1)
Click(place, clicks) == Request("click", TRUE, <<place>>, 0, clicks)
Drag(from, to) == Request("drag", TRUE, <<from, to>>, 0, 1)
Type(chars)    == Request("keys", TRUE, <<>>, 0, chars)
Keys(names)    == Request("keys", TRUE, <<>>, 0, names)
Run            == Request("run", TRUE, <<>>, 0, 1)
Media(slots)   == Request("run", TRUE, <<>>, 0, slots)
MemoryRead     == Request("run", TRUE, <<>>, 1, 1)
MemoryWrite    == Request("run", TRUE, <<>>, 1, 1)
Traffic        == Request("run", TRUE, <<>>, 2, 1)
Screenshot     == Request("screenshot", FALSE, <<>>, 0, 1)
Burst(frames)  == Request("screenshot", FALSE, <<>>, 0, frames)
Start          == Request("start", FALSE, <<>>, 0, 1)
Commit         == Request("commit", FALSE, <<>>, 0, 1)

ASSUME ConsoleAssumption ==
  /\ Requests \subseteq [cmd : CommandNames, owned : BOOLEAN, places : Seq(Places),
                          looks : Nat, times : Nat]
  /\ \A r \in Requests :
       /\ Len(r.places) = CASE r.cmd = "drag" -> 2 [] r.cmd \in {"move", "click"} -> 1
                            [] OTHER -> 0
       /\ r.cmd \in {"move", "click", "drag", "keys", "run"} => r.owned
  /\ MaxBegun \in Nat /\ MaxFaults \in Nat /\ MaxChanges \in Nat

VARIABLES
  size,     \* the resolution the guest's display has
  owner,    \* whose guest answers to the vmid: "ours" or "theirs"
  pointer,  \* where the tablet points
  button,   \* whether the guest sees a mouse button held down
  shot,     \* /tmp/pxl-shot-<vmid>.ppm: the size of the frame in it, 0 if there
            \* is none, and the commands it is not older than
  begun, faults, changes,
  overlap,  \* history: two commits have been under way at once
  cl        \* client -> its running command

guestvars == <<size, owner, pointer, button>>
budget    == <<begun, faults, changes>>
convars   == <<calvars, guestvars, shot, budget, overlap, cl>>

PcNames == {"idle", "dump", "fetch", "point", "press", "release", "hop", "look",
            "call", "capture", "image", "open", "write", "replace"}
Input   == {"point", "press", "release", "hop", "call"}
Saving  == {"open", "write", "replace"}

\* A point in a coordinate space; the pixel its client means by it and the
\* size of the image that client looks at.
Point == [space : {"framebuffer", "image"}, x : Nat, meant : Nat, view : Size]

Command ==
  [pc      : PcNames,
   cmd     : CommandNames \cup {"none"},
   asked   : Seq(Point),                \* points still to be resolved
   path    : Seq(Nat),                  \* resolved ones
   looks   : Nat,                       \* looks at the guest to come
   left    : Nat,                       \* clicks, calls or frames to come
   at      : Size \cup {0},             \* the size the command has read
   reading : Reading \cup {NoReading},  \* of the client's last markers
   doc     : Document,                  \* what a commit is about to write
   changed : BOOLEAN,   \* history: the display has changed since the first look
   evicted : BOOLEAN]   \* history: the lease has lost the guest since the gate

AtRest == [pc |-> "idle", cmd |-> "none", asked |-> <<>>, path |-> <<>>, looks |-> 0,
           left |-> 0, at |-> 0, reading |-> NoReading, doc |-> Empty, changed |-> FALSE,
           evicted |-> FALSE]

\* A client that may have measured before, at the size the display has now,
\* and a store that may hold one fit, good or bad.
Before(s) == [grid : {s}, image : {s}, exact : BOOLEAN]
Measured(s) == [grid |-> s, image |-> s, exact |-> TRUE]

ConInit ==
  /\ size \in Size /\ CalInit(Before(size))
  /\ \E readers \in {{}} \cup {{c} : c \in Client} :
       cl = [c \in Client |-> [AtRest EXCEPT
               !.reading = IF c \in readers THEN Measured(size) ELSE NoReading]]
  /\ owner = "ours" /\ pointer = 0 /\ button = FALSE
  /\ shot = [size |-> 0, since |-> {}]
  /\ begun = 0 /\ faults = 0 /\ changes = 0 /\ overlap = FALSE

-----------------------------------------------------------------------------
(* Steps.                                                                  *)

At(c, pc) == cl[c].pc = pc
Set(c, rec) == cl' = [cl EXCEPT ![c] = rec]
Goto(c, pc) == Set(c, [cl[c] EXCEPT !.pc = pc])

\* A command ends, well or not; its client keeps what it has read off the
\* markers and nothing else.
Done(c) == Set(c, [AtRest EXCEPT !.reading = cl[c].reading])

Fault == faults < MaxFaults /\ faults' = faults + 1 /\ UNCHANGED <<begun, changes>>

\* A call succeeds and `next` follows, or the command sees it fail and stops:
\* _monitor raises on a bad exit status, on the text of a rejection and on a
\* timeout. The host may have carried the call out all the same.
Called(c, next) == (next /\ UNCHANGED budget) \/ (Fault /\ Done(c))

\* The points a client can name: the last pixel of the frame it knows, the one
\* past it, or a place in the image it looks at.
Inside(s) == [space |-> "framebuffer", x |-> s - 1, meant |-> s - 1, view |-> s]
Edge(s)   == [space |-> "framebuffer", x |-> s, meant |-> s, view |-> s]
Shown(s)  == LET x == (s - 1) \div Zoom[s] IN
             [space |-> "image", x |-> x, meant |-> Zoom[s] * x, view |-> s]

PointAt(place, s) ==
  CASE place = "inside" -> Inside(s) [] place = "edge" -> Edge(s)
    [] place = "shown" -> Shown(s)

FirstPc(r) ==
  CASE r.cmd \in {"keys", "run"} -> IF r.looks > 0 THEN "look" ELSE "call"
    [] r.cmd = "screenshot" -> "capture"
    [] OTHER -> "dump"

\* Mutant of Gate: nobody asks the lease.
OpenGate(r) == TRUE

\* _require_qemu_guest, require_owned: a look at the store and no more.
Gate(r) == r.owned => owner = "ours"

\* A commit needs readings that determine a transform.
Begin(c) ==
  /\ At(c, "idle") /\ begun < MaxBegun /\ begun' = begun + 1
  /\ \E r \in Requests :
       /\ Gate(r)
       /\ r.cmd = "commit" => cl[c].reading # NoReading
       /\ Set(c, [cl[c] EXCEPT
                    !.cmd = r.cmd, !.pc = FirstPc(r), !.looks = r.looks, !.left = r.times,
                    !.asked = [i \in 1 .. Len(r.places) |-> PointAt(r.places[i], size)]])
  /\ shot' = [shot EXCEPT !.since = @ \ {c}]
  /\ UNCHANGED <<calvars, guestvars, faults, changes, overlap>>

-----------------------------------------------------------------------------
(* Looking.                                                                *)

Dumped == shot' = [size |-> size, since |-> Client]

Looking(c) ==
  Set(c, [cl[c] EXCEPT !.pc = "fetch",
                       !.changed = @ /\ cl[c].path # <<>>])

\* Mutant of Dump: the exit status is all it looks at.
DumpUnchecked(c) ==
  /\ At(c, "dump")
  /\ \/ Dumped /\ Called(c, Looking(c))
     \/ Fault /\ Looking(c) /\ UNCHANGED shot
  /\ UNCHANGED <<calvars, guestvars, overlap>>

\* _framebuffer_size: screendump.
Dump(c) ==
  /\ At(c, "dump")
  /\ \/ Dumped /\ Called(c, Looking(c))
     \/ Fault /\ Done(c) /\ UNCHANGED shot
  /\ UNCHANGED <<calvars, guestvars, overlap>>

\* An image-space point needs a record that is there and fits.
Usable(rec) == Trustworthy(rec)

\* Mutant of Resolved: the first pixel past the frame passes.
ResolvedPastEdge(c, p, s) ==
  CASE p.space = "framebuffer" -> {p.x} \cap 0 .. s
    [] p.space = "image" -> IF Usable(Find(c, s)) THEN {ToFramebuffer(Find(c, s), p.x)}
                            ELSE {}

\* resolve_point: the pixels a point may become, none if it is refused.
Resolved(c, p, s) ==
  CASE p.space = "framebuffer" -> {p.x} \cap 0 .. s - 1
    [] p.space = "image" -> IF Usable(Find(c, s)) THEN {ToFramebuffer(Find(c, s), p.x)}
                            ELSE {}

AfterFetch(c, s) ==
  LET me == [cl[c] EXCEPT !.at = s] IN
  CASE me.cmd = "start" -> Set(c, [me EXCEPT !.pc = "capture"])
    [] me.cmd = "commit" ->
         Set(c, [me EXCEPT !.pc = "open", !.doc = Upserted(c, s, me.reading)])
    [] OTHER ->
         LET pixels == Resolved(c, Head(me.asked), s) IN
         \/ pixels = {} /\ Done(c)
         \/ \E y \in pixels :
              Set(c, [me EXCEPT !.path = Append(@, y), !.asked = Tail(@),
                                !.pc = IF Len(me.asked) = 1 THEN "point" ELSE "dump"])

\* _framebuffer_size: cat; then resolve_point, or the marker grid, or the fit
\* of a commit and the load of its upsert.
Fetch(c) ==
  /\ At(c, "fetch")
  /\ Called(c, AfterFetch(c, shot.size))
  /\ overlap' = (overlap \/ (cl[c].cmd = "commit" /\ \E d \in Client : cl[d].pc \in Saving))
  /\ UNCHANGED <<calvars, guestvars, shot>>

\* _capture_png: screendump. Here the exit status is all that counts, and a
\* rejected one leaves the frame of an earlier capture in its place.
Capture(c) ==
  /\ At(c, "capture")
  /\ \/ Dumped /\ Called(c, Goto(c, "image"))
     \/ Fault /\ (Done(c) \/ Goto(c, "image")) /\ UNCHANGED shot
  /\ UNCHANGED <<calvars, guestvars, overlap>>

\* cat and the PNG. A client shown its markers measures them or guesses.
Image(c) ==
  /\ At(c, "image")
  /\ IF shot.size = 0 THEN Done(c) /\ UNCHANGED budget
     ELSE Called(c,
       IF cl[c].cmd = "start"
       THEN \E exact \in BOOLEAN :
              Set(c, [AtRest EXCEPT !.reading =
                        [grid |-> cl[c].at, image |-> shot.size, exact |-> exact]])
       ELSE IF cl[c].left > 1
       THEN Set(c, [cl[c] EXCEPT !.left = @ - 1, !.pc = "capture"])
       ELSE Done(c))
  /\ UNCHANGED <<calvars, guestvars, shot, overlap>>

-----------------------------------------------------------------------------
(* Acting: each step is one call, with or without effect if it fails.      *)

\* The command has done its work; --screenshot-after asks for a capture.
Finished(c) == Done(c) \/ Set(c, [cl[c] EXCEPT !.pc = "capture", !.left = 1])

\* The last argument follows a call that succeeds; `effect` is its effect.
Acts(c, effect, next) ==
  /\ \/ effect /\ Called(c, next)
     \/ UNCHANGED <<pointer, button>> /\ Fault /\ Done(c)
  /\ UNCHANGED <<calvars, size, owner, shot, overlap>>

PointTo(x) == pointer' = x /\ UNCHANGED button
Hold(down) == button' = down /\ UNCHANGED pointer

\* mouse_set to the tablet, then mouse_move.
MovePointer(c) ==
  /\ At(c, "point")
  /\ Acts(c, PointTo(cl[c].path[1]),
          IF cl[c].cmd = "move" THEN Done(c) ELSE Goto(c, "press"))

Press(c) ==
  /\ At(c, "press")
  /\ Acts(c, Hold(TRUE), Goto(c, IF cl[c].cmd = "drag" THEN "hop" ELSE "release"))

\* Mutant of Hop: the drag ends where it should let go.
HopAndLeave(c) ==
  /\ At(c, "hop")
  /\ Acts(c, PointTo(cl[c].path[2]), Finished(c))

\* The hops of a drag, of which the last decides.
Hop(c) ==
  /\ At(c, "hop")
  /\ Acts(c, PointTo(cl[c].path[2]), Goto(c, "release"))

Release(c) ==
  /\ At(c, "release")
  /\ Acts(c, Hold(FALSE),
          IF cl[c].left > 1 THEN Set(c, [cl[c] EXCEPT !.left = @ - 1, !.pc = "press"])
          ELSE Finished(c))

\* _owned_running_qemu and the looks of cmd_capture: qm status, ip link. What
\* they see may make the command refuse.
LookAt(c) ==
  /\ At(c, "look")
  /\ \/ Done(c) /\ UNCHANGED budget
     \/ Called(c, Set(c, [cl[c] EXCEPT !.looks = @ - 1,
                                       !.pc = IF cl[c].looks > 1 THEN "look" ELSE "call"]))
  /\ UNCHANGED <<calvars, guestvars, shot, overlap>>

\* qm sendkey, key by key, all translated before the first is sent; an exec,
\* a slot of cmd_media, the memory helper, tcpdump.
CallGuest(c) ==
  /\ At(c, "call")
  /\ Acts(c, UNCHANGED <<pointer, button>>,
          IF cl[c].left > 1 THEN Set(c, [cl[c] EXCEPT !.left = @ - 1])
          ELSE IF cl[c].cmd = "keys" THEN Finished(c) ELSE Done(c))

-----------------------------------------------------------------------------
(* calibrate commit: _persist.                                             *)

OpenTmp(c) ==
  /\ At(c, "open") /\ OpenTemp(c)
  /\ Goto(c, "write")
  /\ UNCHANGED <<guestvars, shot, budget, overlap>>

WriteTmp(c) ==
  /\ At(c, "write") /\ WriteTemp(c, cl[c].doc)
  /\ Goto(c, "replace")
  /\ UNCHANGED <<guestvars, shot, budget, overlap>>

\* Without the temporary file os.replace raises: somebody else has moved it.
Replace(c) ==
  /\ At(c, "replace")
  /\ ReplaceFile \/ (temp = Absent /\ UNCHANGED calvars)
  /\ Done(c)
  /\ UNCHANGED <<guestvars, shot, budget, overlap>>

-----------------------------------------------------------------------------
(* The world.                                                              *)

Killed(c) ==
  /\ cl[c].pc # "idle" /\ Fault /\ Done(c) /\ DropHandle(c)
  /\ UNCHANGED <<guestvars, shot, overlap>>

Change == changes < MaxChanges /\ changes' = changes + 1 /\ UNCHANGED <<begun, faults>>

\* The guest's system sets another mode.
Resize ==
  /\ Change
  /\ size' \in Size \ {size}
  /\ cl' = [c \in Client |-> [cl[c] EXCEPT !.changed = cl[c].pc # "idle"]]
  /\ UNCHANGED <<calvars, owner, pointer, button, shot, overlap>>

\* The lease ends, its guest is destroyed, and the vmid is used again.
Evict ==
  /\ Change
  /\ owner = "ours" /\ owner' = "theirs"
  /\ cl' = [c \in Client |-> [cl[c] EXCEPT !.evicted = cl[c].pc # "idle"]]
  /\ UNCHANGED <<calvars, size, pointer, button, shot, overlap>>

ConNext ==
  \/ \E c \in Client :
       \/ Begin(c) \/ Dump(c) \/ Fetch(c) \/ Capture(c) \/ Image(c)
       \/ MovePointer(c) \/ Press(c) \/ Hop(c) \/ Release(c) \/ LookAt(c)
       \/ CallGuest(c)
       \/ OpenTmp(c) \/ WriteTmp(c) \/ Replace(c) \/ Killed(c)
  \/ Resize \/ Evict

ConSpec == ConInit /\ [][ConNext]_convars

-----------------------------------------------------------------------------
(* Properties.                                                             *)

\* Every variable has its type; a write handle belongs to a client that is
\* about to write.
ConTypeOK ==
  /\ CalTypeOK
  /\ \A c \in Client : handle[c] # "none" => cl[c].pc = "write"
  /\ size \in Size /\ owner \in {"ours", "theirs"}
  /\ pointer \in Nat /\ button \in BOOLEAN
  /\ shot \in [size : Size \cup {0}, since : SUBSET Client]
  /\ begun \in 0 .. MaxBegun /\ faults \in 0 .. MaxFaults /\ changes \in 0 .. MaxChanges
  /\ overlap \in BOOLEAN
  /\ cl \in [Client -> Command]

\* Input, commands and memory writes reach, and memory reads and captures
\* watch, the guest of the lease that was asked for, unless the lease has lost
\* it since the command began: the gate is asked once and every call that
\* follows names the vmid alone.
InputIsOwned ==
  \A c \in Client : cl[c].pc \in Input => owner = "ours" \/ cl[c].evicted

\* No button stays down behind two commands that mix their gestures, as long
\* as no call fails: a drag or click that is cut short leaves it down.
ButtonsComeUp ==
  /\ faults = 0
  /\ \A c \in Client : cl[c].pc \notin {"hop", "release"}
  => ~button

\* "A drag can never leave the framebuffer halfway" (cmd_drag): nothing points
\* outside the display unless its mode changes after the first look.
PointsOnScreen ==
  \A c \in Client : cl[c].pc \in Input /\ ~cl[c].changed =>
    \A i \in 1 .. Len(cl[c].path) : cl[c].path[i] < size

\* The size a point is checked against is the display's during the command,
\* although one host file holds the frames of all captures and the commands
\* of all clients overwrite it.
SizeIsFresh == \A c \in Client : At(c, "fetch") => c \in shot.since

\* The client's fit for this very size was taken without a change of mode.
Steady(c, s) ==
  LET rec == Load[c][s] IN rec = NoRecord \/ (rec.from.grid = s /\ rec.from.image = s)

\* A point becomes the pixel its client means, or is refused, unless the mode
\* has changed between the client's look and the command's, or had between
\* its markers and its commit (resolve_point: "a wrong click on someone's
\* machine is worse than an error message").
MeantIsHit ==
  [][\A c \in Client :
       At(c, "fetch") /\ Len(cl'[c].path) > Len(cl[c].path) =>
         LET p == Head(cl[c].asked) IN
         p.view = shot.size /\ Steady(c, shot.size)
           => cl'[c].path[Len(cl[c].path) + 1] = p.meant]_convars

\* Only two commits at once can leave a store that does not parse: a commit
\* that dies, wherever it dies, cannot.
TornOnlyByOverlap == file = Broken => overlap

\* A commit keeps every other record, as long as commits come one by one.
RecordsAreKept ==
  [][~overlap' => \A c \in Client, s \in Size :
       Load[c][s] # NoRecord => Load'[c][s] # NoRecord]_convars

\* _persist: "the swap has to be all-or-nothing".
SwapIsWhole == file # Broken
=============================================================================
