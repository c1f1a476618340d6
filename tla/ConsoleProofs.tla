---------------------------- MODULE ConsoleProofs ----------------------------
(***************************************************************************)
(* Proofs about the console and the calibration store, for any number of   *)
(* clients, any set of resolutions and any set of commands.                *)
(***************************************************************************)
EXTENDS Console, TLAPS

Acting   == {"move", "click", "drag", "keys", "run"}
Pointing == {"move", "click", "drag"}

-----------------------------------------------------------------------------
(* The inductive invariant, part by part.                                  *)

\* Which command can be at which point, and what it has by then.
Located ==
  \A c \in Client :
    LET me == cl[c] IN
    /\ me.pc \in {"dump", "fetch"} => me.cmd \in Pointing \cup {"start", "commit"}
    /\ me.pc \in Input \cup {"look"} => me.cmd \in Acting
    /\ me.pc \in {"point", "press", "hop", "release"} => me.cmd \in Pointing
    /\ me.pc = "hop" => me.cmd = "drag"
    /\ me.pc \in {"capture", "image"} /\ me.cmd = "start" => me.at \in Size
    /\ me.pc \in Saving => me.cmd = "commit"
    /\ me.cmd = "commit" /\ me.pc # "idle" => me.reading \in Reading

\* The points of a gesture are resolved one after the other.
Needs(cmd) == IF cmd = "drag" THEN 2 ELSE 1

Resolving ==
  \A c \in Client :
    LET me == cl[c] IN
    /\ me.pc = "idle" => me.path = <<>>
    /\ me.pc \in {"dump", "fetch"} /\ me.cmd \in Pointing =>
         Len(me.asked) >= 1 /\ Len(me.path) + Len(me.asked) = Needs(me.cmd)
    /\ me.pc \in {"point", "press", "hop", "release"} => Len(me.path) = Needs(me.cmd)
    /\ me.pc = "look" => me.looks >= 1

\* A command that acts, or is going to, has passed the gate.
Gated ==
  \A c \in Client :
    cl[c].pc # "idle" /\ cl[c].cmd \in Acting => owner = "ours" \/ cl[c].evicted

\* The host file holds a frame for whoever it is not too old for.
FrameThere == shot.since # {} => shot.size \in Size

\* What a command knows of the display is true unless the mode has changed.
OnScreen ==
  \A c \in Client : cl[c].pc # "idle" /\ ~cl[c].changed =>
    /\ At(c, "fetch") => shot.size = size
    /\ \A i \in 1 .. Len(cl[c].path) : cl[c].path[i] < size

\* A record is filed under the size it was saved for.
WellFiled(doc) ==
  \A c \in Client, s \in Size : doc[c][s] # NoRecord => doc[c][s].at = s

Filed ==
  /\ file \in Document => WellFiled(file)
  /\ temp \in Document => WellFiled(temp)
  /\ \A c \in Client : WellFiled(cl[c].doc)

\* As long as commits come one by one, one at most is saving; it has the
\* temporary file for itself, and saves all that the store holds.
Keeps(doc) ==
  \A c \in Client, s \in Size : Load[c][s] # NoRecord => doc[c][s] # NoRecord

OneByOne ==
  ~overlap =>
    /\ file # Broken
    /\ \A c, d \in Client : cl[c].pc \in Saving /\ cl[d].pc \in Saving => c = d
    /\ \A c \in Client :
         /\ cl[c].pc \in Saving => Keeps(cl[c].doc)
         /\ cl[c].pc = "write" => handle[c] = "temp" /\ temp = Broken
         /\ cl[c].pc = "replace" => temp = cl[c].doc

\* The points a client names are those of the display it knows.
Named ==
  \A c \in Client : \A i \in 1 .. Len(cl[c].asked) :
    \E place \in Places, s \in Size : cl[c].asked[i] = PointAt(place, s)

CInv ==
  /\ ConTypeOK /\ Located /\ Resolving
  /\ Gated /\ FrameThere /\ SizeIsFresh /\ OnScreen /\ ButtonsComeUp
  /\ Filed /\ OneByOne /\ Named

-----------------------------------------------------------------------------
(* Arithmetic of the transform.                                            *)

LEMMA QuotientNat == ASSUME NEW a \in Nat, NEW b \in Nat \ {0} PROVE a \div b \in Nat
  OBVIOUS

LEMMA ProductNat == ASSUME NEW a \in Nat, NEW b \in Nat PROVE a * b \in Nat
  OBVIOUS

LEMMA QuotientOfProduct ==
  ASSUME NEW a \in Nat, NEW b \in Nat \ {0} PROVE (a * b) \div b = a
  OBVIOUS

LEMMA ProductOfQuotient ==
  ASSUME NEW a \in Nat, NEW b \in Nat \ {0} PROVE b * (a \div b) <= a
  OBVIOUS

\* A point a client can name is a point.
LEMMA PointTyped ==
  ASSUME NEW place \in Places, NEW s \in Size
  PROVE  PointAt(place, s) \in Point /\ PointAt(place, s).view = s
  <1>1. s \in Nat \ {0} /\ Zoom[s] \in Nat \ {0} /\ s - 1 \in Nat
    BY SizeAssumption
  <1>2. (s - 1) \div Zoom[s] \in Nat
    BY <1>1, QuotientNat
  <1>3. Zoom[s] * ((s - 1) \div Zoom[s]) \in Nat
    BY <1>1, <1>2, ProductNat
  <1> DEFINE q == (s - 1) \div Zoom[s]
             m == Zoom[s] * q
  <1>4. q \in Nat /\ m \in Nat
    BY <1>2, <1>3
  <1> HIDE DEF q, m
  <1>5. CASE place = "inside"
    BY <1>1, <1>5 DEF PointAt, Inside, Point
  <1>6. CASE place = "edge"
    BY <1>1, <1>6 DEF PointAt, Edge, Point
  <1>7. CASE place = "shown"
    <2>1. Shown(s) = [space |-> "image", x |-> q, meant |-> m, view |-> s]
      BY DEF Shown, q, m
    <2>2. QED
      BY <1>4, <1>7, <2>1 DEF PointAt, Point
  <1>8. QED
    BY <1>5, <1>6, <1>7 DEF Places

\* The transform of a record stays within the frame it was saved for
\* (Record.to_framebuffer clamps).
LEMMA Clamped ==
  ASSUME NEW rec \in Record, NEW x \in Nat
  PROVE  ToFramebuffer(rec, x) \in Nat /\ ToFramebuffer(rec, x) < rec.at
  <1>1. rec.at \in Nat \ {0} /\ rec.from.grid \in Nat \ {0} /\ Zoom[rec.from.image] \in Nat \ {0}
    BY SizeAssumption DEF Record, Reading
  <1>2. x * rec.at \in Nat
    BY <1>1, ProductNat
  <1>3. (x * rec.at) * Zoom[rec.from.image] \in Nat
    BY <1>1, <1>2, ProductNat
  <1> DEFINE y == (x * rec.at * Zoom[rec.from.image]) \div rec.from.grid
  <1>4. y \in Nat
    BY <1>1, <1>3, QuotientNat
  <1>5. ToFramebuffer(rec, x) = IF y < rec.at THEN y ELSE rec.at - 1
    BY DEF ToFramebuffer
  <1> HIDE DEF y
  <1>6. QED
    BY <1>1, <1>4, <1>5

\* What the store holds, and what an upsert makes of it, are documents.
LEMMA LoadTyped == ASSUME CalTypeOK PROVE Load \in Document
  <1>1. Empty \in Document
    BY DEF Empty, Document
  <1>2. QED
    BY <1>1 DEF CalTypeOK, Load

LEMMA FindTyped ==
  ASSUME CalTypeOK, NEW c \in Client, NEW s \in Size
  PROVE  Find(c, s) \in Record \cup {NoRecord}
  BY LoadTyped DEF Find, Document

-----------------------------------------------------------------------------
(* How a client's record moves.                                            *)

\* The other clients stay as they are, and everybody keeps its type.
Only(c) == /\ cl' \in [Client -> Command]
           /\ \A d \in Client \ {c} : cl'[d] = cl[d]

\* The command goes on at one of `pcs` and remembers what it remembered.
Goes(c, pcs) ==
  /\ Only(c)
  /\ cl'[c].pc \in pcs
  /\ cl'[c].cmd = cl[c].cmd /\ cl'[c].asked = cl[c].asked /\ cl'[c].path = cl[c].path
  /\ cl'[c].at = cl[c].at /\ cl'[c].reading = cl[c].reading /\ cl'[c].doc = cl[c].doc
  /\ cl'[c].changed = cl[c].changed /\ cl'[c].evicted = cl[c].evicted

\* The command is over, however it ended.
Ends(c) ==
  /\ Only(c)
  /\ cl'[c].pc = "idle" /\ cl'[c].path = <<>> /\ cl'[c].asked = <<>> /\ cl'[c].doc = Empty

LEMMA EmptyIsDocument == Empty \in Document /\ WellFiled(Empty)
  BY DEF Empty, Document, WellFiled

LEMMA RestTyped ==
  ASSUME NEW r \in Reading \cup {NoReading}
  PROVE  [AtRest EXCEPT !.reading = r] \in Command
  <1>1. Empty \in Document
    BY EmptyIsDocument
  <1>2. "idle" \in PcNames /\ <<>> \in Seq(Point) /\ <<>> \in Seq(Nat)
    BY DEF PcNames
  <1>3. QED
    BY <1>1, <1>2 DEF AtRest, Command

LEMMA DoneEnds ==
  ASSUME ConTypeOK, NEW c \in Client, Done(c) PROVE Ends(c)
  <1>1. cl[c] \in Command
    BY DEF ConTypeOK
  <1>2. cl[c].reading \in Reading \cup {NoReading}
    BY <1>1 DEF Command
  <1> DEFINE r == [AtRest EXCEPT !.reading = cl[c].reading]
  <1>3. r \in Command /\ r.pc = "idle" /\ r.path = <<>> /\ r.asked = <<>> /\ r.doc = Empty
    BY <1>2, RestTyped DEF AtRest
  <1>4. cl' = [cl EXCEPT ![c] = r]
    BY DEF Done, Set
  <1> HIDE DEF r
  <1>5. QED
    BY <1>3, <1>4 DEF Ends, Only, ConTypeOK

LEMMA GotoGoes ==
  ASSUME ConTypeOK, NEW c \in Client, NEW pc \in PcNames, Goto(c, pc)
  PROVE  Goes(c, {pc})
  <1>1. cl[c] \in Command
    BY DEF ConTypeOK
  <1> DEFINE r == [cl[c] EXCEPT !.pc = pc]
  <1>2. r \in Command /\ r.pc = pc
    BY <1>1 DEF Command
  <1>3. cl' = [cl EXCEPT ![c] = r]
    BY DEF Goto, Set
  <1>4. /\ r.cmd = cl[c].cmd /\ r.asked = cl[c].asked /\ r.path = cl[c].path
        /\ r.at = cl[c].at /\ r.reading = cl[c].reading /\ r.doc = cl[c].doc
        /\ r.changed = cl[c].changed /\ r.evicted = cl[c].evicted
    BY <1>1 DEF Command
  <1> HIDE DEF r
  <1>5. QED
    BY <1>2, <1>3, <1>4 DEF Goes, Only, ConTypeOK

\* A step that also counts what is left.
LEMMA CountGoes ==
  ASSUME ConTypeOK, NEW c \in Client, NEW pc \in PcNames, NEW n \in Nat, NEW k \in Nat,
         Set(c, [cl[c] EXCEPT !.pc = pc, !.left = n, !.looks = k])
  PROVE  Goes(c, {pc})
  <1>1. cl[c] \in Command
    BY DEF ConTypeOK
  <1> DEFINE r == [cl[c] EXCEPT !.pc = pc, !.left = n, !.looks = k]
  <1>2. r \in Command /\ r.pc = pc
    BY <1>1 DEF Command
  <1>3. cl' = [cl EXCEPT ![c] = r]
    BY DEF Set
  <1>4. /\ r.cmd = cl[c].cmd /\ r.asked = cl[c].asked /\ r.path = cl[c].path
        /\ r.at = cl[c].at /\ r.reading = cl[c].reading /\ r.doc = cl[c].doc
        /\ r.changed = cl[c].changed /\ r.evicted = cl[c].evicted
    BY <1>1 DEF Command
  <1> HIDE DEF r
  <1>5. QED
    BY <1>2, <1>3, <1>4 DEF Goes, Only, ConTypeOK

\* Counting only one of the two is counting both.
LEMMA LeftGoes ==
  ASSUME ConTypeOK, NEW c \in Client, NEW pc \in PcNames, NEW n \in Nat,
         Set(c, [cl[c] EXCEPT !.pc = pc, !.left = n])
  PROVE  Goes(c, {pc})
  <1>1. cl[c] \in Command /\ cl[c].looks \in Nat
    BY DEF ConTypeOK, Command
  <1>2. [cl[c] EXCEPT !.pc = pc, !.left = n]
          = [cl[c] EXCEPT !.pc = pc, !.left = n, !.looks = cl[c].looks]
    BY <1>1 DEF Command
  <1>3. QED
    BY <1>1, <1>2, CountGoes DEF Set

LEMMA LooksGoes ==
  ASSUME ConTypeOK, NEW c \in Client, NEW pc \in PcNames, NEW k \in Nat,
         Set(c, [cl[c] EXCEPT !.pc = pc, !.looks = k])
  PROVE  Goes(c, {pc})
  <1>1. cl[c] \in Command /\ cl[c].left \in Nat
    BY DEF ConTypeOK, Command
  <1>2. [cl[c] EXCEPT !.pc = pc, !.looks = k]
          = [cl[c] EXCEPT !.pc = pc, !.left = cl[c].left, !.looks = k]
    BY <1>1 DEF Command
  <1>3. QED
    BY <1>1, <1>2, CountGoes DEF Set

\* The budget of faults.
LEMMA FaultTyped ==
  ASSUME ConTypeOK, Fault
  PROVE  faults' \in 1 .. MaxFaults /\ faults' # 0 /\ UNCHANGED <<begun, changes>>
  BY ConsoleAssumption DEF ConTypeOK, Fault

-----------------------------------------------------------------------------
(* Every step of a client is of one of seven kinds.                        *)

\* The points a command passes through without reading anything new.
Follows(p, q) ==
  \/ p = "capture" /\ q = "image"
  \/ p = "image" /\ q = "capture"
  \/ p = "point" /\ q = "press"
  \/ p = "press" /\ q \in {"hop", "release"}
  \/ p = "hop" /\ q = "release"
  \/ p = "release" /\ q \in {"press", "capture"}
  \/ p = "look" /\ q \in {"look", "call"}
  \/ p = "call" /\ q \in {"call", "capture"}
  \/ p = "open" /\ q = "write"
  \/ p = "write" /\ q = "replace"

Advances(c) ==
  /\ Goes(c, PcNames) /\ Follows(cl[c].pc, cl'[c].pc)
  /\ cl'[c].pc = "hop" => cl[c].cmd = "drag"
  /\ cl'[c].pc = "look" => cl'[c].looks >= 1

\* Dump
Looks(c) ==
  /\ Only(c)
  /\ cl[c].pc = "dump" /\ cl'[c].pc = "fetch"
  /\ cl'[c].cmd = cl[c].cmd /\ cl'[c].asked = cl[c].asked /\ cl'[c].path = cl[c].path
  /\ cl'[c].reading = cl[c].reading /\ cl'[c].doc = cl[c].doc
  /\ cl'[c].evicted = cl[c].evicted
  /\ cl'[c].changed = (cl[c].changed /\ cl[c].path # <<>>)

\* Fetch, for a gesture, the marker grid and a commit.
Resolves(c) ==
  /\ Only(c)
  /\ cl[c].pc = "fetch" /\ cl[c].cmd \in Pointing
  /\ \E y \in Resolved(c, Head(cl[c].asked), shot.size) : cl'[c].path = Append(cl[c].path, y)
  /\ cl'[c].asked = Tail(cl[c].asked)
  /\ cl'[c].pc = IF Len(cl[c].asked) = 1 THEN "point" ELSE "dump"
  /\ cl'[c].cmd = cl[c].cmd /\ cl'[c].doc = cl[c].doc
  /\ cl'[c].changed = cl[c].changed /\ cl'[c].evicted = cl[c].evicted

DrawsGrid(c) ==
  /\ Only(c)
  /\ cl[c].pc = "fetch" /\ cl[c].cmd = "start"
  /\ cl'[c].pc = "capture" /\ cl'[c].at = shot.size
  /\ cl'[c].cmd = cl[c].cmd /\ cl'[c].asked = cl[c].asked /\ cl'[c].path = cl[c].path
  /\ cl'[c].doc = cl[c].doc /\ cl'[c].changed = cl[c].changed
  /\ cl'[c].evicted = cl[c].evicted

Fits(c) ==
  /\ Only(c)
  /\ cl[c].pc = "fetch" /\ cl[c].cmd = "commit"
  /\ cl'[c].pc = "open" /\ cl'[c].doc = Upserted(c, shot.size, cl[c].reading)
  /\ cl'[c].reading = cl[c].reading
  /\ cl'[c].cmd = cl[c].cmd /\ cl'[c].asked = cl[c].asked /\ cl'[c].path = cl[c].path
  /\ cl'[c].changed = cl[c].changed /\ cl'[c].evicted = cl[c].evicted

\* Begin
Begins(c) ==
  /\ Only(c)
  /\ cl[c].pc = "idle" /\ cl'[c].path = cl[c].path /\ cl'[c].doc = cl[c].doc
  /\ cl'[c].reading = cl[c].reading
  /\ \E r \in Requests :
       /\ Gate(r) /\ cl'[c].cmd = r.cmd /\ cl'[c].pc = FirstPc(r) /\ cl'[c].looks = r.looks
       /\ r.cmd = "commit" => cl[c].reading # NoReading
       /\ cl'[c].asked = [i \in 1 .. Len(r.places) |-> PointAt(r.places[i], size)]

Moves(c) == Ends(c) \/ Advances(c) \/ Looks(c) \/ Resolves(c) \/ DrawsGrid(c) \/ Fits(c)

\* The client's own part of the type invariant.
Holds == \A c \in Client : handle[c] # "none" => cl[c].pc = "write"

LEMMA MovesTyped ==
  ASSUME ConTypeOK, NEW c \in Client, Moves(c) \/ Begins(c)
  PROVE  cl' \in [Client -> Command] /\ \A d \in Client \ {c} : cl'[d] = cl[d]
  BY DEF Moves, Ends, Advances, Goes, Looks, Resolves, DrawsGrid, Fits, Begins, Only

LEMMA GoesAdvances ==
  ASSUME NEW c \in Client, NEW p, NEW q \in PcNames, cl[c].pc = p, Goes(c, {q}),
         Follows(p, q), q = "hop" => cl[c].cmd = "drag", q # "look"
  PROVE  Moves(c)
  BY DEF Moves, Advances, Goes

\* A request that begins.
LEMMA BeginMoves == ASSUME ConTypeOK, NEW c \in Client, Begin(c) PROVE Begins(c)
  <1>1. PICK r \in Requests :
          /\ Gate(r)
          /\ r.cmd = "commit" => cl[c].reading # NoReading
          /\ Set(c, [cl[c] EXCEPT
                       !.cmd = r.cmd, !.pc = FirstPc(r), !.looks = r.looks, !.left = r.times,
                       !.asked = [i \in 1 .. Len(r.places) |-> PointAt(r.places[i], size)]])
    BY DEF Begin
  <1> DEFINE asked == [i \in 1 .. Len(r.places) |-> PointAt(r.places[i], size)]
  <1>2. /\ r.cmd \in CommandNames /\ r.looks \in Nat /\ r.times \in Nat
        /\ r.places \in Seq(Places)
    BY ConsoleAssumption
  <1>3. asked \in Seq(Point)
    <2>1. Len(r.places) \in Nat /\ \A i \in 1 .. Len(r.places) : r.places[i] \in Places
      BY <1>2
    <2>2. \A i \in 1 .. Len(r.places) : PointAt(r.places[i], size) \in Point
      BY <2>1, PointTyped DEF ConTypeOK
    <2>3. QED
      BY <2>1, <2>2
  <1>4. FirstPc(r) \in PcNames
    BY <1>2 DEF FirstPc, PcNames
  <1>5. cl[c] \in Command
    BY DEF ConTypeOK
  <1> DEFINE n == [cl[c] EXCEPT !.cmd = r.cmd, !.pc = FirstPc(r), !.looks = r.looks,
                                !.left = r.times, !.asked = asked]
  <1>6. cl' = [cl EXCEPT ![c] = n]
    BY <1>1 DEF Set
  <1> HIDE DEF asked
  <1>7. /\ n \in Command
        /\ n.cmd = r.cmd /\ n.pc = FirstPc(r) /\ n.asked = asked /\ n.looks = r.looks
        /\ n.path = cl[c].path /\ n.doc = cl[c].doc /\ n.reading = cl[c].reading
    BY <1>2, <1>3, <1>4, <1>5 DEF Command
  <1> HIDE DEF n
  <1>8. /\ Only(c) /\ cl'[c] = n
    BY <1>6, <1>7 DEF Only, ConTypeOK
  <1>9. cl[c].pc = "idle"
    BY DEF Begin, At
  <1>10. /\ Gate(r) /\ cl'[c].cmd = r.cmd /\ cl'[c].pc = FirstPc(r) /\ cl'[c].looks = r.looks
         /\ r.cmd = "commit" => cl[c].reading # NoReading
         /\ cl'[c].asked = [i \in 1 .. Len(r.places) |-> PointAt(r.places[i], size)]
    BY <1>1, <1>7, <1>8 DEF asked
  <1>11. QED
    BY <1>7, <1>8, <1>9, <1>10 DEF Begins

LEMMA DumpMoves ==
  ASSUME ConTypeOK, NEW c \in Client, Dump(c)
  PROVE  \/ Ends(c) /\ Fault
         \/ Looks(c) /\ Dumped /\ UNCHANGED budget
  <1>1. CASE Looking(c) /\ Dumped /\ UNCHANGED budget
    <2>1. cl[c] \in Command /\ "fetch" \in PcNames
      BY DEF ConTypeOK, PcNames
    <2> DEFINE n == [cl[c] EXCEPT !.pc = "fetch", !.changed = @ /\ cl[c].path # <<>>]
    <2>2. cl' = [cl EXCEPT ![c] = n]
      BY <1>1 DEF Looking, Set
    <2>3. (cl[c].changed /\ cl[c].path # <<>>) \in BOOLEAN
      OBVIOUS
    <2>4. /\ n \in Command /\ n.pc = "fetch" /\ n.cmd = cl[c].cmd /\ n.asked = cl[c].asked
          /\ n.path = cl[c].path /\ n.reading = cl[c].reading /\ n.doc = cl[c].doc
          /\ n.evicted = cl[c].evicted
          /\ n.changed = (cl[c].changed /\ cl[c].path # <<>>)
      BY <2>1, <2>3 DEF Command
    <2> HIDE DEF n
    <2>5. QED
      BY <1>1, <2>2, <2>4 DEF Looks, Only, ConTypeOK, Dump, At
  <1>2. CASE Done(c) /\ Fault
    BY <1>2, DoneEnds
  <1>3. QED
    BY <1>1, <1>2 DEF Dump, Called

\* The frame a command fetches has a size.
LEMMA FrameIsThere ==
  ASSUME ConTypeOK, SizeIsFresh, FrameThere, NEW c \in Client, At(c, "fetch")
  PROVE  shot.size \in Size
  BY DEF SizeIsFresh, FrameThere

LEMMA UpsertTyped ==
  ASSUME CalTypeOK, NEW c \in Client, NEW s \in Size, NEW r \in Reading
  PROVE  Upserted(c, s, r) \in Document
  <1>1. Load \in Document
    BY LoadTyped
  <1>2. [at |-> s, from |-> r] \in Record
    BY DEF Record
  <1>3. QED
    BY <1>1, <1>2 DEF Upserted, Document

LEMMA ResolvedTyped ==
  ASSUME CalTypeOK, NEW c \in Client, NEW s \in Size, NEW p \in Point,
         NEW y \in Resolved(c, p, s)
  PROVE  y \in Nat
  <1>1. CASE p.space = "framebuffer"
    BY <1>1, SizeAssumption DEF Resolved
  <1>2. CASE p.space = "image"
    <2>1. Usable(Find(c, s)) /\ y = ToFramebuffer(Find(c, s), p.x)
      BY <1>2 DEF Resolved
    <2>2. Find(c, s) \in Record
      BY <2>1, FindTyped DEF Usable, Trustworthy
    <2>3. p.x \in Nat
      BY DEF Point
    <2>4. QED
      BY <2>1, <2>2, <2>3, Clamped
  <1>3. QED
    BY <1>1, <1>2 DEF Point

LEMMA AfterFetchMoves ==
  ASSUME ConTypeOK, Located, Resolving, NEW c \in Client, At(c, "fetch"),
         NEW s \in Size, shot.size = s, AfterFetch(c, s)
  PROVE  Moves(c)
  <1> DEFINE me == [cl[c] EXCEPT !.at = s]
  <1>1. cl[c] \in Command /\ cl[c].pc = "fetch"
    BY DEF ConTypeOK, At
  <1>2. me \in Command /\ me.cmd = cl[c].cmd /\ me.asked = cl[c].asked /\ me.path = cl[c].path
        /\ me.reading = cl[c].reading /\ me.doc = cl[c].doc /\ me.at = s
        /\ me.changed = cl[c].changed /\ me.evicted = cl[c].evicted
    BY <1>1 DEF Command
  <1>3. CASE cl[c].cmd = "start"
    <2> DEFINE n == [me EXCEPT !.pc = "capture"]
    <2>1. cl' = [cl EXCEPT ![c] = n]
      BY <1>2, <1>3 DEF AfterFetch, Set
    <2> HIDE DEF me
    <2>2. /\ n \in Command /\ n.pc = "capture" /\ n.at = s
          /\ n.cmd = me.cmd /\ n.asked = me.asked /\ n.path = me.path /\ n.doc = me.doc
          /\ n.changed = me.changed /\ n.evicted = me.evicted
      BY <1>2 DEF Command, PcNames
    <2> HIDE DEF n
    <2>3. DrawsGrid(c)
      BY <1>1, <1>2, <1>3, <2>1, <2>2 DEF DrawsGrid, Only, ConTypeOK
    <2>4. QED
      BY <2>3 DEF Moves
  <1>4. CASE cl[c].cmd = "commit"
    <2> DEFINE doc == Upserted(c, s, me.reading)
               n == [me EXCEPT !.pc = "open", !.doc = doc]
    <2>1. cl' = [cl EXCEPT ![c] = n]
      BY <1>2, <1>4 DEF AfterFetch, Set
    <2>2. doc \in Document
      <3>1. me.reading \in Reading
        BY <1>1, <1>2, <1>4 DEF Located
      <3>2. QED
        BY <3>1, UpsertTyped DEF ConTypeOK
    <2>3. doc = Upserted(c, shot.size, cl[c].reading)
      BY <1>2
    <2> HIDE DEF me, doc
    <2>4. /\ n \in Command /\ n.pc = "open" /\ n.doc = doc
          /\ n.cmd = me.cmd /\ n.asked = me.asked /\ n.path = me.path
          /\ n.reading = me.reading
          /\ n.changed = me.changed /\ n.evicted = me.evicted
      BY <1>2, <2>2 DEF Command, PcNames
    <2> HIDE DEF n
    <2>5. Fits(c)
      BY <1>1, <1>2, <1>4, <2>1, <2>3, <2>4 DEF Fits, Only, ConTypeOK
    <2>6. QED
      BY <2>5 DEF Moves
  <1>5. CASE cl[c].cmd \notin {"start", "commit"}
    <2>1. CASE Done(c)
      BY <2>1, DoneEnds DEF Moves
    <2>2. CASE ~Done(c)
      <3>1. PICK y \in Resolved(c, Head(me.asked), s) :
              Set(c, [me EXCEPT !.path = Append(@, y), !.asked = Tail(@),
                                !.pc = IF Len(me.asked) = 1 THEN "point" ELSE "dump"])
        BY <1>2, <1>5, <2>2 DEF AfterFetch
      <3>2. cl[c].cmd \in Pointing /\ Len(me.asked) >= 1
        BY <1>1, <1>2, <1>5 DEF Located, Resolving
      <3>3. me.asked \in Seq(Point) /\ me.path \in Seq(Nat)
        BY <1>2 DEF Command
      <3>4. Head(me.asked) \in Point /\ Tail(me.asked) \in Seq(Point)
        BY <3>2, <3>3
      <3>5. y \in Nat
        BY <3>4, ResolvedTyped DEF ConTypeOK
      <3> DEFINE path == Append(me.path, y)
                 asked == Tail(me.asked)
                 pc == IF Len(me.asked) = 1 THEN "point" ELSE "dump"
                 n == [me EXCEPT !.path = path, !.asked = asked, !.pc = pc]
      <3>6. path \in Seq(Nat) /\ asked \in Seq(Point) /\ pc \in PcNames
        BY <3>3, <3>4, <3>5 DEF PcNames
      <3>7. cl' = [cl EXCEPT ![c] = n]
        BY <1>2, <3>1 DEF Set
      <3>8. /\ path = Append(cl[c].path, y) /\ asked = Tail(cl[c].asked)
            /\ pc = IF Len(cl[c].asked) = 1 THEN "point" ELSE "dump"
            /\ y \in Resolved(c, Head(cl[c].asked), shot.size)
        BY <1>2, <3>1
      <3> HIDE DEF me, path, asked, pc
      <3>9. /\ n \in Command /\ n.pc = pc /\ n.path = path /\ n.asked = asked
            /\ n.cmd = me.cmd /\ n.doc = me.doc
            /\ n.changed = me.changed /\ n.evicted = me.evicted
        BY <1>2, <3>6 DEF Command
      <3> HIDE DEF n
      <3>10. Only(c) /\ cl'[c] = n
        BY <1>1, <3>7, <3>9 DEF Only, ConTypeOK
      <3>11. Resolves(c)
        BY <1>1, <1>2, <3>2, <3>8, <3>9, <3>10 DEF Resolves
      <3>12. QED
        BY <3>11 DEF Moves
    <2>3. QED
      BY <2>1, <2>2
  <1>6. QED
    BY <1>3, <1>4, <1>5

LEMMA FetchMoves ==
  ASSUME ConTypeOK, Located, Resolving, SizeIsFresh, FrameThere, NEW c \in Client, Fetch(c)
  PROVE  Moves(c) /\ (UNCHANGED budget \/ (Ends(c) /\ Fault))
  <1>1. CASE AfterFetch(c, shot.size) /\ UNCHANGED budget
    BY <1>1, FrameIsThere, AfterFetchMoves DEF Fetch
  <1>2. CASE Fault /\ Done(c)
    BY <1>2, DoneEnds DEF Moves
  <1>3. QED
    BY <1>1, <1>2 DEF Fetch, Called

LEMMA CaptureMoves ==
  ASSUME ConTypeOK, NEW c \in Client, Capture(c)
  PROVE  Moves(c) /\ (UNCHANGED budget \/ Fault)
  <1>1. CASE Goto(c, "image")
    <2>1. Goes(c, {"image"}) /\ cl[c].pc = "capture"
      BY <1>1, GotoGoes DEF PcNames, Capture, At
    <2>2. QED
      BY <2>1, GoesAdvances DEF Follows, PcNames, Capture, Called
  <1>2. CASE Done(c)
    BY <1>2, DoneEnds DEF Moves, Capture, Called
  <1>3. QED
    BY <1>1, <1>2 DEF Capture, Called

LEMMA ImageMoves ==
  ASSUME ConTypeOK, Located, NEW c \in Client, Image(c)
  PROVE  Moves(c) /\ (UNCHANGED budget \/ Fault)
  <1>1. UNCHANGED budget \/ Fault
    BY DEF Image, Called
  <1>2. cl[c] \in Command /\ cl[c].pc = "image"
    BY DEF ConTypeOK, Image, At
  <1>3. CASE Done(c)
    BY <1>1, <1>3, DoneEnds DEF Moves
  <1>4. CASE cl[c].cmd = "start" /\ ~Done(c)
    <2>1. PICK exact \in BOOLEAN :
            Set(c, [AtRest EXCEPT !.reading =
                      [grid |-> cl[c].at, image |-> shot.size, exact |-> exact]])
      BY <1>4 DEF Image, Called
    <2> DEFINE r == [grid |-> cl[c].at, image |-> shot.size, exact |-> exact]
               n == [AtRest EXCEPT !.reading = r]
    <2>2. cl[c].at \in Size /\ shot.size \in Size
      BY <1>2, <1>4 DEF Located, Image, ConTypeOK
    <2>3. r \in Reading
      BY <2>2 DEF Reading
    <2>4. cl' = [cl EXCEPT ![c] = n]
      BY <2>1 DEF Set
    <2> HIDE DEF r
    <2>5. n \in Command /\ n.pc = "idle" /\ n.path = <<>> /\ n.asked = <<>> /\ n.doc = Empty
      BY <2>3, RestTyped DEF AtRest
    <2> HIDE DEF n
    <2>6. Ends(c)
      BY <2>4, <2>5 DEF Ends, Only, ConTypeOK
    <2>7. QED
      BY <1>1, <2>6 DEF Moves
  <1>5. CASE cl[c].cmd # "start" /\ cl[c].left > 1 /\ ~Done(c)
    <2>1. Set(c, [cl[c] EXCEPT !.left = @ - 1, !.pc = "capture"])
      BY <1>5 DEF Image, Called
    <2>2. cl[c].left - 1 \in Nat /\ "capture" \in PcNames
      BY <1>2, <1>5 DEF Command, PcNames
    <2>3. Set(c, [cl[c] EXCEPT !.pc = "capture", !.left = cl[c].left - 1])
      BY <1>2, <2>1 DEF Set, Command
    <2>4. Goes(c, {"capture"})
      BY <2>2, <2>3, LeftGoes
    <2>5. QED
      BY <1>1, <1>2, <2>2, <2>4, GoesAdvances DEF Follows
  <1>6. QED
    BY <1>3, <1>4, <1>5 DEF Image, Called

\* After the last call: the end, or a capture.
LEMMA FinishedMoves ==
  ASSUME ConTypeOK, NEW c \in Client, cl[c].pc \in {"release", "call"}, Finished(c)
  PROVE  Moves(c)
  <1>1. CASE Done(c)
    BY <1>1, DoneEnds DEF Moves
  <1>2. CASE Set(c, [cl[c] EXCEPT !.pc = "capture", !.left = 1])
    <2>1. "capture" \in PcNames /\ 1 \in Nat
      BY DEF PcNames
    <2>2. Goes(c, {"capture"})
      BY <1>2, <2>1, LeftGoes
    <2>3. QED
      BY <2>1, <2>2, GoesAdvances DEF Follows
  <1>3. QED
    BY <1>1, <1>2 DEF Finished

\* A step of a gesture: its effect if it counts, and where the command goes.
LEMMA MoveMoves ==
  ASSUME ConTypeOK, Resolving, NEW c \in Client, MovePointer(c)
  PROVE  Moves(c) /\ (UNCHANGED budget \/ (Ends(c) /\ Fault)) /\ UNCHANGED button
  <1>1. UNCHANGED button
    BY DEF MovePointer, Acts, PointTo
  <1>2. CASE Done(c)
    BY <1>1, <1>2, DoneEnds DEF Moves, MovePointer, Acts, Called
  <1>3. CASE ~Done(c)
    <2>1. cl[c].pc = "point" /\ Goto(c, "press") /\ UNCHANGED budget
      BY <1>3 DEF MovePointer, At, Acts, Called
    <2>2. "press" \in PcNames
      BY DEF PcNames
    <2>3. Goes(c, {"press"})
      BY <2>1, <2>2, GotoGoes
    <2>4. QED
      BY <1>1, <2>1, <2>2, <2>3, GoesAdvances DEF Follows
  <1>4. QED
    BY <1>2, <1>3

LEMMA PressMoves ==
  ASSUME ConTypeOK, NEW c \in Client, Press(c)
  PROVE  /\ Moves(c) /\ UNCHANGED pointer
         /\ \/ Ends(c) /\ Fault /\ button' \in {button, TRUE}
            \/ UNCHANGED budget /\ button' = TRUE /\ cl'[c].pc \in {"hop", "release"}
  <1>1. UNCHANGED pointer /\ cl[c].pc = "press" /\ button' \in {button, TRUE}
    BY DEF Press, At, Acts, Hold
  <1>2. CASE Done(c) /\ Fault
    BY <1>1, <1>2, DoneEnds DEF Moves
  <1>3. CASE /\ Goto(c, IF cl[c].cmd = "drag" THEN "hop" ELSE "release")
             /\ UNCHANGED budget /\ Hold(TRUE)
    <2> DEFINE q == IF cl[c].cmd = "drag" THEN "hop" ELSE "release"
    <2>1. q \in PcNames /\ q \in {"hop", "release"} /\ (q = "hop" => cl[c].cmd = "drag")
      BY DEF PcNames
    <2>2. Goto(c, q)
      BY <1>3
    <2> HIDE DEF q
    <2>3. Goes(c, {q})
      BY <2>1, <2>2, GotoGoes
    <2>4. cl'[c].pc = q
      BY <2>3 DEF Goes
    <2>5. Moves(c)
      BY <1>1, <2>1, <2>3, GoesAdvances DEF Follows
    <2>6. QED
      BY <1>1, <1>3, <2>1, <2>4, <2>5 DEF Hold
  <1>4. QED
    BY <1>2, <1>3 DEF Press, Acts, Called

LEMMA HopMoves ==
  ASSUME ConTypeOK, NEW c \in Client, Hop(c)
  PROVE  /\ Moves(c) /\ UNCHANGED button
         /\ \/ Ends(c) /\ Fault
            \/ UNCHANGED budget /\ cl'[c].pc = "release"
  <1>1. UNCHANGED button /\ cl[c].pc = "hop"
    BY DEF Hop, At, Acts, PointTo
  <1>2. CASE Done(c) /\ Fault
    BY <1>1, <1>2, DoneEnds DEF Moves
  <1>3. CASE Goto(c, "release") /\ UNCHANGED budget
    <2>1. "release" \in PcNames
      BY DEF PcNames
    <2>2. Goes(c, {"release"})
      BY <1>3, <2>1, GotoGoes
    <2>3. cl'[c].pc = "release"
      BY <2>2 DEF Goes
    <2>4. QED
      BY <1>1, <1>3, <2>1, <2>2, <2>3, GoesAdvances DEF Follows
  <1>4. QED
    BY <1>2, <1>3 DEF Hop, Acts, Called

LEMMA ReleaseMoves ==
  ASSUME ConTypeOK, NEW c \in Client, Release(c)
  PROVE  /\ Moves(c) /\ UNCHANGED pointer
         /\ \/ Fault /\ button' \in {button, FALSE}
            \/ UNCHANGED budget /\ button' = FALSE
  <1>1. UNCHANGED pointer /\ cl[c].pc = "release"
    BY DEF Release, At, Acts, Hold
  <1>2. \/ Fault /\ button' \in {button, FALSE}
        \/ UNCHANGED budget /\ button' = FALSE
    BY DEF Release, Acts, Called, Hold
  <1>3. CASE Done(c)
    BY <1>1, <1>2, <1>3, DoneEnds DEF Moves
  <1>4. CASE cl[c].left > 1 /\ Set(c, [cl[c] EXCEPT !.left = @ - 1, !.pc = "press"])
    <2>1. cl[c] \in Command /\ cl[c].left \in Nat /\ "press" \in PcNames
      BY DEF ConTypeOK, Command, PcNames
    <2>2. Set(c, [cl[c] EXCEPT !.pc = "press", !.left = cl[c].left - 1])
      BY <1>4, <2>1 DEF Set, Command
    <2>3. cl[c].left - 1 \in Nat
      BY <1>4, <2>1
    <2> DEFINE n == cl[c].left - 1
    <2>4. n \in Nat /\ Set(c, [cl[c] EXCEPT !.pc = "press", !.left = n])
      BY <2>2, <2>3
    <2> HIDE DEF n
    <2>5. Goes(c, {"press"})
      BY <2>1, <2>4, LeftGoes
    <2>6. QED
      BY <1>1, <1>2, <2>1, <2>5, GoesAdvances DEF Follows
  <1>5. CASE Finished(c)
    BY <1>1, <1>2, <1>5, FinishedMoves
  <1>6. QED
    BY <1>3, <1>4, <1>5 DEF Release, Acts, Called

LEMMA LookMoves ==
  ASSUME ConTypeOK, Resolving, NEW c \in Client, LookAt(c)
  PROVE  Moves(c) /\ (UNCHANGED budget \/ Fault)
  <1>1. cl[c].pc = "look" /\ (UNCHANGED budget \/ Fault)
    BY DEF LookAt, At, Called
  <1>2. CASE Done(c)
    BY <1>1, <1>2, DoneEnds DEF Moves
  <1>3. CASE Set(c, [cl[c] EXCEPT !.looks = @ - 1,
                                  !.pc = IF cl[c].looks > 1 THEN "look" ELSE "call"])
    <2> DEFINE q == IF cl[c].looks > 1 THEN "look" ELSE "call"
               k == cl[c].looks - 1
    <2>1. q \in PcNames /\ q \in {"look", "call"}
      BY DEF PcNames
    <2>2. cl[c] \in Command /\ cl[c].looks \in Nat /\ cl[c].looks >= 1
      BY <1>1 DEF ConTypeOK, Command, Resolving
    <2>3. k \in Nat /\ (q = "look" => k >= 1)
      BY <2>2
    <2>4. Set(c, [cl[c] EXCEPT !.pc = q, !.looks = k])
      BY <1>3, <2>2 DEF Set, Command
    <2> HIDE DEF q, k
    <2>5. Goes(c, {q})
      BY <2>1, <2>3, <2>4, LooksGoes
    <2>6. cl'[c].looks = k
      BY <2>2, <2>4 DEF Set, ConTypeOK, Command
    <2>7. cl'[c].pc = q
      BY <2>5 DEF Goes
    <2>8. Advances(c)
      BY <1>1, <2>1, <2>3, <2>5, <2>6, <2>7 DEF Advances, Goes, Follows
    <2>9. QED
      BY <1>1, <2>8 DEF Moves
  <1>4. QED
    BY <1>2, <1>3 DEF LookAt, Called

LEMMA CallMoves ==
  ASSUME ConTypeOK, NEW c \in Client, CallGuest(c)
  PROVE  Moves(c) /\ (UNCHANGED budget \/ Fault) /\ UNCHANGED <<pointer, button>>
  <1>1. /\ cl[c].pc = "call" /\ (UNCHANGED budget \/ Fault)
        /\ UNCHANGED <<pointer, button>>
    BY DEF CallGuest, At, Acts, Called
  <1>2. CASE Done(c)
    BY <1>1, <1>2, DoneEnds DEF Moves
  <1>3. CASE cl[c].left > 1 /\ Set(c, [cl[c] EXCEPT !.left = @ - 1])
    <2>1. cl[c] \in Command /\ cl[c].left \in Nat /\ "call" \in PcNames
      BY DEF ConTypeOK, Command, PcNames
    <2> DEFINE n == cl[c].left - 1
    <2>2. n \in Nat
      BY <1>3, <2>1
    <2>3. Set(c, [cl[c] EXCEPT !.pc = "call", !.left = n])
      BY <1>1, <1>3, <2>1 DEF Set, Command
    <2> HIDE DEF n
    <2>4. Goes(c, {"call"})
      BY <2>1, <2>2, <2>3, LeftGoes
    <2>5. QED
      BY <1>1, <2>1, <2>4, GoesAdvances DEF Follows
  <1>4. CASE Finished(c)
    BY <1>1, <1>4, FinishedMoves
  <1>5. QED
    BY <1>2, <1>3, <1>4 DEF CallGuest, Acts, Called

LEMMA SaveMoves ==
  ASSUME ConTypeOK, NEW c \in Client, OpenTmp(c) \/ WriteTmp(c) \/ Replace(c)
  PROVE  Moves(c)
  <1>1. CASE OpenTmp(c)
    <2>1. "write" \in PcNames /\ cl[c].pc = "open" /\ Goto(c, "write")
      BY <1>1 DEF OpenTmp, At, PcNames
    <2>2. Goes(c, {"write"})
      BY <2>1, GotoGoes
    <2>3. QED
      BY <2>1, <2>2, GoesAdvances DEF Follows
  <1>2. CASE WriteTmp(c)
    <2>1. "replace" \in PcNames /\ cl[c].pc = "write" /\ Goto(c, "replace")
      BY <1>2 DEF WriteTmp, At, PcNames
    <2>2. Goes(c, {"replace"})
      BY <2>1, GotoGoes
    <2>3. QED
      BY <2>1, <2>2, GoesAdvances DEF Follows
  <1>3. CASE Replace(c)
    BY <1>3, DoneEnds DEF Replace, Moves
  <1>4. QED
    BY <1>1, <1>2, <1>3

LEMMA KilledEnds ==
  ASSUME ConTypeOK, NEW c \in Client, Killed(c) PROVE Ends(c)
  BY DoneEnds DEF Killed

-----------------------------------------------------------------------------
(* The steps that touch neither the store nor what is known of its state.  *)

\* Buttons: a step that leaves them alone.
LEMMA ButtonStill ==
  ASSUME ConTypeOK, ButtonsComeUp, NEW c \in Client, Moves(c) \/ Begins(c),
         cl[c].pc \notin {"hop", "release"}, UNCHANGED button,
         UNCHANGED budget \/ UNCHANGED faults \/ Fault
  PROVE  ButtonsComeUp'
  <1> SUFFICES ASSUME faults' = 0, \A d \in Client : cl'[d].pc \notin {"hop", "release"}
               PROVE  ~button
    BY DEF ButtonsComeUp
  <1>1. faults = 0
    BY FaultTyped DEF budget
  <1>2. \A d \in Client : cl[d].pc \notin {"hop", "release"}
    BY MovesTyped
  <1>3. QED
    BY <1>1, <1>2 DEF ButtonsComeUp

Quiet(c) ==
  /\ Moves(c)
  /\ cl[c].pc \notin Saving \cup {"fetch", "idle"}
  /\ UNCHANGED <<calvars, size, owner, overlap>>
  /\ UNCHANGED budget \/ Fault
  /\ shot' = shot \/ Dumped
  /\ Looks(c) => Dumped
  /\ pointer' \in Nat /\ button' \in BOOLEAN
  /\ ButtonsComeUp'

LEMMA LookingIsQuiet ==
  ASSUME CInv, NEW c \in Client, Dump(c) \/ Capture(c) \/ Image(c)
  PROVE  Quiet(c)
  <1>1. /\ cl[c].pc \in {"dump", "capture", "image"}
        /\ UNCHANGED <<calvars, size, owner, overlap, pointer, button>>
        /\ shot' = shot \/ Dumped
    BY DEF Dump, Capture, Image, At, guestvars
  <1>2. Moves(c) /\ (UNCHANGED budget \/ Fault) /\ (Looks(c) => Dumped)
    <2>1. CASE Dump(c)
      BY <2>1, DumpMoves DEF CInv, Moves, Ends, Looks
    <2>2. CASE Capture(c)
      BY <2>2, CaptureMoves DEF CInv, Capture, At, Looks
    <2>3. CASE Image(c)
      BY <2>3, ImageMoves DEF CInv, Image, At, Looks
    <2>4. QED
      BY <2>1, <2>2, <2>3
  <1>3. ButtonsComeUp'
    BY <1>1, <1>2, ButtonStill DEF CInv
  <1>4. pointer \in Nat /\ button \in BOOLEAN
    BY DEF CInv, ConTypeOK
  <1>5. cl[c].pc \notin Saving \cup {"fetch", "idle"}
    BY <1>1 DEF Saving
  <1>6. QED
    BY <1>1, <1>2, <1>3, <1>4, <1>5 DEF Quiet

\* The points a gesture goes to have been resolved.
LEMMA PathTyped ==
  ASSUME ConTypeOK, Resolving, Located, NEW c \in Client
  PROVE  /\ cl[c].pc = "point" => cl[c].path[1] \in Nat
         /\ cl[c].pc = "hop" => cl[c].path[2] \in Nat
  <1>1. cl[c].path \in Seq(Nat)
    BY DEF ConTypeOK, Command
  <1>2. cl[c].pc = "point" => Len(cl[c].path) \in {1, 2}
    BY DEF Resolving, Needs
  <1>3. cl[c].pc = "hop" => Len(cl[c].path) = 2
    BY DEF Resolving, Located, Needs
  <1>4. QED
    BY <1>1, <1>2, <1>3

LEMMA ActingIsQuiet ==
  ASSUME CInv, NEW c \in Client,
         MovePointer(c) \/ Press(c) \/ Hop(c) \/ Release(c) \/ LookAt(c) \/ CallGuest(c)
  PROVE  Quiet(c)
  <1>1. /\ cl[c].pc \in {"point", "press", "hop", "release", "look", "call"}
        /\ UNCHANGED <<calvars, size, owner, overlap, shot>>
    BY DEF MovePointer, Press, Hop, Release, LookAt, CallGuest, Acts, At, guestvars
  <1>2. pointer \in Nat /\ button \in BOOLEAN
    BY DEF CInv, ConTypeOK
  <1>3. /\ Moves(c) /\ (UNCHANGED budget \/ Fault) /\ ButtonsComeUp'
        /\ pointer' \in Nat /\ button' \in BOOLEAN
    <2>1. CASE MovePointer(c)
      <3>1. Moves(c) /\ (UNCHANGED budget \/ Fault) /\ UNCHANGED button
        BY <2>1, MoveMoves DEF CInv
      <3>2. cl[c].pc = "point" /\ pointer' \in {pointer, cl[c].path[1]}
        BY <2>1 DEF MovePointer, At, Acts, PointTo
      <3>3. pointer' \in Nat
        BY <1>2, <3>2, PathTyped DEF CInv
      <3>4. ButtonsComeUp'
        BY <3>1, <3>2, ButtonStill DEF CInv
      <3>5. QED
        BY <1>2, <3>1, <3>3, <3>4
    <2>2. CASE Press(c)
      <3>1. /\ Moves(c) /\ UNCHANGED pointer
            /\ \/ Ends(c) /\ Fault /\ button' \in {button, TRUE}
               \/ UNCHANGED budget /\ button' = TRUE /\ cl'[c].pc \in {"hop", "release"}
        BY <2>2, PressMoves DEF CInv
      <3>2. faults' # 0 \/ cl'[c].pc \in {"hop", "release"}
        BY <3>1, FaultTyped DEF CInv
      <3>3. ButtonsComeUp'
        BY <3>2 DEF ButtonsComeUp
      <3>4. QED
        BY <1>2, <3>1, <3>3
    <2>3. CASE Hop(c)
      <3>1. /\ Moves(c) /\ UNCHANGED button
            /\ (Ends(c) /\ Fault) \/ (UNCHANGED budget /\ cl'[c].pc = "release")
        BY <2>3, HopMoves DEF CInv
      <3>2. cl[c].pc = "hop" /\ pointer' \in {pointer, cl[c].path[2]}
        BY <2>3 DEF Hop, At, Acts, PointTo
      <3>3. pointer' \in Nat
        BY <1>2, <3>2, PathTyped DEF CInv
      <3>4. ButtonsComeUp'
        BY <3>1, FaultTyped DEF CInv, ButtonsComeUp
      <3>5. QED
        BY <1>2, <3>1, <3>3, <3>4
    <2>4. CASE Release(c)
      <3>1. /\ Moves(c) /\ UNCHANGED pointer
            /\ \/ Fault /\ button' \in {button, FALSE}
               \/ UNCHANGED budget /\ button' = FALSE
        BY <2>4, ReleaseMoves DEF CInv
      <3>2. faults' # 0 \/ ~button'
        BY <3>1, FaultTyped DEF CInv
      <3>3. ButtonsComeUp'
        BY <3>2 DEF ButtonsComeUp
      <3>4. QED
        BY <1>2, <3>1, <3>3
    <2>5. CASE LookAt(c)
      <3>1. cl[c].pc = "look" /\ UNCHANGED <<pointer, button>>
        BY <2>5 DEF LookAt, At, guestvars
      <3>2. Moves(c) /\ (UNCHANGED budget \/ Fault)
        BY <2>5, LookMoves DEF CInv
      <3>3. QED
        BY <1>2, <3>1, <3>2, ButtonStill DEF CInv
    <2>6. CASE CallGuest(c)
      <3>1. cl[c].pc = "call"
        BY <2>6 DEF CallGuest, At
      <3>2. Moves(c) /\ (UNCHANGED budget \/ Fault) /\ UNCHANGED <<pointer, button>>
        BY <2>6, CallMoves DEF CInv
      <3>3. QED
        BY <1>2, <3>1, <3>2, ButtonStill DEF CInv
    <2>7. QED
      BY <2>1, <2>2, <2>3, <2>4, <2>5, <2>6
  <1>4. ~Looks(c) /\ cl[c].pc \notin Saving \cup {"fetch", "idle"}
    BY <1>1 DEF Looks, Saving
  <1>5. QED
    BY <1>1, <1>3, <1>4 DEF Quiet

-----------------------------------------------------------------------------
(* What holds of every client's record, whoever moves.                     *)

\* Resize and Evict: the records keep everything but the two histories.
Marks ==
  /\ cl' \in [Client -> Command]
  /\ \A c \in Client :
       /\ cl'[c].pc = cl[c].pc /\ cl'[c].cmd = cl[c].cmd /\ cl'[c].asked = cl[c].asked
       /\ cl'[c].path = cl[c].path /\ cl'[c].looks = cl[c].looks /\ cl'[c].at = cl[c].at
       /\ cl'[c].reading = cl[c].reading /\ cl'[c].doc = cl[c].doc

LEMMA ChangedTyped ==
  ASSUME NEW me \in Command, NEW b \in BOOLEAN, NEW n, n = [me EXCEPT !.changed = b]
  PROVE  /\ n \in Command /\ n.changed = b /\ n.evicted = me.evicted
         /\ n.pc = me.pc /\ n.cmd = me.cmd /\ n.asked = me.asked /\ n.path = me.path
         /\ n.looks = me.looks /\ n.at = me.at /\ n.reading = me.reading /\ n.doc = me.doc
  BY DEF Command

LEMMA EvictedTyped ==
  ASSUME NEW me \in Command, NEW b \in BOOLEAN, NEW n, n = [me EXCEPT !.evicted = b]
  PROVE  /\ n \in Command /\ n.evicted = b /\ n.changed = me.changed
         /\ n.pc = me.pc /\ n.cmd = me.cmd /\ n.asked = me.asked /\ n.path = me.path
         /\ n.looks = me.looks /\ n.at = me.at /\ n.reading = me.reading /\ n.doc = me.doc
  BY DEF Command

LEMMA ResizeMarks ==
  ASSUME ConTypeOK, Resize
  PROVE  /\ Marks
         /\ \A c \in Client : cl'[c].changed = (cl[c].pc # "idle")
                              /\ cl'[c].evicted = cl[c].evicted
  <1>1. cl' = [c \in Client |-> [cl[c] EXCEPT !.changed = cl[c].pc # "idle"]]
    BY DEF Resize
  <1>2. ASSUME NEW c \in Client
        PROVE  /\ cl'[c] \in Command
               /\ cl'[c].changed = (cl[c].pc # "idle") /\ cl'[c].evicted = cl[c].evicted
               /\ cl'[c].pc = cl[c].pc /\ cl'[c].cmd = cl[c].cmd
               /\ cl'[c].asked = cl[c].asked /\ cl'[c].path = cl[c].path
               /\ cl'[c].looks = cl[c].looks /\ cl'[c].at = cl[c].at
               /\ cl'[c].reading = cl[c].reading /\ cl'[c].doc = cl[c].doc
    <2> DEFINE b == cl[c].pc # "idle"
               me == cl[c]
    <2>1. me \in Command /\ b \in BOOLEAN
      BY DEF ConTypeOK
    <2>2. cl'[c] = [me EXCEPT !.changed = b]
      BY <1>1
    <2> HIDE DEF b, me
    <2>3. /\ cl'[c] \in Command
          /\ cl'[c].changed = b /\ cl'[c].evicted = me.evicted
          /\ cl'[c].pc = me.pc /\ cl'[c].cmd = me.cmd
          /\ cl'[c].asked = me.asked /\ cl'[c].path = me.path
          /\ cl'[c].looks = me.looks /\ cl'[c].at = me.at
          /\ cl'[c].reading = me.reading /\ cl'[c].doc = me.doc
      BY <2>1, <2>2, ChangedTyped
    <2>4. QED
      BY <2>3 DEF b, me
  <1>3. cl' \in [Client -> Command]
    BY <1>1, <1>2
  <1>4. QED
    BY <1>2, <1>3 DEF Marks

LEMMA EvictMarks ==
  ASSUME ConTypeOK, Evict
  PROVE  /\ Marks
         /\ \A c \in Client : cl'[c].evicted = (cl[c].pc # "idle")
                              /\ cl'[c].changed = cl[c].changed
  <1>1. cl' = [c \in Client |-> [cl[c] EXCEPT !.evicted = cl[c].pc # "idle"]]
    BY DEF Evict
  <1>2. ASSUME NEW c \in Client
        PROVE  /\ cl'[c] \in Command
               /\ cl'[c].evicted = (cl[c].pc # "idle") /\ cl'[c].changed = cl[c].changed
               /\ cl'[c].pc = cl[c].pc /\ cl'[c].cmd = cl[c].cmd
               /\ cl'[c].asked = cl[c].asked /\ cl'[c].path = cl[c].path
               /\ cl'[c].looks = cl[c].looks /\ cl'[c].at = cl[c].at
               /\ cl'[c].reading = cl[c].reading /\ cl'[c].doc = cl[c].doc
    <2> DEFINE b == cl[c].pc # "idle"
               me == cl[c]
    <2>1. me \in Command /\ b \in BOOLEAN
      BY DEF ConTypeOK
    <2>2. cl'[c] = [me EXCEPT !.evicted = b]
      BY <1>1
    <2> HIDE DEF b, me
    <2>3. /\ cl'[c] \in Command
          /\ cl'[c].evicted = b /\ cl'[c].changed = me.changed
          /\ cl'[c].pc = me.pc /\ cl'[c].cmd = me.cmd
          /\ cl'[c].asked = me.asked /\ cl'[c].path = me.path
          /\ cl'[c].looks = me.looks /\ cl'[c].at = me.at
          /\ cl'[c].reading = me.reading /\ cl'[c].doc = me.doc
      BY <2>1, <2>2, EvictedTyped
    <2>4. QED
      BY <2>3 DEF b, me
  <1>3. cl' \in [Client -> Command]
    BY <1>1, <1>2
  <1>4. QED
    BY <1>2, <1>3 DEF Marks

LEMMA MarksKeep ==
  ASSUME Located, Resolving, Named, Marks PROVE Located' /\ Resolving' /\ Named'
  <1>1. Located'
    BY DEF Located, Marks
  <1>2. Resolving'
    BY DEF Resolving, Marks
  <1>3. Named'
    BY DEF Named, Marks
  <1>4. QED
    BY <1>1, <1>2, <1>3

\* The parts of the invariant about one client.
LocatedAt(me) ==
  /\ me.pc \in {"dump", "fetch"} => me.cmd \in Pointing \cup {"start", "commit"}
  /\ me.pc \in Input \cup {"look"} => me.cmd \in Acting
  /\ me.pc \in {"point", "press", "hop", "release"} => me.cmd \in Pointing
  /\ me.pc = "hop" => me.cmd = "drag"
  /\ me.pc \in {"capture", "image"} /\ me.cmd = "start" => me.at \in Size
  /\ me.pc \in Saving => me.cmd = "commit"
  /\ me.cmd = "commit" /\ me.pc # "idle" => me.reading \in Reading

ResolvingAt(me) ==
  /\ me.pc = "idle" => me.path = <<>>
  /\ me.pc \in {"dump", "fetch"} /\ me.cmd \in Pointing =>
       Len(me.asked) >= 1 /\ Len(me.path) + Len(me.asked) = Needs(me.cmd)
  /\ me.pc \in {"point", "press", "hop", "release"} => Len(me.path) = Needs(me.cmd)
  /\ me.pc = "look" => me.looks >= 1

LEMMA LocatedKept ==
  ASSUME ConTypeOK, Located, NEW c \in Client, Moves(c) \/ Begins(c),
         cl[c].pc = "fetch" => shot.size \in Size
  PROVE  Located'
  <1>1. \A d \in Client : LocatedAt(cl[d])
    BY DEF Located, LocatedAt
  <1>2. \A d \in Client \ {c} : cl'[d] = cl[d]
    BY MovesTyped
  <1>3. LocatedAt(cl'[c])
    <2>1. CASE Ends(c)
      BY <2>1 DEF Ends, LocatedAt, Input, Saving
    <2>2. CASE Advances(c)
      BY <1>1, <2>2 DEF Advances, Goes, Follows, LocatedAt, Input, Saving, Pointing, Acting
    <2>3. CASE Looks(c)
      BY <1>1, <2>3 DEF Looks, LocatedAt, Input, Saving
    <2>4. CASE Resolves(c)
      BY <1>1, <2>4 DEF Resolves, LocatedAt, Input, Saving, Pointing, Acting
    <2>5. CASE DrawsGrid(c)
      BY <1>1, <2>5 DEF DrawsGrid, LocatedAt, Input, Saving
    <2>6. CASE Fits(c)
      BY <1>1, <2>6 DEF Fits, LocatedAt, Input, Saving
    <2>7. CASE Begins(c)
      <3>1. PICK r \in Requests :
              /\ Gate(r) /\ cl'[c].cmd = r.cmd /\ cl'[c].pc = FirstPc(r)
              /\ cl'[c].looks = r.looks
              /\ r.cmd = "commit" => cl[c].reading # NoReading
              /\ cl'[c].asked = [i \in 1 .. Len(r.places) |-> PointAt(r.places[i], size)]
        BY <2>7 DEF Begins
      <3>2. r.cmd \in CommandNames
        BY ConsoleAssumption
      <3>3. cl[c].reading \in Reading \cup {NoReading} /\ cl'[c].reading = cl[c].reading
        BY <2>7 DEF Begins, ConTypeOK, Command
      <3>4. QED
        BY <3>1, <3>2, <3>3
           DEF LocatedAt, FirstPc, CommandNames, Input, Saving, Pointing, Acting
    <2>8. QED
      BY <2>1, <2>2, <2>3, <2>4, <2>5, <2>6, <2>7 DEF Moves
  <1>4. \A d \in Client : LocatedAt(cl'[d])
    BY <1>1, <1>2, <1>3
  <1>5. QED
    BY <1>4 DEF Located, LocatedAt

LEMMA ResolvingKept ==
  ASSUME ConTypeOK, Located, Resolving, NEW c \in Client, Moves(c) \/ Begins(c)
  PROVE  Resolving'
  <1>1. \A d \in Client : ResolvingAt(cl[d])
    BY DEF Resolving, ResolvingAt
  <1>2. \A d \in Client \ {c} : cl'[d] = cl[d]
    BY MovesTyped
  <1>3. cl[c].path \in Seq(Nat) /\ cl[c].asked \in Seq(Point)
    BY DEF ConTypeOK, Command
  <1>4. ResolvingAt(cl'[c])
    <2>1. CASE Ends(c)
      BY <2>1 DEF Ends, ResolvingAt
    <2>2. CASE Advances(c)
      BY <1>1, <2>2 DEF Advances, Goes, Follows, ResolvingAt
    <2>3. CASE Looks(c)
      BY <1>1, <2>3 DEF Looks, ResolvingAt
    <2>4. CASE Resolves(c)
      <3> DEFINE p == cl[c].path
                 a == cl[c].asked
                 q == IF Len(a) = 1 THEN "point" ELSE "dump"
      <3>1. PICK y : cl'[c].path = Append(p, y)
        BY <2>4 DEF Resolves
      <3>2. cl'[c].asked = Tail(a) /\ cl'[c].cmd = cl[c].cmd /\ cl'[c].pc = q
        BY <2>4 DEF Resolves
      <3>3. cl[c].pc = "fetch" /\ cl[c].cmd \in Pointing
        BY <2>4 DEF Resolves
      <3>4. Len(a) >= 1 /\ Len(p) + Len(a) = Needs(cl[c].cmd)
        BY <1>1, <3>3 DEF ResolvingAt
      <3>5. Len(p) \in Nat /\ Len(a) \in Nat /\ a \in Seq(Point)
        BY <1>3
      <3> HIDE DEF p, a, q
      <3>6. Len(Tail(a)) = Len(a) - 1
        BY <3>4, <3>5
      <3>7. Len(Append(p, y)) = Len(p) + 1
        BY <1>3 DEF p
      <3>8. Len(cl'[c].path) + Len(cl'[c].asked) = Needs(cl'[c].cmd)
        <4>1. (Len(p) + 1) + (Len(a) - 1) = Len(p) + Len(a)
          BY <3>5
        <4>2. Len(cl'[c].path) = Len(p) + 1 /\ Len(cl'[c].asked) = Len(a) - 1
          BY <3>1, <3>2, <3>6, <3>7
        <4>3. QED
          BY <3>2, <3>4, <4>1, <4>2
      <3>9. CASE Len(a) = 1
        <4>1. Len(cl'[c].path) = Needs(cl'[c].cmd) /\ cl'[c].pc = "point"
          BY <3>1, <3>2, <3>4, <3>5, <3>7, <3>9 DEF q
        <4>2. QED
          BY <4>1 DEF ResolvingAt
      <3>10. CASE Len(a) # 1
        <4>1. Len(cl'[c].asked) >= 1
          <5> DEFINE k == Len(a)
          <5>1. k - 1 >= 1
            <6>1. k \in Nat /\ k >= 1 /\ k # 1
              BY <3>4, <3>5, <3>10
            <6> HIDE DEF k
            <6>2. QED
              BY <6>1
          <5>2. Len(cl'[c].asked) = Len(a) - 1
            BY <3>2, <3>6
          <5>3. QED
            BY <5>1, <5>2
        <4>2. cl'[c].pc = "dump"
          BY <3>2, <3>10 DEF q
        <4>3. QED
          BY <3>8, <4>1, <4>2 DEF ResolvingAt
      <3>11. QED
        BY <3>9, <3>10
    <2>5. CASE DrawsGrid(c)
      BY <2>5 DEF DrawsGrid, ResolvingAt
    <2>6. CASE Fits(c)
      BY <2>6 DEF Fits, ResolvingAt
    <2>7. CASE Begins(c)
      <3>1. PICK r \in Requests :
              /\ Gate(r) /\ cl'[c].cmd = r.cmd /\ cl'[c].pc = FirstPc(r)
              /\ cl'[c].looks = r.looks
              /\ r.cmd = "commit" => cl[c].reading # NoReading
              /\ cl'[c].asked = [i \in 1 .. Len(r.places) |-> PointAt(r.places[i], size)]
        BY <2>7 DEF Begins
      <3>2. /\ r.cmd \in CommandNames /\ r.places \in Seq(Places) /\ r.looks \in Nat
            /\ Len(r.places) = CASE r.cmd = "drag" -> 2 [] r.cmd \in {"move", "click"} -> 1
                                 [] OTHER -> 0
        BY ConsoleAssumption
      <3>3. Len(cl'[c].asked) = Len(r.places)
        BY <3>1, <3>2
      <3>4. cl'[c].path = <<>> /\ Len(cl'[c].path) = 0
        <4>1. cl[c].pc = "idle" /\ cl'[c].path = cl[c].path
          BY <2>7 DEF Begins
        <4>2. cl[c].path = <<>>
          BY <1>1, <4>1 DEF ResolvingAt
        <4>3. Len(<<>>) = 0
          OBVIOUS
        <4>4. QED
          BY <4>1, <4>2, <4>3
      <3>5. cl'[c].pc = "look" => cl'[c].looks >= 1
        BY <3>1, <3>2 DEF FirstPc
      <3>6. r.cmd \in Pointing => Len(r.places) = Needs(r.cmd) /\ Needs(r.cmd) \in {1, 2}
        BY <3>2 DEF Pointing, Needs
      <3>7. cl'[c].pc \notin {"idle", "point", "press", "hop", "release"}
        BY <3>1, <3>2 DEF FirstPc
      <3>8. r.cmd \in Pointing =>
              Len(cl'[c].asked) >= 1
              /\ Len(cl'[c].path) + Len(cl'[c].asked) = Needs(cl'[c].cmd)
        BY <3>1, <3>3, <3>4, <3>6
      <3>9. QED
        BY <3>1, <3>5, <3>7, <3>8 DEF ResolvingAt
    <2>8. QED
      BY <2>1, <2>2, <2>3, <2>4, <2>5, <2>6, <2>7 DEF Moves
  <1>5. \A d \in Client : ResolvingAt(cl'[d])
    BY <1>1, <1>2, <1>4
  <1>6. QED
    BY <1>5 DEF Resolving, ResolvingAt

LEMMA GatedKept ==
  ASSUME ConTypeOK, Gated, NEW c \in Client, Moves(c) \/ Begins(c), UNCHANGED owner
  PROVE  Gated'
  <1>1. \A d \in Client \ {c} : cl'[d] = cl[d]
    BY MovesTyped
  <1>2. cl'[c].pc # "idle" /\ cl'[c].cmd \in Acting => owner = "ours" \/ cl'[c].evicted
    <2>1. CASE Moves(c)
      <3>1. \/ cl'[c].pc = "idle"
            \/ /\ cl'[c].cmd = cl[c].cmd /\ cl'[c].evicted = cl[c].evicted
               /\ cl[c].pc # "idle"
        BY <2>1 DEF Moves, Ends, Advances, Goes, Follows, Looks, Resolves, DrawsGrid, Fits
      <3>2. QED
        BY <3>1 DEF Gated
    <2>2. CASE Begins(c)
      <3>1. PICK r \in Requests : Gate(r) /\ cl'[c].cmd = r.cmd
        BY <2>2 DEF Begins
      <3>2. r.cmd \in Acting => r.owned
        BY ConsoleAssumption DEF Acting
      <3>3. QED
        BY <3>1, <3>2 DEF Gate
    <2>3. QED
      BY <2>1, <2>2
  <1>3. QED
    BY <1>1, <1>2 DEF Gated

\* The named points: kept, dropped from the front, or the request's own.
LEMMA NamedKept ==
  ASSUME ConTypeOK, Named, NEW c \in Client, Moves(c) \/ Begins(c)
  PROVE  Named'
  <1> DEFINE Good(a) == \A i \in 1 .. Len(a) :
                          \E place \in Places, s \in Size : a[i] = PointAt(place, s)
  <1>1. \A d \in Client \ {c} : cl'[d] = cl[d]
    BY MovesTyped
  <1>2. Good(cl[c].asked) /\ cl[c].asked \in Seq(Point)
    BY DEF Named, ConTypeOK, Command
  <1>3. Good(cl'[c].asked)
    <2>1. CASE Ends(c)
      <3>1. Len(cl'[c].asked) = 0
        BY <2>1 DEF Ends
      <3>2. QED
        BY <3>1
    <2>2. CASE cl'[c].asked = cl[c].asked
      BY <1>2, <2>2
    <2>3. CASE Resolves(c)
      <3> DEFINE a == cl[c].asked
      <3>1. cl'[c].asked = Tail(a)
        BY <2>3 DEF Resolves
      <3>2. a \in Seq(Point) /\ Good(a)
        BY <1>2
      <3> HIDE DEF a
      <3>3. CASE a = <<>>
        BY <3>1, <3>3
      <3>4. CASE a # <<>>
        <4>1. \A i \in 1 .. Len(Tail(a)) : i + 1 \in 1 .. Len(a) /\ Tail(a)[i] = a[i + 1]
          BY <3>2, <3>4
        <4>2. QED
          BY <3>1, <3>2, <4>1
      <3>5. QED
        BY <3>3, <3>4
    <2>4. CASE Begins(c)
      <3>1. PICK r \in Requests :
              cl'[c].asked = [i \in 1 .. Len(r.places) |-> PointAt(r.places[i], size)]
        BY <2>4 DEF Begins
      <3>2. r.places \in Seq(Places) /\ size \in Size
        BY ConsoleAssumption DEF ConTypeOK
      <3>3. Len(cl'[c].asked) = Len(r.places)
        BY <3>1, <3>2
      <3>4. \A i \in 1 .. Len(r.places) :
              r.places[i] \in Places /\ cl'[c].asked[i] = PointAt(r.places[i], size)
        BY <3>1, <3>2
      <3>5. QED
        BY <3>2, <3>3, <3>4
    <2>5. QED
      BY <2>1, <2>2, <2>3, <2>4 DEF Moves, Advances, Goes, Looks, DrawsGrid, Fits
  <1>4. QED
    BY <1>1, <1>3 DEF Named

-----------------------------------------------------------------------------
(* Frames.                                                                 *)

\* What the steps of a client do to the host's frame file.
Frames(c) ==
  \/ Dumped
  \/ shot' = shot /\ ~Looks(c) /\ ~Begins(c)
  \/ shot' = [shot EXCEPT !.since = @ \ {c}] /\ Begins(c)

LEMMA FrameKept ==
  ASSUME ConTypeOK, FrameThere, SizeIsFresh, NEW c \in Client, Moves(c) \/ Begins(c),
         Frames(c), UNCHANGED size
  PROVE  FrameThere' /\ SizeIsFresh' /\ shot' \in [size : Size \cup {0}, since : SUBSET Client]
  <1>1. shot \in [size : Size \cup {0}, since : SUBSET Client] /\ size \in Size
    BY DEF ConTypeOK
  <1>2. \A d \in Client \ {c} : cl'[d] = cl[d]
    BY MovesTyped
  <1>3. CASE Dumped
    BY <1>1, <1>3 DEF Dumped, FrameThere, SizeIsFresh, At
  <1>4. CASE shot' = shot /\ ~Looks(c) /\ ~Begins(c)
    <2>1. cl'[c].pc # "fetch"
      BY <1>4 DEF Moves, Ends, Advances, Follows, Resolves, DrawsGrid, Fits
    <2>2. QED
      BY <1>1, <1>2, <1>4, <2>1 DEF FrameThere, SizeIsFresh, At
  <1>5. CASE shot' = [shot EXCEPT !.since = @ \ {c}] /\ Begins(c)
    <2>1. cl'[c].pc # "fetch"
      BY <1>5 DEF Begins, FirstPc
    <2>2. shot'.size = shot.size /\ shot'.since = shot.since \ {c}
      BY <1>1, <1>5
    <2>3. shot' \in [size : Size \cup {0}, since : SUBSET Client]
      BY <1>1, <1>5
    <2>4. SizeIsFresh'
      BY <1>2, <2>1, <2>2 DEF SizeIsFresh, At
    <2>5. QED
      BY <2>2, <2>3, <2>4 DEF FrameThere
  <1>6. QED
    BY <1>3, <1>4, <1>5 DEF Frames

\* A pixel a point becomes lies in the frame it was checked against.
LEMMA ResolvedInFrame ==
  ASSUME ConTypeOK, Filed, NEW c \in Client, NEW s \in Size, NEW p \in Point,
         NEW y \in Resolved(c, p, s)
  PROVE  y \in Nat /\ y < s
  <1>1. CASE p.space = "framebuffer"
    BY <1>1, SizeAssumption DEF Resolved
  <1>2. CASE p.space = "image"
    <2>1. Usable(Find(c, s)) /\ y = ToFramebuffer(Find(c, s), p.x)
      BY <1>2 DEF Resolved
    <2>2. Find(c, s) # NoRecord
      BY <2>1 DEF Usable, Trustworthy
    <2>3. file \in Document /\ Find(c, s) = file[c][s]
      <3>1. file \notin {Absent, Broken}
        BY <2>2 DEF Find, Load, Empty
      <3>2. QED
        BY <3>1 DEF ConTypeOK, CalTypeOK, Find, Load
    <2>4. Find(c, s).at = s /\ Find(c, s) \in Record
      BY <2>2, <2>3 DEF Filed, WellFiled, Document
    <2>5. p.x \in Nat
      BY DEF Point
    <2>6. QED
      BY <2>1, <2>4, <2>5, Clamped
  <1>3. QED
    BY <1>1, <1>2 DEF Point

LEMMA OnScreenKept ==
  ASSUME ConTypeOK, Located, Resolving, FrameThere, SizeIsFresh, OnScreen, Filed,
         NEW c \in Client, Moves(c) \/ Begins(c), Frames(c), Looks(c) => Dumped,
         UNCHANGED size
  PROVE  OnScreen'
  <1> DEFINE Below(path) == \A i \in 1 .. Len(path) : path[i] < size
  <1>1. size \in Size /\ shot \in [size : Size \cup {0}, since : SUBSET Client]
    BY DEF ConTypeOK
  <1>2. \A d \in Client \ {c} : cl'[d] = cl[d]
    BY MovesTyped
  <1>3. shot'.size \in {shot.size, size}
    BY <1>1 DEF Frames, Dumped
  <1>4. Below(<<>>)
    OBVIOUS
  <1>5. cl'[c].pc # "idle" /\ ~cl'[c].changed =>
          (cl'[c].pc = "fetch" => shot'.size = size) /\ Below(cl'[c].path)
    <2> SUFFICES ASSUME cl'[c].pc # "idle", ~cl'[c].changed
                 PROVE  (cl'[c].pc = "fetch" => shot'.size = size) /\ Below(cl'[c].path)
      OBVIOUS
    <2>1. CASE Ends(c)
      BY <2>1 DEF Ends
    <2>2. CASE Advances(c)
      BY <2>2 DEF Advances, Goes, Follows, OnScreen
    <2>3. CASE Looks(c)
      <3>1. shot'.size = size
        BY <2>3 DEF Dumped
      <3>2. CASE cl[c].path = <<>>
        BY <1>4, <2>3, <3>1, <3>2 DEF Looks
      <3>3. CASE cl[c].path # <<>>
        <4>1. ~cl[c].changed /\ cl[c].pc # "idle" /\ cl'[c].path = cl[c].path
          BY <2>3, <3>3 DEF Looks
        <4>2. Below(cl[c].path)
          BY <4>1 DEF OnScreen
        <4>3. QED
          BY <3>1, <4>1, <4>2
      <3>4. QED
        BY <3>2, <3>3
    <2>4. CASE Resolves(c)
      <3>1. cl[c].pc = "fetch" /\ cl[c].cmd \in Pointing /\ ~cl[c].changed
        BY <2>4 DEF Resolves
      <3>2. shot.size = size /\ Below(cl[c].path)
        BY <3>1 DEF OnScreen, At
      <3>3. PICK y \in Resolved(c, Head(cl[c].asked), size) :
              cl'[c].path = Append(cl[c].path, y)
        BY <2>4, <3>2 DEF Resolves
      <3>4. Len(cl[c].asked) >= 1
        BY <3>1 DEF Resolving
      <3>5. Head(cl[c].asked) \in Point
        BY <3>4 DEF ConTypeOK, Command
      <3>6. y \in Nat /\ y < size
        BY <1>1, <3>5, ResolvedInFrame
      <3>7. cl[c].path \in Seq(Nat)
        BY DEF ConTypeOK, Command
      <3> DEFINE p == cl[c].path
      <3>8. p \in Seq(Nat) /\ Below(p) /\ cl'[c].path = Append(p, y)
        BY <3>2, <3>3, <3>7
      <3> HIDE DEF p
      <3>9. Below(Append(p, y))
        BY <3>6, <3>8
      <3>10. cl'[c].pc # "fetch"
        BY <2>4 DEF Resolves
      <3>11. QED
        BY <3>8, <3>9, <3>10
    <2>5. CASE DrawsGrid(c) \/ Fits(c)
      BY <2>5 DEF DrawsGrid, Fits, OnScreen
    <2>6. CASE Begins(c)
      <3>1. cl'[c].path = <<>>
        BY <2>6 DEF Begins, Resolving
      <3>2. cl'[c].pc # "fetch"
        BY <2>6 DEF Begins, FirstPc
      <3>3. QED
        BY <1>4, <3>1, <3>2
    <2>7. QED
      BY <2>1, <2>2, <2>3, <2>4, <2>5, <2>6 DEF Moves
  <1>6. \A d \in Client \ {c} : cl'[d].pc # "idle" /\ ~cl'[d].changed =>
          (cl'[d].pc = "fetch" => shot'.size = size) /\ Below(cl'[d].path)
    BY <1>2, <1>3 DEF OnScreen, At
  <1>7. \A d \in Client : cl'[d].pc # "idle" /\ ~cl'[d].changed =>
          (cl'[d].pc = "fetch" => shot'.size = size) /\ Below(cl'[d].path)
    BY <1>5, <1>6
  <1>8. QED
    BY <1>7 DEF OnScreen, At

-----------------------------------------------------------------------------
(* The store.                                                              *)

LEMMA LoadFiled ==
  ASSUME CalTypeOK, Filed PROVE WellFiled(Load)
  BY EmptyIsDocument DEF Load, CalTypeOK, Filed

\* An upsert adds one record, filed under its own size, and drops none.
LEMMA UpsertKeeps ==
  ASSUME CalTypeOK, Filed, NEW c \in Client, NEW s \in Size, NEW r \in Reading
  PROVE  WellFiled(Upserted(c, s, r)) /\ Keeps(Upserted(c, s, r))
  <1> DEFINE new == [at |-> s, from |-> r]
             doc == Upserted(c, s, r)
  <1>1. Load \in Document /\ WellFiled(Load)
    BY LoadTyped, LoadFiled
  <1>2. new # NoRecord /\ new.at = s
    BY SizeAssumption DEF NoRecord
  <1>3. \A d \in Client, t \in Size :
          doc[d][t] = IF d = c /\ t = s THEN new ELSE Load[d][t]
    BY <1>1 DEF Upserted, Document
  <1> HIDE DEF new, doc
  <1>4. WellFiled(doc)
    BY <1>1, <1>2, <1>3 DEF WellFiled
  <1>5. Keeps(doc)
    BY <1>2, <1>3 DEF Keeps
  <1>6. QED
    BY <1>4, <1>5 DEF doc

\* A step that leaves the store alone and saves nothing new.
LEMMA FiledKept ==
  ASSUME ConTypeOK, Located, Filed, NEW c \in Client, Moves(c) \/ Begins(c),
         UNCHANGED <<file, temp>>, cl[c].pc = "fetch" => shot.size \in Size
  PROVE  Filed'
  <1>1. \A d \in Client \ {c} : cl'[d] = cl[d]
    BY MovesTyped
  <1>2. WellFiled(cl'[c].doc)
    <2>1. CASE Ends(c)
      BY <2>1, EmptyIsDocument DEF Ends
    <2>2. CASE Fits(c)
      <3>1. shot.size \in Size /\ cl[c].reading \in Reading
        BY <2>2 DEF Fits, Located
      <3>2. WellFiled(Upserted(c, shot.size, cl[c].reading))
        BY <3>1, UpsertKeeps DEF ConTypeOK
      <3>3. QED
        BY <2>2, <3>2 DEF Fits
    <2>3. CASE cl'[c].doc = cl[c].doc
      BY <2>3 DEF Filed
    <2>4. QED
      BY <2>1, <2>2, <2>3 DEF Moves, Advances, Goes, Looks, Resolves, DrawsGrid, Begins
  <1>3. \A d \in Client : WellFiled(cl'[d].doc)
    BY <1>1, <1>2 DEF Filed
  <1>4. QED
    BY <1>3 DEF Filed

\* A step of a client that is not saving and does not begin to.
LEMMA OneByOneKept ==
  ASSUME ConTypeOK, OneByOne, NEW c \in Client, Moves(c) \/ Begins(c),
         UNCHANGED <<calvars, overlap>>, cl'[c].pc \notin Saving
  PROVE  OneByOne'
  <1>1. \A d \in Client \ {c} : cl'[d] = cl[d]
    BY MovesTyped
  <1>2. Load' = Load
    BY DEF Load, calvars
  <1>3. \A d \in Client : cl'[d].pc \in Saving => d # c /\ cl'[d] = cl[d]
    BY <1>1
  <1>4. "write" \in Saving /\ "replace" \in Saving
    BY DEF Saving
  <1>5. SUFFICES ASSUME ~overlap PROVE OneByOne'
    BY DEF OneByOne
  <1>6. file' # Broken
    BY <1>5 DEF OneByOne, calvars
  <1>7. \A d, e \in Client : cl'[d].pc \in Saving /\ cl'[e].pc \in Saving => d = e
    BY <1>3, <1>5 DEF OneByOne
  <1>8. ASSUME NEW d \in Client, cl'[d].pc \in Saving
        PROVE  /\ Keeps(cl[d].doc)'
               /\ cl'[d].pc = "write" => handle'[d] = "temp" /\ temp' = Broken
               /\ cl'[d].pc = "replace" => temp' = cl'[d].doc
    BY <1>2, <1>3, <1>5, <1>8 DEF OneByOne, Keeps, calvars
  <1>9. QED
    BY <1>4, <1>6, <1>7, <1>8 DEF OneByOne

\* Somebody who is not saving, by the kind of its step.
LEMMA NotSaving ==
  ASSUME NEW c \in Client,
         \/ Ends(c)
         \/ Begins(c)
         \/ Moves(c) /\ cl[c].pc \notin Saving /\ ~Fits(c)
  PROVE  cl'[c].pc \notin Saving
  <1>1. CASE Ends(c)
    BY <1>1 DEF Ends, Saving
  <1>2. CASE Begins(c)
    BY <1>2 DEF Begins, FirstPc, Saving
  <1>3. CASE Moves(c) /\ cl[c].pc \notin Saving /\ ~Fits(c)
    BY <1>1, <1>3 DEF Moves, Advances, Goes, Follows, Looks, Resolves, DrawsGrid, Saving
  <1>4. QED
    BY <1>1, <1>2, <1>3

\* The parts that do not depend on the kind of step.
LEMMA PartsKept ==
  ASSUME CInv, NEW c \in Client, Moves(c) \/ Begins(c), Frames(c), Looks(c) => Dumped,
         UNCHANGED <<size, owner>>
  PROVE  /\ Located' /\ Resolving' /\ Gated' /\ Named' /\ OnScreen'
         /\ FrameThere' /\ SizeIsFresh'
         /\ shot' \in [size : Size \cup {0}, since : SUBSET Client]
         /\ cl[c].pc = "fetch" => shot.size \in Size
  <1>1. cl[c].pc = "fetch" => shot.size \in Size
    BY FrameIsThere DEF CInv, At
  <1>2. Located' /\ Resolving'
    BY <1>1, LocatedKept, ResolvingKept DEF CInv
  <1>3. Gated' /\ Named'
    BY GatedKept, NamedKept DEF CInv
  <1>4. OnScreen'
    BY OnScreenKept DEF CInv
  <1>5. FrameThere' /\ SizeIsFresh' /\ shot' \in [size : Size \cup {0}, since : SUBSET Client]
    BY FrameKept DEF CInv
  <1>6. QED
    BY <1>1, <1>2, <1>3, <1>4, <1>5

\* Its budget.
LEMMA BudgetTyped ==
  ASSUME ConTypeOK, UNCHANGED budget \/ Fault
  PROVE  begun' \in 0 .. MaxBegun /\ faults' \in 0 .. MaxFaults /\ changes' \in 0 .. MaxChanges
  BY ConsoleAssumption, FaultTyped DEF ConTypeOK, budget

-----------------------------------------------------------------------------
(* The invariant, action by action.                                        *)

LEMMA QuietKeeps == ASSUME CInv, NEW c \in Client, Quiet(c) PROVE CInv'
  <1>1. Moves(c) /\ ~Begins(c) /\ cl[c].pc \notin Saving \cup {"fetch", "idle"}
    BY DEF Quiet, Begins
  <1>2. Frames(c) /\ (Looks(c) => Dumped) /\ UNCHANGED <<size, owner>>
    BY <1>1 DEF Quiet, Frames
  <1>3. /\ Located' /\ Resolving' /\ Gated' /\ Named' /\ OnScreen'
        /\ FrameThere' /\ SizeIsFresh'
        /\ shot' \in [size : Size \cup {0}, since : SUBSET Client]
    BY <1>1, <1>2, PartsKept
  <1>4. Filed'
    BY <1>1, FiledKept DEF CInv, Quiet, calvars
  <1>5. OneByOne'
    <2>1. ~Fits(c)
      BY <1>1 DEF Fits
    <2>2. cl'[c].pc \notin Saving
      BY <1>1, <2>1, NotSaving
    <2>3. QED
      BY <1>1, <2>2, OneByOneKept DEF CInv, Quiet
  <1>6. ConTypeOK'
    <2>1. cl' \in [Client -> Command] /\ \A d \in Client \ {c} : cl'[d] = cl[d]
      BY <1>1, MovesTyped DEF CInv
    <2>2. CalTypeOK'
      BY DEF CInv, ConTypeOK, CalTypeOK, Quiet, calvars
    <2>3. \A d \in Client : handle'[d] # "none" => cl'[d].pc = "write"
      BY <1>1, <2>1 DEF CInv, ConTypeOK, Quiet, calvars, Saving
    <2>4. begun' \in 0 .. MaxBegun /\ faults' \in 0 .. MaxFaults /\ changes' \in 0 .. MaxChanges
      BY BudgetTyped DEF CInv, Quiet
    <2>5. size' \in Size /\ owner' \in {"ours", "theirs"} /\ overlap' \in BOOLEAN
          /\ pointer' \in Nat /\ button' \in BOOLEAN
      BY DEF CInv, ConTypeOK, Quiet
    <2>6. QED
      BY <1>3, <2>1, <2>2, <2>3, <2>4, <2>5 DEF ConTypeOK
  <1>7. QED
    BY <1>3, <1>4, <1>5, <1>6 DEF CInv, Quiet

LEMMA BeginKeeps == ASSUME CInv, NEW c \in Client, Begin(c) PROVE CInv'
  <1>1. Begins(c) /\ cl[c].pc = "idle"
    BY BeginMoves DEF CInv, Begins
  <1>2. /\ shot' = [shot EXCEPT !.since = @ \ {c}]
        /\ UNCHANGED <<calvars, size, owner, pointer, button, faults, changes, overlap>>
        /\ begun < MaxBegun /\ begun' = begun + 1
    BY DEF Begin, guestvars
  <1>3. Frames(c) /\ ~Looks(c)
    BY <1>1, <1>2 DEF Frames, Looks
  <1>4. /\ Located' /\ Resolving' /\ Gated' /\ Named' /\ OnScreen'
        /\ FrameThere' /\ SizeIsFresh'
        /\ shot' \in [size : Size \cup {0}, since : SUBSET Client]
    BY <1>1, <1>2, <1>3, PartsKept
  <1>5. Filed'
    BY <1>1, <1>2, FiledKept DEF CInv, calvars
  <1>6. OneByOne'
    BY <1>1, <1>2, NotSaving, OneByOneKept DEF CInv
  <1>7. ButtonsComeUp'
    BY <1>1, <1>2, ButtonStill DEF CInv
  <1>8. ConTypeOK'
    <2>1. cl' \in [Client -> Command] /\ \A d \in Client \ {c} : cl'[d] = cl[d]
      BY <1>1, MovesTyped DEF CInv
    <2>2. CalTypeOK'
      BY <1>2 DEF CInv, ConTypeOK, CalTypeOK, calvars
    <2>3. \A d \in Client : handle'[d] # "none" => cl'[d].pc = "write"
      BY <1>1, <1>2, <2>1 DEF CInv, ConTypeOK, calvars
    <2>4. begun' \in 0 .. MaxBegun /\ faults' \in 0 .. MaxFaults /\ changes' \in 0 .. MaxChanges
      BY <1>2, ConsoleAssumption DEF CInv, ConTypeOK
    <2>5. size' \in Size /\ owner' \in {"ours", "theirs"} /\ overlap' \in BOOLEAN
          /\ pointer' \in Nat /\ button' \in BOOLEAN
      BY <1>2 DEF CInv, ConTypeOK
    <2>6. QED
      BY <1>4, <2>1, <2>2, <2>3, <2>4, <2>5 DEF ConTypeOK
  <1>9. QED
    BY <1>4, <1>5, <1>6, <1>7, <1>8 DEF CInv

\* A commit that starts saving: nobody else is, or the commits overlap.
LEMMA FetchKeepsOneByOne ==
  ASSUME CInv, NEW c \in Client, Fetch(c), Moves(c), cl[c].pc = "fetch",
         shot.size \in Size
  PROVE  OneByOne'
  <1>1. /\ UNCHANGED calvars
        /\ overlap' = (overlap \/ (cl[c].cmd = "commit"
                                   /\ \E d \in Client : cl[d].pc \in Saving))
    BY DEF Fetch
  <1>2. CASE ~Fits(c)
    <2>1. cl'[c].pc \notin Saving /\ "fetch" \notin Saving
      BY <1>2, NotSaving DEF Saving
    <2>2. CASE overlap' = overlap
      BY <1>1, <2>1, <2>2, OneByOneKept DEF CInv
    <2>3. CASE overlap' # overlap
      BY <1>1, <2>3 DEF CInv, ConTypeOK, OneByOne
    <2>4. QED
      BY <2>2, <2>3
  <1>3. CASE Fits(c)
    <2> SUFFICES ASSUME ~overlap' PROVE OneByOne'
      BY DEF OneByOne
    <2>1. ~overlap /\ \A d \in Client : cl[d].pc \notin Saving
      BY <1>1, <1>3 DEF Fits
    <2>2. \A d \in Client \ {c} : cl'[d] = cl[d]
      BY MovesTyped DEF CInv
    <2>3. \A d \in Client : cl'[d].pc \in Saving => d = c
      BY <2>1, <2>2
    <2>4. cl'[c].pc = "open"
      BY <1>3 DEF Fits
    <2>5. Keeps(cl'[c].doc)
      <3>1. cl[c].reading \in Reading
        BY <1>3 DEF Fits, CInv, Located
      <3>2. Keeps(Upserted(c, shot.size, cl[c].reading))
        BY <3>1, UpsertKeeps DEF CInv, ConTypeOK
      <3>3. QED
        BY <1>3, <3>2 DEF Fits
    <2>6. Load' = Load /\ file' = file
      BY <1>1 DEF Load, calvars
    <2>7. Keeps(cl[c].doc)'
      BY <2>5, <2>6 DEF Keeps
    <2>8. file' # Broken
      BY <2>1, <2>6 DEF CInv, OneByOne
    <2>9. "write" \in Saving /\ "replace" \in Saving
      BY DEF Saving
    <2>10. QED
      BY <2>3, <2>4, <2>7, <2>8, <2>9 DEF OneByOne
  <1>4. QED
    BY <1>2, <1>3

LEMMA FetchKeeps == ASSUME CInv, NEW c \in Client, Fetch(c) PROVE CInv'
  <1>1. Moves(c) /\ (UNCHANGED budget \/ Fault) /\ cl[c].pc = "fetch"
    BY FetchMoves DEF CInv, Fetch, At
  <1>2. UNCHANGED <<calvars, size, owner, pointer, button, shot>> /\ overlap' \in BOOLEAN
    BY DEF Fetch, guestvars, CInv, ConTypeOK
  <1>3. Frames(c) /\ ~Looks(c)
    BY <1>1, <1>2 DEF Frames, Looks, Begins
  <1>4. /\ Located' /\ Resolving' /\ Gated' /\ Named' /\ OnScreen'
        /\ FrameThere' /\ SizeIsFresh'
        /\ shot' \in [size : Size \cup {0}, since : SUBSET Client]
        /\ shot.size \in Size
    BY <1>1, <1>2, <1>3, PartsKept
  <1>5. Filed'
    BY <1>1, <1>2, <1>4, FiledKept DEF CInv, calvars
  <1>6. OneByOne'
    BY <1>1, <1>4, FetchKeepsOneByOne
  <1>7. ButtonsComeUp'
    BY <1>1, <1>2, ButtonStill DEF CInv
  <1>8. ConTypeOK'
    <2>1. cl' \in [Client -> Command] /\ \A d \in Client \ {c} : cl'[d] = cl[d]
      BY <1>1, MovesTyped DEF CInv
    <2>2. CalTypeOK'
      BY <1>2 DEF CInv, ConTypeOK, CalTypeOK, calvars
    <2>3. \A d \in Client : handle'[d] # "none" => cl'[d].pc = "write"
      BY <1>1, <1>2, <2>1 DEF CInv, ConTypeOK, calvars
    <2>4. begun' \in 0 .. MaxBegun /\ faults' \in 0 .. MaxFaults /\ changes' \in 0 .. MaxChanges
      BY <1>1, BudgetTyped DEF CInv
    <2>5. size' \in Size /\ owner' \in {"ours", "theirs"}
          /\ pointer' \in Nat /\ button' \in BOOLEAN
      BY <1>2 DEF CInv, ConTypeOK
    <2>6. QED
      BY <1>2, <1>4, <2>1, <2>2, <2>3, <2>4, <2>5 DEF ConTypeOK
  <1>9. QED
    BY <1>4, <1>5, <1>6, <1>7, <1>8 DEF CInv

\* What the steps of _persist, and a death, leave alone.
Aside(c) ==
  /\ Moves(c) /\ cl[c].pc \notin {"fetch", "idle"} /\ ~Looks(c)
  /\ UNCHANGED <<size, owner, pointer, button, shot, overlap>>
  /\ UNCHANGED budget \/ Fault
  /\ cl[c].pc \in {"hop", "release"} => Fault

LEMMA AsideKeeps ==
  ASSUME CInv, NEW c \in Client, Aside(c), CalTypeOK',
         \A d \in Client : handle'[d] # "none" => cl'[d].pc = "write"
  PROVE  /\ ConTypeOK' /\ Located' /\ Resolving' /\ Gated' /\ Named' /\ OnScreen'
         /\ FrameThere' /\ SizeIsFresh' /\ ButtonsComeUp'
         /\ \A d \in Client \ {c} : cl'[d] = cl[d]
  <1>1. Moves(c) \/ Begins(c)
    BY DEF Aside
  <1>2. Frames(c) \/ Begins(c)
    BY DEF Aside, Frames
  <1>3. ~Begins(c)
    BY DEF Aside, Begins
  <1>4. /\ Located' /\ Resolving' /\ Gated' /\ Named' /\ OnScreen'
        /\ FrameThere' /\ SizeIsFresh'
        /\ shot' \in [size : Size \cup {0}, since : SUBSET Client]
    BY <1>1, <1>2, <1>3, PartsKept DEF Aside
  <1>5. ButtonsComeUp'
    <2>1. CASE Fault
      <3>1. faults' # 0
        BY <2>1, FaultTyped DEF CInv
      <3>2. QED
        BY <3>1 DEF ButtonsComeUp
    <2>2. CASE ~Fault
      BY <1>1, <2>2, ButtonStill DEF CInv, Aside
    <2>3. QED
      BY <2>1, <2>2
  <1>6. cl' \in [Client -> Command] /\ \A d \in Client \ {c} : cl'[d] = cl[d]
    BY <1>1, MovesTyped DEF CInv
  <1>7. begun' \in 0 .. MaxBegun /\ faults' \in 0 .. MaxFaults /\ changes' \in 0 .. MaxChanges
    BY BudgetTyped DEF CInv, Aside
  <1>8. size' \in Size /\ owner' \in {"ours", "theirs"} /\ overlap' \in BOOLEAN
        /\ pointer' \in Nat /\ button' \in BOOLEAN
    BY DEF CInv, ConTypeOK, Aside
  <1>9. ConTypeOK'
    BY <1>4, <1>6, <1>7, <1>8 DEF ConTypeOK
  <1>10. QED
    BY <1>4, <1>5, <1>6, <1>9

LEMMA OpenKeeps == ASSUME CInv, NEW c \in Client, OpenTmp(c) PROVE CInv'
  <1>1. /\ cl[c].pc = "open" /\ file' = file /\ temp' = Broken
        /\ handle' = [handle EXCEPT ![c] = "temp"]
        /\ Goto(c, "write")
        /\ UNCHANGED <<size, owner, pointer, button, shot, overlap, budget>>
    BY DEF OpenTmp, At, OpenTemp, guestvars
  <1>2. Moves(c) /\ Aside(c)
    BY <1>1, SaveMoves DEF CInv, Aside, Looks
  <1>3. cl'[c].pc = "write" /\ cl'[c].doc = cl[c].doc
    BY <1>1, GotoGoes DEF CInv, PcNames, Goes
  <1>4. CalTypeOK'
    BY <1>1 DEF CInv, ConTypeOK, CalTypeOK
  <1>5. \A d \in Client \ {c} : cl'[d] = cl[d] /\ handle'[d] = handle[d]
    BY <1>1, <1>2, MovesTyped DEF CInv, ConTypeOK, CalTypeOK
  <1>6. \A d \in Client : handle'[d] # "none" => cl'[d].pc = "write"
    BY <1>3, <1>5 DEF CInv, ConTypeOK
  <1>7. /\ ConTypeOK' /\ Located' /\ Resolving' /\ Gated' /\ Named' /\ OnScreen'
        /\ FrameThere' /\ SizeIsFresh' /\ ButtonsComeUp'
    BY <1>2, <1>4, <1>6, AsideKeeps
  <1>8. Filed'
    BY <1>1, <1>3, <1>5, DocumentAssumption DEF CInv, Filed
  <1>9. OneByOne'
    <2> SUFFICES ASSUME ~overlap PROVE OneByOne'
      BY <1>1 DEF OneByOne
    <2>1. "open" \in Saving /\ "write" \in Saving /\ "replace" \in Saving
      BY DEF Saving
    <2>2. \A d \in Client : cl'[d].pc \in Saving => d = c
      BY <1>1, <1>5, <2>1 DEF CInv, OneByOne
    <2>3. Load' = Load /\ Keeps(cl[c].doc) /\ file' # Broken
      BY <1>1, <2>1 DEF CInv, OneByOne, Load
    <2>4. Keeps(cl[c].doc)'
      BY <1>3, <2>3 DEF Keeps
    <2>5. handle'[c] = "temp"
      BY <1>1 DEF CInv, ConTypeOK, CalTypeOK
    <2>6. QED
      BY <1>1, <1>3, <2>1, <2>2, <2>3, <2>4, <2>5 DEF OneByOne
  <1>10. QED
    BY <1>7, <1>8, <1>9 DEF CInv

LEMMA WriteKeeps == ASSUME CInv, NEW c \in Client, WriteTmp(c) PROVE CInv'
  <1> DEFINE doc == cl[c].doc
  <1>1. /\ cl[c].pc = "write" /\ Goto(c, "replace")
        /\ \/ handle[c] = "temp" /\ temp' \in Over(temp, doc) /\ UNCHANGED file
           \/ handle[c] = "file" /\ file' \in Over(file, doc) /\ UNCHANGED temp
           \/ handle[c] = "lost" /\ UNCHANGED <<file, temp>>
        /\ handle' = [handle EXCEPT ![c] = "none"]
        /\ UNCHANGED <<size, owner, pointer, button, shot, overlap, budget>>
    BY DEF WriteTmp, At, WriteTemp, guestvars
  <1>2. Moves(c) /\ Aside(c)
    BY <1>1, SaveMoves DEF CInv, Aside, Looks
  <1>3. cl'[c].pc = "replace" /\ cl'[c].doc = doc
    BY <1>1, GotoGoes DEF CInv, PcNames, Goes
  <1>4. doc \in Document /\ WellFiled(doc)
    BY DEF CInv, ConTypeOK, Command, Filed
  <1>5. /\ file' \in {file, doc, Broken} /\ temp' \in {temp, doc, Broken}
    BY <1>1 DEF Over
  <1>6. CalTypeOK'
    BY <1>1, <1>4, <1>5 DEF CInv, ConTypeOK, CalTypeOK
  <1>7. /\ \A d \in Client \ {c} : cl'[d] = cl[d] /\ handle'[d] = handle[d]
        /\ handle'[c] = "none"
    BY <1>1, <1>2, MovesTyped DEF CInv, ConTypeOK, CalTypeOK
  <1>8. \A d \in Client : handle'[d] # "none" => cl'[d].pc = "write"
    BY <1>7 DEF CInv, ConTypeOK
  <1>9. /\ ConTypeOK' /\ Located' /\ Resolving' /\ Gated' /\ Named' /\ OnScreen'
        /\ FrameThere' /\ SizeIsFresh' /\ ButtonsComeUp'
    BY <1>2, <1>6, <1>8, AsideKeeps
  <1>10. Filed'
    <2>1. (file' \in Document => WellFiled(file')) /\ (temp' \in Document => WellFiled(temp'))
      BY <1>4, <1>5, DocumentAssumption DEF CInv, Filed
    <2>2. \A d \in Client : cl'[d].doc = cl[d].doc
      BY <1>3, <1>7
    <2>3. QED
      BY <2>1, <2>2 DEF CInv, Filed
  <1>11. OneByOne'
    <2> SUFFICES ASSUME ~overlap PROVE OneByOne'
      BY <1>1 DEF OneByOne
    <2>1. "write" \in Saving /\ "replace" \in Saving
      BY DEF Saving
    <2>2. \A d \in Client : cl'[d].pc \in Saving => d = c
      BY <1>1, <1>7, <2>1 DEF CInv, OneByOne
    <2>3. handle[c] = "temp" /\ temp = Broken /\ file # Broken /\ Keeps(doc)
      BY <1>1, <2>1 DEF CInv, OneByOne
    <2>4. file' = file /\ temp' = doc
      BY <1>1, <2>3 DEF Over
    <2>5. Load' = Load
      BY <2>4 DEF Load
    <2>6. Keeps(cl[c].doc)'
      BY <1>3, <2>3, <2>5 DEF Keeps
    <2>7. /\ cl'[c].pc = "replace" /\ temp' = cl'[c].doc /\ file' # Broken
      BY <1>3, <2>3, <2>4
    <2>8. QED
      BY <2>1, <2>2, <2>6, <2>7 DEF OneByOne
  <1>12. QED
    BY <1>9, <1>10, <1>11 DEF CInv

LEMMA ReplaceKeeps == ASSUME CInv, NEW c \in Client, Replace(c) PROVE CInv'
  <1>1. /\ cl[c].pc = "replace" /\ Done(c)
        /\ UNCHANGED <<size, owner, pointer, button, shot, overlap, budget>>
        /\ ReplaceFile \/ (temp = Absent /\ UNCHANGED calvars)
    BY DEF Replace, At, guestvars
  <1>2. Ends(c)
    BY <1>1, DoneEnds DEF CInv
  <1>3. Moves(c) /\ Aside(c)
    BY <1>1, SaveMoves DEF CInv, Aside, Looks
  <1>4. file' \in {file, temp} /\ temp' \in {temp, Absent}
    BY <1>1 DEF ReplaceFile, calvars
  <1>5. /\ handle' \in [Client -> {"none", "file", "temp", "lost"}]
        /\ \A d \in Client : handle'[d] # "none" => handle[d] # "none"
    BY <1>1 DEF ReplaceFile, calvars, CInv, ConTypeOK, CalTypeOK
  <1>6. CalTypeOK'
    BY <1>4, <1>5 DEF CInv, ConTypeOK, CalTypeOK
  <1>7. \A d \in Client \ {c} : cl'[d] = cl[d]
    BY <1>2 DEF Ends, Only
  <1>8. \A d \in Client : handle'[d] # "none" => cl'[d].pc = "write"
    BY <1>1, <1>5, <1>7 DEF CInv, ConTypeOK
  <1>9. /\ ConTypeOK' /\ Located' /\ Resolving' /\ Gated' /\ Named' /\ OnScreen'
        /\ FrameThere' /\ SizeIsFresh' /\ ButtonsComeUp'
    BY <1>3, <1>6, <1>8, AsideKeeps
  <1>10. Filed'
    <2>1. (file' \in Document => WellFiled(file')) /\ (temp' \in Document => WellFiled(temp'))
      BY <1>4, DocumentAssumption DEF CInv, Filed
    <2>2. \A d \in Client : WellFiled(cl'[d].doc)
      BY <1>2, <1>7, EmptyIsDocument DEF CInv, Filed, Ends
    <2>3. QED
      BY <2>1, <2>2 DEF Filed
  <1>11. OneByOne'
    <2> SUFFICES ASSUME ~overlap PROVE OneByOne'
      BY <1>1 DEF OneByOne
    <2>1. "idle" \notin Saving /\ "write" \in Saving /\ "replace" \in Saving
      BY DEF Saving
    <2>2. \A d \in Client : cl'[d].pc \notin Saving
      BY <1>1, <1>2, <1>7, <2>1 DEF CInv, OneByOne, Ends
    <2>3. temp = cl[c].doc /\ file # Broken
      BY <1>1 DEF CInv, OneByOne
    <2>4. temp # Broken
      BY <2>3, DocumentAssumption DEF CInv, ConTypeOK, Command
    <2>5. QED
      BY <1>4, <2>1, <2>2, <2>3, <2>4 DEF OneByOne
  <1>12. QED
    BY <1>9, <1>10, <1>11 DEF CInv

LEMMA KilledKeeps == ASSUME CInv, NEW c \in Client, Killed(c) PROVE CInv'
  <1>1. /\ Fault /\ UNCHANGED <<file, temp, size, owner, pointer, button, shot, overlap>>
        /\ handle' = [handle EXCEPT ![c] = "none"]
    BY DEF Killed, DropHandle, guestvars
  <1>2. Ends(c)
    BY KilledEnds DEF CInv
  <1>3. \A d \in Client \ {c} : cl'[d] = cl[d] /\ handle'[d] = handle[d]
    BY <1>1, <1>2 DEF Ends, Only, CInv, ConTypeOK, CalTypeOK
  <1>4. handle'[c] = "none" /\ CalTypeOK'
    BY <1>1 DEF CInv, ConTypeOK, CalTypeOK
  <1>5. \A d \in Client : handle'[d] # "none" => cl'[d].pc = "write"
    BY <1>3, <1>4 DEF CInv, ConTypeOK
  <1>6. Moves(c) /\ ~Looks(c) /\ ~Begins(c) /\ cl'[c].pc = "idle"
    <2>1. ~Begins(c) /\ ~Looks(c)
      BY <1>2 DEF Ends, Begins, FirstPc, Looks
    <2>2. QED
      BY <1>2, <2>1 DEF Moves, Ends
  <1>7. /\ Located' /\ Resolving' /\ Gated' /\ Named' /\ OnScreen'
        /\ FrameThere' /\ SizeIsFresh'
        /\ shot' \in [size : Size \cup {0}, since : SUBSET Client]
        /\ cl[c].pc = "fetch" => shot.size \in Size
    BY <1>1, <1>6, PartsKept DEF Frames
  <1>8. ButtonsComeUp'
    <2>1. faults' # 0
      BY <1>1, FaultTyped DEF CInv
    <2>2. QED
      BY <2>1 DEF ButtonsComeUp
  <1>9. Filed'
    BY <1>1, <1>6, <1>7, FiledKept DEF CInv
  <1>10. OneByOne'
    <2> SUFFICES ASSUME ~overlap PROVE OneByOne'
      BY <1>1 DEF OneByOne
    <2>1. "idle" \notin Saving /\ "write" \in Saving /\ "replace" \in Saving
      BY DEF Saving
    <2>2. \A d \in Client : cl'[d].pc \in Saving => d # c /\ cl'[d] = cl[d]
      BY <1>3, <1>6, <2>1
    <2>3. Load' = Load /\ file' # Broken
      BY <1>1 DEF Load, CInv, OneByOne
    <2>4. \A d, e \in Client : cl'[d].pc \in Saving /\ cl'[e].pc \in Saving => d = e
      BY <2>2 DEF CInv, OneByOne
    <2>5. ASSUME NEW d \in Client, cl'[d].pc \in Saving
          PROVE  /\ Keeps(cl[d].doc)'
                 /\ cl'[d].pc = "write" => handle'[d] = "temp" /\ temp' = Broken
                 /\ cl'[d].pc = "replace" => temp' = cl'[d].doc
      BY <1>1, <1>3, <2>2, <2>3, <2>5 DEF CInv, OneByOne, Keeps
    <2>6. QED
      BY <2>1, <2>3, <2>4, <2>5 DEF OneByOne
  <1>11. ConTypeOK'
    <2>1. cl' \in [Client -> Command]
      BY <1>2 DEF Ends, Only
    <2>2. begun' \in 0 .. MaxBegun /\ faults' \in 0 .. MaxFaults /\ changes' \in 0 .. MaxChanges
      BY <1>1, BudgetTyped DEF CInv
    <2>3. QED
      BY <1>1, <1>4, <1>5, <1>7, <2>1, <2>2 DEF CInv, ConTypeOK
  <1>12. QED
    BY <1>7, <1>8, <1>9, <1>10, <1>11 DEF CInv

\* The world.
LEMMA WorldKeeps == ASSUME CInv, Resize \/ Evict PROVE CInv'
  <1>1. /\ changes < MaxChanges /\ changes' = changes + 1
        /\ UNCHANGED <<begun, faults, file, temp, handle, pointer, button, shot, overlap>>
    BY DEF Resize, Evict, Change, calvars
  <1>2. Marks
    BY ResizeMarks, EvictMarks DEF CInv
  <1>3. Located' /\ Resolving' /\ Named'
    BY <1>2, MarksKeep DEF CInv
  <1>4. Gated'
    <2>1. CASE Resize
      BY <1>2, <2>1, ResizeMarks DEF CInv, Gated, Marks, Resize
    <2>2. CASE Evict
      BY <1>2, <2>2, EvictMarks DEF CInv, Gated, Marks
    <2>3. QED
      BY <2>1, <2>2
  <1>5. OnScreen'
    <2>1. CASE Resize
      BY <1>2, <2>1, ResizeMarks DEF CInv, OnScreen, Marks, At
    <2>2. CASE Evict
      <3>1. \A c \in Client : cl'[c].changed = cl[c].changed
        BY <2>2, EvictMarks DEF CInv
      <3>2. size' = size
        BY <2>2 DEF Evict
      <3>3. QED
        BY <1>1, <1>2, <3>1, <3>2 DEF CInv, OnScreen, Marks, At
    <2>3. QED
      BY <2>1, <2>2
  <1>6. FrameThere' /\ SizeIsFresh'
    BY <1>1, <1>2 DEF CInv, FrameThere, SizeIsFresh, Marks, At
  <1>7. ButtonsComeUp'
    BY <1>1, <1>2 DEF CInv, ButtonsComeUp, Marks
  <1>8. Filed'
    BY <1>1, <1>2 DEF CInv, Filed, Marks
  <1>9. OneByOne'
    <2>1. Load' = Load
      BY <1>1 DEF Load
    <2>2. \A c \in Client : cl[c].pc \in Saving /\ Keeps(cl[c].doc) => Keeps(cl[c].doc)'
      BY <1>2, <2>1 DEF Keeps, Marks
    <2>3. QED
      BY <1>1, <1>2, <2>2 DEF CInv, OneByOne, Marks
  <1>10. ConTypeOK'
    <2>1. CalTypeOK' /\ \A c \in Client : handle'[c] # "none" => cl'[c].pc = "write"
      BY <1>1, <1>2 DEF CInv, ConTypeOK, CalTypeOK, Marks
    <2>2. size' \in Size /\ owner' \in {"ours", "theirs"}
      BY DEF CInv, ConTypeOK, Resize, Evict
    <2>3. begun' \in 0 .. MaxBegun /\ faults' \in 0 .. MaxFaults /\ changes' \in 0 .. MaxChanges
      BY <1>1, ConsoleAssumption DEF CInv, ConTypeOK
    <2>4. QED
      BY <1>1, <1>2, <2>1, <2>2, <2>3 DEF CInv, ConTypeOK, Marks
  <1>11. QED
    BY <1>3, <1>4, <1>5, <1>6, <1>7, <1>8, <1>9, <1>10 DEF CInv

\* Every step of a client, and where it takes it.
ClientStep(c) ==
  \/ Begin(c) \/ Dump(c) \/ Fetch(c) \/ Capture(c) \/ Image(c)
  \/ MovePointer(c) \/ Press(c) \/ Hop(c) \/ Release(c) \/ LookAt(c) \/ CallGuest(c)
  \/ OpenTmp(c) \/ WriteTmp(c) \/ Replace(c) \/ Killed(c)

LEMMA ClientMoves ==
  ASSUME CInv, NEW c \in Client, ClientStep(c) PROVE Moves(c) \/ Begins(c)
  <1>1. CASE Begin(c)
    BY <1>1, BeginMoves DEF CInv
  <1>2. CASE Fetch(c)
    BY <1>2, FetchMoves DEF CInv
  <1>3. CASE Dump(c) \/ Capture(c) \/ Image(c)
    BY <1>3, LookingIsQuiet DEF Quiet
  <1>4. CASE MovePointer(c) \/ Press(c) \/ Hop(c) \/ Release(c) \/ LookAt(c) \/ CallGuest(c)
    BY <1>4, ActingIsQuiet DEF Quiet
  <1>5. CASE OpenTmp(c) \/ WriteTmp(c) \/ Replace(c)
    BY <1>5, SaveMoves DEF CInv
  <1>6. CASE Killed(c)
    BY <1>6, KilledEnds DEF CInv, Moves
  <1>7. QED
    BY <1>1, <1>2, <1>3, <1>4, <1>5, <1>6 DEF ClientStep

LEMMA ClientKeeps ==
  ASSUME CInv, NEW c \in Client, ClientStep(c) PROVE CInv'
  <1>1. CASE Begin(c)
    BY <1>1, BeginKeeps
  <1>2. CASE Fetch(c)
    BY <1>2, FetchKeeps
  <1>3. CASE Dump(c) \/ Capture(c) \/ Image(c)
    BY <1>3, LookingIsQuiet, QuietKeeps
  <1>4. CASE MovePointer(c) \/ Press(c) \/ Hop(c) \/ Release(c) \/ LookAt(c) \/ CallGuest(c)
    BY <1>4, ActingIsQuiet, QuietKeeps
  <1>5. CASE OpenTmp(c) \/ WriteTmp(c) \/ Replace(c)
    BY <1>5, OpenKeeps, WriteKeeps, ReplaceKeeps
  <1>6. CASE Killed(c)
    BY <1>6, KilledKeeps
  <1>7. QED
    BY <1>1, <1>2, <1>3, <1>4, <1>5, <1>6 DEF ClientStep

LEMMA StillKeeps == ASSUME CInv, UNCHANGED convars PROVE CInv'
  <1>1. UNCHANGED <<file, temp, handle, size, owner, pointer, button, shot, begun, faults,
                    changes, overlap, cl>>
    BY DEF convars, calvars, guestvars, budget
  <1>2. ConTypeOK' /\ Load' = Load
    BY <1>1 DEF CInv, ConTypeOK, CalTypeOK, Load
  <1>3. Located' /\ Resolving' /\ Gated' /\ Named' /\ Filed'
    BY <1>1 DEF CInv, Located, Resolving, Gated, Named, Filed
  <1>4. FrameThere' /\ SizeIsFresh' /\ OnScreen' /\ ButtonsComeUp'
    BY <1>1 DEF CInv, FrameThere, SizeIsFresh, OnScreen, ButtonsComeUp, At
  <1>5. OneByOne'
    BY <1>1, <1>2 DEF CInv, OneByOne, Keeps
  <1>6. QED
    BY <1>2, <1>3, <1>4, <1>5 DEF CInv

LEMMA NextSteps ==
  ASSUME ConNext PROVE (\E c \in Client : ClientStep(c)) \/ Resize \/ Evict
  BY DEF ConNext, ClientStep

LEMMA CInvNext == ASSUME CInv, [ConNext]_convars PROVE CInv'
  <1>1. CASE ConNext
    BY <1>1, NextSteps, ClientKeeps, WorldKeeps
  <1>2. CASE UNCHANGED convars
    BY <1>2, StillKeeps
  <1>3. QED
    BY <1>1, <1>2

\* In the beginning nobody runs a command and the store holds one fit at most.
LEMMA FirstFit ==
  ASSUME NEW c \in Client, NEW r \in Reading
  PROVE  LET doc == [Empty EXCEPT ![c][r.grid] = [at |-> r.grid, from |-> r]]
         IN  doc \in Document /\ WellFiled(doc)
  <1> DEFINE new == [at |-> r.grid, from |-> r]
             doc == [Empty EXCEPT ![c][r.grid] = new]
  <1>1. r.grid \in Size /\ new \in Record /\ new.at = r.grid
    BY DEF Reading, Record
  <1>2. Empty \in Document
    BY EmptyIsDocument
  <1> HIDE DEF new
  <1>3. doc \in Document
    BY <1>1, <1>2 DEF Document
  <1>4. \A d \in Client, t \in Size :
          doc[d][t] = IF d = c /\ t = r.grid THEN new ELSE NoRecord
    BY <1>1, <1>2 DEF Empty
  <1>5. WellFiled(doc)
    BY <1>1, <1>4 DEF WellFiled
  <1>6. QED
    BY <1>3, <1>5 DEF new

LEMMA CInvInit == ASSUME ConInit PROVE CInv
  <1>1. /\ size \in Size /\ owner = "ours" /\ pointer = 0 /\ button = FALSE
        /\ shot = [size |-> 0, since |-> {}]
        /\ begun = 0 /\ faults = 0 /\ changes = 0 /\ overlap = FALSE
        /\ temp = Absent /\ handle = [c \in Client |-> "none"]
    BY DEF ConInit, CalInit
  <1>2. file = Absent \/ (file \in Document /\ WellFiled(file))
    <2>1. \A r \in Before(size) : r \in Reading
      BY <1>1 DEF Before, Reading
    <2>2. file = Absent \/ \E c \in Client, r \in Before(size) :
            file = [Empty EXCEPT ![c][r.grid] = [at |-> r.grid, from |-> r]]
      BY DEF ConInit, CalInit
    <2>3. QED
      BY <2>1, <2>2, FirstFit
  <1>3. PICK readers : cl = [c \in Client |-> [AtRest EXCEPT
               !.reading = IF c \in readers THEN Measured(size) ELSE NoReading]]
    BY DEF ConInit
  <1>4. ASSUME NEW c \in Client
        PROVE  cl[c] \in Command /\ cl[c].pc = "idle" /\ cl[c].path = <<>>
               /\ cl[c].asked = <<>> /\ cl[c].doc = Empty
    <2> DEFINE r == IF c \in readers THEN Measured(size) ELSE NoReading
               n == [AtRest EXCEPT !.reading = r]
    <2>1. r \in Reading \cup {NoReading}
      BY <1>1 DEF Measured, Reading
    <2>2. cl[c] = n
      BY <1>3
    <2> HIDE DEF r
    <2>3. n \in Command
      BY <2>1, RestTyped
    <2>4. n.pc = "idle" /\ n.path = <<>> /\ n.asked = <<>> /\ n.doc = Empty
      BY DEF AtRest
    <2> HIDE DEF n
    <2>5. QED
      BY <2>2, <2>3, <2>4
  <1>5. cl \in [Client -> Command]
    BY <1>3, <1>4
  <1>6. ConTypeOK
    <2>1. CalTypeOK
      BY <1>1, <1>2 DEF CalTypeOK
    <2>2. shot \in [size : Size \cup {0}, since : SUBSET Client]
      BY <1>1
    <2>3. begun \in 0 .. MaxBegun /\ faults \in 0 .. MaxFaults /\ changes \in 0 .. MaxChanges
      BY <1>1, ConsoleAssumption
    <2>4. QED
      BY <1>1, <1>5, <2>1, <2>2, <2>3 DEF ConTypeOK
  <1>7. Located
    BY <1>4 DEF Located, Input, Saving
  <1>8. Resolving
    BY <1>4 DEF Resolving
  <1>9. Gated /\ SizeIsFresh /\ OnScreen
    BY <1>4 DEF Gated, SizeIsFresh, OnScreen, At
  <1>10. FrameThere
    BY <1>1 DEF FrameThere
  <1>11. ButtonsComeUp
    BY <1>1 DEF ButtonsComeUp
  <1>12. Filed
    BY <1>1, <1>2, <1>4, DocumentAssumption, EmptyIsDocument DEF Filed
  <1>13. OneByOne
    <2>1. file # Broken
      BY <1>2, DocumentAssumption, SizeAssumption
    <2>2. "idle" \notin Saving
      BY DEF Saving
    <2>3. QED
      BY <1>4, <2>1, <2>2 DEF OneByOne
  <1>14. Named
    <2>1. \A c \in Client : Len(cl[c].asked) = 0
      BY <1>4
    <2>2. QED
      BY <2>1 DEF Named
  <1>15. QED
    BY <1>6, <1>7, <1>8, <1>9, <1>10, <1>11, <1>12, <1>13, <1>14 DEF CInv

-----------------------------------------------------------------------------
(* Theorems.                                                               *)

\* The inductive invariant holds in every scenario.
THEOREM ConsoleInvariance == ConSpec => []CInv
  <1>1. ConInit => CInv
    BY CInvInit
  <1>2. CInv /\ [ConNext]_convars => CInv'
    BY CInvNext
  <1>3. QED
    BY <1>1, <1>2, PTL DEF ConSpec

\* Every variable of the guest, the host file, the store and the commands keeps
\* its type, and write handles belong to commands that are about to write.
THEOREM ConTypeCorrect == ConSpec => []ConTypeOK
  <1>1. CInv => ConTypeOK
    BY DEF CInv
  <1>2. QED
    BY <1>1, ConsoleInvariance, PTL

\* Input and commands reach the guest of the lease that passed the gate
\* (require_owned), unless the lease has lost it under the command.
THEOREM OwnedInput == ConSpec => []InputIsOwned
  <1>1. CInv => InputIsOwned
    <2> SUFFICES ASSUME CInv, NEW c \in Client, cl[c].pc \in Input
                 PROVE  owner = "ours" \/ cl[c].evicted
      BY DEF InputIsOwned
    <2>1. cl[c].cmd \in Acting /\ cl[c].pc # "idle"
      BY DEF CInv, Located, Input
    <2>2. QED
      BY <2>1 DEF CInv, Gated
  <1>2. QED
    BY <1>1, ConsoleInvariance, PTL

\* With no failed call, no button is down once every gesture is over, however
\* the gestures of the clients mix (cmd_click, cmd_drag).
THEOREM ButtonsUp == ConSpec => []ButtonsComeUp
  <1>1. CInv => ButtonsComeUp
    BY DEF CInv
  <1>2. QED
    BY <1>1, ConsoleInvariance, PTL

\* What a command has resolved lies on the display unless the mode has changed
\* since its first look (resolve_point, Record.to_framebuffer).
THEOREM OnTheScreen == ConSpec => []PointsOnScreen
  <1>1. CInv => PointsOnScreen
    <2> SUFFICES ASSUME CInv, NEW c \in Client, cl[c].pc \in Input, ~cl[c].changed
                 PROVE  \A i \in 1 .. Len(cl[c].path) : cl[c].path[i] < size
      BY DEF PointsOnScreen
    <2>1. cl[c].pc # "idle"
      BY DEF Input
    <2>2. QED
      BY <2>1 DEF CInv, OnScreen
  <1>2. QED
    BY <1>1, ConsoleInvariance, PTL

\* The size a point is checked against was read during the command, although
\* every capture of every client overwrites one host file (_framebuffer_size).
THEOREM FreshSize == ConSpec => []SizeIsFresh
  <1>1. CInv => SizeIsFresh
    BY DEF CInv
  <1>2. QED
    BY <1>1, ConsoleInvariance, PTL

\* As long as commits come one by one the store parses, wherever a commit dies
\* (_persist).
THEOREM TornOnly == ConSpec => []TornOnlyByOverlap
  <1>1. CInv => TornOnlyByOverlap
    BY DEF CInv, OneByOne, TornOnlyByOverlap
  <1>2. QED
    BY <1>1, ConsoleInvariance, PTL

\* As long as commits come one by one no record is lost (upsert, _persist).
THEOREM RecordsKept == ConSpec => RecordsAreKept
  <1> DEFINE Kept == ~overlap' => \A c \in Client, s \in Size :
                       Load[c][s] # NoRecord => Load'[c][s] # NoRecord
  <1>1. ASSUME CInv, CInv', [ConNext]_convars, ~overlap'
        PROVE  Kept
    <2>1. CASE file' = file
      BY <2>1 DEF Load
    <2>2. CASE file' # file
      <3>1. PICK c \in Client : WriteTmp(c) \/ Replace(c)
        <4>1. ConNext
          BY <1>1, <2>2 DEF convars, calvars
        <4>2. PICK c \in Client : ClientStep(c)
          BY <2>2, <4>1, NextSteps DEF Resize, Evict, calvars
        <4>3. CASE Dump(c) \/ Capture(c) \/ Image(c)
          BY <1>1, <2>2, <4>3, LookingIsQuiet DEF Quiet, calvars
        <4>4. CASE \/ MovePointer(c) \/ Press(c) \/ Hop(c) \/ Release(c) \/ LookAt(c)
                   \/ CallGuest(c)
          BY <1>1, <2>2, <4>4, ActingIsQuiet DEF Quiet, calvars
        <4>5. CASE Begin(c) \/ Fetch(c) \/ OpenTmp(c) \/ Killed(c)
          BY <2>2, <4>5 DEF Begin, Fetch, OpenTmp, OpenTemp, Killed, DropHandle, calvars
        <4>6. QED
          BY <4>2, <4>3, <4>4, <4>5 DEF ClientStep
      <3>2. ~overlap
        BY <1>1, <3>1 DEF WriteTmp, Replace
      <3>3. ~WriteTmp(c)
        <4>1. SUFFICES ASSUME WriteTmp(c) PROVE FALSE
          OBVIOUS
        <4>2. handle[c] = "temp"
          BY <1>1, <3>2, <4>1 DEF CInv, OneByOne, WriteTmp, At
        <4>3. QED
          BY <2>2, <4>1, <4>2 DEF WriteTmp, WriteTemp
      <3>4. cl[c].pc = "replace" /\ file' = temp
        BY <2>2, <3>1, <3>3 DEF Replace, At, ReplaceFile, calvars
      <3>5. file' = cl[c].doc /\ Keeps(cl[c].doc)
        BY <1>1, <3>2, <3>4 DEF CInv, OneByOne, Saving
      <3>6. cl[c].doc \in Document
        BY <1>1 DEF CInv, ConTypeOK, Command
      <3>7. Load' = cl[c].doc
        BY <3>5, <3>6, DocumentAssumption DEF Load
      <3>8. QED
        BY <3>5, <3>7 DEF Keeps
    <2>3. QED
      BY <2>1, <2>2
  <1>2. CInv /\ CInv' /\ [ConNext]_convars => [Kept]_convars
    BY <1>1
  <1>3. QED
    BY <1>2, ConsoleInvariance, PTL DEF ConSpec, RecordsAreKept

\* A point that resolves becomes the pixel its client means.
LEMMA MeantResolved ==
  ASSUME CInv, NEW c \in Client, NEW s \in Size, Steady(c, s),
         NEW place \in Places, NEW y \in Resolved(c, PointAt(place, s), s)
  PROVE  y = PointAt(place, s).meant
  <1>1. CASE place = "inside"
    BY <1>1 DEF PointAt, Inside, Resolved
  <1>2. CASE place = "edge"
    BY <1>2 DEF PointAt, Edge, Resolved
  <1>3. CASE place = "shown"
    <2> DEFINE z == Zoom[s]
               q == (s - 1) \div z
               rec == Find(c, s)
    <2>1. s \in Nat \ {0} /\ z \in Nat \ {0} /\ s - 1 \in Nat
      BY SizeAssumption
    <2>2. q \in Nat /\ z * q <= s - 1
      BY <2>1, QuotientNat, ProductOfQuotient
    <2>3. PointAt(place, s) = [space |-> "image", x |-> q, meant |-> z * q, view |-> s]
      BY <1>3 DEF PointAt, Shown
    <2>4. Usable(rec) /\ y = ToFramebuffer(rec, q)
      BY <2>3 DEF Resolved
    <2>5. rec # NoRecord /\ rec.from.grid = s /\ rec.from.image = s
      BY <2>4 DEF Usable, Trustworthy, Steady, Find
    <2>6. rec.at = s
      <3>1. file \notin {Absent, Broken} /\ rec = file[c][s]
        BY <2>5 DEF Find, Load, Empty
      <3>2. file \in Document
        BY <3>1 DEF CInv, ConTypeOK, CalTypeOK
      <3>3. QED
        BY <2>5, <3>1, <3>2 DEF CInv, Filed, WellFiled
    <2> DEFINE w == (q * s * z) \div s
    <2>7. y = IF w < s THEN w ELSE s - 1
      BY <2>4, <2>5, <2>6 DEF ToFramebuffer
    <2> HIDE DEF q, z, rec
    <2>8. w = q * z
      <3>1. q * s * z = (q * z) * s
        BY <2>1, <2>2
      <3>2. q * z \in Nat
        BY <2>1, <2>2, ProductNat
      <3>3. QED
        BY <2>1, <3>1, <3>2, QuotientOfProduct
    <2> HIDE DEF w
    <2>9. q * z = z * q /\ q * z \in Nat
      BY <2>1, <2>2, ProductNat
    <2>10. y = z * q
      <3> DEFINE m == q * z
      <3>1. m \in Nat /\ m <= s - 1 /\ w = m /\ z * q = m
        BY <2>2, <2>8, <2>9
      <3> HIDE DEF m
      <3>2. QED
        BY <2>1, <2>7, <3>1
    <2>11. QED
      BY <2>3, <2>10
  <1>4. QED
    BY <1>1, <1>2, <1>3 DEF Places

\* A point becomes the pixel its client means or is refused, unless the mode
\* has changed under the client or under its calibration (resolve_point).
THEOREM MeantHit == ConSpec => MeantIsHit
  <1> DEFINE Hits == \A c \in Client :
               At(c, "fetch") /\ Len(cl'[c].path) > Len(cl[c].path) =>
                 LET p == Head(cl[c].asked) IN
                 p.view = shot.size /\ Steady(c, shot.size)
                   => cl'[c].path[Len(cl[c].path) + 1] = p.meant
  <1>1. ASSUME CInv, ConNext, NEW c \in Client,
               At(c, "fetch"), Len(cl'[c].path) > Len(cl[c].path),
               Head(cl[c].asked).view = shot.size, Steady(c, shot.size)
        PROVE  cl'[c].path[Len(cl[c].path) + 1] = Head(cl[c].asked).meant
    <2>1. cl[c].path \in Seq(Nat) /\ cl[c].asked \in Seq(Point) /\ shot.size \in Size
      BY <1>1, FrameIsThere DEF CInv, ConTypeOK, Command
    <2>2. cl'[c].path # cl[c].path /\ cl'[c].path # <<>>
      <3>1. Len(cl[c].path) \in Nat /\ Len(<<>>) = 0
        BY <2>1
      <3>2. QED
        BY <1>1, <3>1
    <2>3. Resolves(c)
      <3>1. PICK d \in Client : ClientStep(d)
        BY <1>1, <2>2, NextSteps, ResizeMarks, EvictMarks DEF CInv, Marks
      <3>2. Moves(d) \/ Begins(d)
        BY <1>1, <3>1, ClientMoves
      <3>3. d = c
        BY <1>1, <2>2, <3>2, MovesTyped DEF CInv
      <3>4. QED
        BY <2>2, <3>2, <3>3 DEF Moves, Begins, Ends, Advances, Goes, Looks, DrawsGrid, Fits
    <2>4. cl[c].cmd \in Pointing /\ cl[c].pc = "fetch"
      BY <2>3 DEF Resolves
    <2>5. Len(cl[c].asked) >= 1
      BY <1>1, <2>4 DEF CInv, Resolving
    <2>6. PICK place \in Places, s \in Size : Head(cl[c].asked) = PointAt(place, s)
      <3>1. 1 \in 1 .. Len(cl[c].asked) /\ Head(cl[c].asked) = cl[c].asked[1]
        BY <2>1, <2>5
      <3>2. QED
        BY <1>1, <3>1 DEF CInv, Named
    <2>7. s = shot.size
      BY <1>1, <2>6, PointTyped
    <2>8. PICK y \in Resolved(c, PointAt(place, s), s) : cl'[c].path = Append(cl[c].path, y)
      BY <2>3, <2>6, <2>7 DEF Resolves
    <2>9. y = PointAt(place, s).meant
      BY <1>1, <2>7, <2>8, MeantResolved
    <2>10. cl'[c].path[Len(cl[c].path) + 1] = y
      BY <2>1, <2>8
    <2>11. QED
      BY <2>6, <2>9, <2>10
  <1>2. CInv /\ [ConNext]_convars => [Hits]_convars
    BY <1>1
  <1>3. QED
    BY <1>2, ConsoleInvariance, PTL DEF ConSpec, MeantIsHit
=============================================================================
