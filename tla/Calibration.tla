---------------------------- MODULE Calibration ----------------------------
(***************************************************************************)
(* The calibration store (calibration.py): one file shared by every        *)
(* client, rewritten through one temporary file whose name is fixed, and   *)
(* the transform a record stands for, on one axis. A framebuffer of size s *)
(* has the pixels 0 .. s - 1 and a viewer shows it shrunk by Zoom[s].      *)
(***************************************************************************)
EXTENDS Naturals, FiniteSets

CONSTANTS
  Client,   \* usable client ids
  Size,     \* the resolutions the guest's display takes
  Zoom,     \* how much a viewer shrinks an image of each size
  Absent,   \* no such file
  Broken    \* a file that does not parse

ASSUME SizeAssumption ==
  /\ Size \subseteq Nat \ {0}
  /\ Zoom \in [Size -> Nat \ {0}]
  /\ Absent # Broken

VARIABLES
  file,     \* calibration.json
  temp,     \* calibration.json.tmp
  handle    \* client -> where its open write handle leads: "file", "temp",
            \* "lost" (a file no name leads to any more) or "none"

calvars == <<file, temp, handle>>

\* Marker readings: the size the grid was laid out for, the size of the image
\* it was drawn on, and whether the client measured or guessed.
Reading == [grid : Size, image : Size, exact : BOOLEAN]

NoReading == [grid |-> 0, image |-> 0, exact |-> FALSE]

\* A record: the size it is saved for and the readings it was fitted to.
Record == [at : Size, from : Reading]
NoRecord == [at |-> 0, from |-> NoReading]

\* A document: client -> resolution -> record.
Empty == [c \in Client |-> [s \in Size |-> NoRecord]]
Document == [Client -> [Size -> Record \cup {NoRecord}]]

ASSUME DocumentAssumption == Absent \notin Document /\ Broken \notin Document

\* One fit may have been saved before.
CalInit(readings) ==
  /\ \/ file = Absent
     \/ \E c \in Client, r \in readings :
          file = [Empty EXCEPT ![c][r.grid] = [at |-> r.grid, from |-> r]]
  /\ temp = Absent
  /\ handle = [c \in Client |-> "none"]

\* load: never raises, and what it cannot read counts as empty.
Load == IF file \in {Absent, Broken} THEN Empty ELSE file

\* Mutant of Find: any record of the client will do.
FindAnySize(c, s) ==
  IF \E t \in Size : Load[c][t] # NoRecord
  THEN Load[c][CHOOSE t \in Size : Load[c][t] # NoRecord]
  ELSE NoRecord

\* find: the exact record for this client and resolution.
Find(c, s) == Load[c][s]

\* Record.trustworthy: guessed readings leave a residual. What was read off
\* another resolution does not: the grid is proportional to the frame.
Trustworthy(rec) == rec # NoRecord /\ rec.from.exact

\* Record.to_framebuffer. The fit saved at size s maps a marker, seen at
\* grid * f / Zoom[image], to s * f; the result is clamped to the frame.
ToFramebuffer(rec, x) ==
  LET y == (x * rec.at * Zoom[rec.from.image]) \div rec.from.grid IN
  IF y < rec.at THEN y ELSE rec.at - 1

\* Mutant of Upserted: the store is written afresh.
UpsertedAlone(c, s, reading) == [Empty EXCEPT ![c][s] = [at |-> s, from |-> reading]]

\* upsert: the document a client goes on to write.
Upserted(c, s, reading) == [Load EXCEPT ![c][s] = [at |-> s, from |-> reading]]

-----------------------------------------------------------------------------
(* _persist                                                                *)

\* Mutant of OpenTemp: the store is rewritten in place.
OpenFile(c) ==
  /\ handle' = [handle EXCEPT ![c] = "file"]
  /\ file' = Broken
  /\ UNCHANGED temp

\* open(tmp, "w"): the file is created, or cut to nothing under whoever else
\* is writing it.
OpenTemp(c) ==
  /\ handle' = [handle EXCEPT ![c] = "temp"]
  /\ temp' = Broken
  /\ UNCHANGED file

\* Two texts in one file: the later one, or a mixture if it is the shorter.
Over(old, doc) == IF old \in {Broken, doc} THEN {doc} ELSE {doc, Broken}

\* write and close.
WriteTemp(c, doc) ==
  /\ \/ handle[c] = "temp" /\ temp' \in Over(temp, doc) /\ UNCHANGED file
     \/ handle[c] = "file" /\ file' \in Over(file, doc) /\ UNCHANGED temp
     \/ handle[c] = "lost" /\ UNCHANGED <<file, temp>>
  /\ handle' = [handle EXCEPT ![c] = "none"]

\* os.replace: open handles stay with the file they opened.
ReplaceFile ==
  /\ temp # Absent
  /\ file' = temp /\ temp' = Absent
  /\ handle' = [c \in Client |->
                  IF handle[c] = "temp" THEN "file"
                  ELSE IF handle[c] = "file" THEN "lost" ELSE handle[c]]

\* A writer that dies has written nothing: the text is in its buffer.
DropHandle(c) ==
  /\ handle' = [handle EXCEPT ![c] = "none"]
  /\ UNCHANGED <<file, temp>>

CalTypeOK ==
  /\ file \in Document \cup {Absent, Broken}
  /\ temp \in Document \cup {Absent, Broken}
  /\ handle \in [Client -> {"none", "file", "temp", "lost"}]
=============================================================================
