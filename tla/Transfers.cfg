SPECIFICATION TSpec
CONSTANTS
  Worker = {w1, w2}
  Byte = {x, y}
  x = x
  y = y
  Content <- Files
  Chunk = 2
  Absent = Absent
  NoWorker = NoWorker
  MaxFaults = 1
  MaxEdits = 1
INVARIANTS CleanTransferSucceeds CarriedWhole
PROPERTIES PullAllOrNothing
