SPECIFICATION ISpec
CONSTANTS
  Admin = {a1, a2}
  Version = {v1, v2}
  UserLine = {plain, latin, broken}
  Foreign = {latin}
  Broken = {broken}
  Torn = Torn
  None = None
  Partial = Partial
  MaxFaults = 1
  MaxEdits = 1
SYMMETRY Alike
INVARIANTS InstTypeOK UserLinesSurvive LineHasScript
PROPERTIES SuccessIsWhole
