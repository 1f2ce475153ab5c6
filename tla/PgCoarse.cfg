SPECIFICATION PgStartedSpec
CONSTANTS
  ResidentID = {res1}
  AreaID = {area1}
  AuthID = {auth1}
  RecordID = {rec1, rec2}
  Plate = {plate1}
  None = None
  MaxTime = 2
  MaxAuthDuration = 1
  Proc = {p1, p2}
  Ops <- ChangeOps
  CoarseClock = TRUE
  StatusInputs = {None}
  CapacityInputs = {1, 2}
  Tokens = {1}
  Windows <- GateWindows
  Faults = {}
SYMMETRY PgSymm
INVARIANTS OneOpenRecord
PROPERTIES EntryRespectsCapacity ArchivedFinal
