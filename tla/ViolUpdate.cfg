SPECIFICATION Spec
CONSTANTS
  ResidentID = {res1}
  AreaID = {area1}
  AuthID = {auth1}
  RecordID = {rec1}
  Plate = {plate1}
  None = None
  MaxTime = 5
  MaxAuthDuration = 2
  Proc = {p1, p2}
  Ops <- AreaOps
  CoarseClock = FALSE
  StatusInputs = {"active"}
  CapacityInputs = {1, 2}
  Tokens = {1}
  Windows <- GateWindows
INVARIANTS NoSpuriousConflict
