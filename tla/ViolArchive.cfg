SPECIFICATION Spec
CONSTANTS
  ResidentID = {res1}
  AreaID = {area1}
  AuthID = {auth1}
  RecordID = {rec1}
  Plate = {plate1}
  None = None
  MaxTime = 8
  MaxAuthDuration = 3
  Proc = {p1, p2}
  Ops <- BookingOps
  CoarseClock = FALSE
  StatusInputs = {"active"}
  CapacityInputs = {1}
  Tokens = {}
  Windows <- FineWindows
INVARIANTS EnteredCanExit
