SPECIFICATION Spec
CONSTANTS
  ResidentID = {res1}
  AreaID = {area1}
  AuthID = {auth1, auth2}
  RecordID = {rec1, rec2}
  Plate = {plate1, plate2}
  None = None
  MaxTime = 8
  MaxAuthDuration = 3
  Proc = {p1}
  Ops <- BookingOps
  CoarseClock = FALSE
  StatusInputs = {"active"}
  CapacityInputs = {1}
  Tokens = {}
  Windows <- FineWindows
  BuildingOf <- Buildings
  DefaultLimit = 2
  MaxLimit = 3
  ExpiringSoonWindow = 3
  Day = 4
SYMMETRY Symm
INVARIANTS AuditTotalTruthful
