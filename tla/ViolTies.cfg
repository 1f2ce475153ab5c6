SPECIFICATION WalkSpec
CONSTANTS
  ResidentID = {res1}
  AreaID = {area1}
  AuthID = {auth1, auth2}
  RecordID = {rec1, rec2}
  Plate = {plate1, plate2}
  None = None
  MaxTime = 9
  MaxAuthDuration = 4
  Proc = {p1}
  Ops <- WalkOps
  CoarseClock = FALSE
  StatusInputs = {"active"}
  CapacityInputs = {2}
  Tokens = {}
  Windows <- TiedWindows
  BuildingOf <- Buildings
  DefaultLimit = 2
  MaxLimit = 3
  ExpiringSoonWindow = 3
  Day = 4
  WalkLimits = {1}
  WalkQueries <- AllPending
SYMMETRY RowSymm
INVARIANTS TiedWalkFindsAll
