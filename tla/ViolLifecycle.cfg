SPECIFICATION FairSpec
CONSTANTS
  ResidentID = {res1}
  AreaID = {area1}
  AuthID = {auth1}
  RecordID = {rec1}
  Plate = {plate1}
  None = None
  MaxTime = 3
  MaxAuthDuration = 2
  Proc = {p1, p2}
  Ops <- UpdateOps
  CoarseClock = TRUE
  StatusInputs = {"active"}
  CapacityInputs = {1}
  Tokens = {1}
  Windows <- CoarseWindows
PROPERTIES LifecycleSteps
