SPECIFICATION PgFairSpec
CONSTANTS
  ResidentID = {res1}
  AreaID = {area1}
  AuthID = {auth1}
  RecordID = {rec1}
  Plate = {plate1}
  None = None
  MaxTime = 2
  MaxAuthDuration = 2
  Proc = {p1, p2}
  Ops <- LockOps
  CoarseClock = TRUE
  StatusInputs = {None}
  CapacityInputs = {1}
  Tokens = {1}
  Windows <- GateWindows
  Faults = {}
INVARIANTS UnauditedRevocationsOnly
PROPERTIES EveryRequestAnswered
