SPECIFICATION PgStartedSpec
CONSTANTS
  ResidentID = {res1}
  AreaID = {area1}
  AuthID = {auth1, auth2}
  RecordID = {rec1, rec2}
  Plate = {plate1, plate2}
  None = None
  MaxTime = 6
  MaxAuthDuration = 4
  Proc = {p1, p2}
  Ops <- BookingOps
  CoarseClock = FALSE
  StatusInputs = {"active"}
  CapacityInputs = {1}
  Tokens = {}
  Windows <- PgFineWindows
  Faults = {"failure", "crash"}
SYMMETRY Symm
INVARIANTS PgTypeOK DecisionsCurrent NoOverlap CapacityRespected LedgerConsistent NothingInvented RefusalsTruthful
PROPERTIES ImplementsParkingLot RetryTold
