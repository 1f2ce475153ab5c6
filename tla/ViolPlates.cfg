SPECIFICATION VehicleSpec
CONSTANTS
  ResidentID = {}
  AreaID = {}
  AuthID = {}
  RecordID = {}
  Plate = {plate1, plate2}
  None = None
  MaxTime = 2
  MaxAuthDuration = 1
  Proc = {p1, p2}
  Ops = {}
  CoarseClock = TRUE
  StatusInputs = {}
  CapacityInputs = {}
  Tokens = {1, 2}
  Windows <- NoWindows
  VehicleID = {veh1, veh2}
  Owner = {owner1}
  Postgres = FALSE
  Faults = {}
SYMMETRY VehicleSymm
INVARIANTS OneVehiclePerPlate
