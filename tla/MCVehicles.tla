----------------------------- MODULE MCVehicles -----------------------------
(***************************************************************************)
(* Instances of the vehicle registry.  No other endpoint is called.        *)
(***************************************************************************)
EXTENDS VehicleRegistry, TLC

VehicleSymm == Permutations(VehicleID) \cup Permutations(Plate)

NoWindows == {}
=============================================================================
