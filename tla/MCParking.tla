----------------------------- MODULE MCParking ------------------------------
(***************************************************************************)
(* The instances of the service that TLC checks.  A cfg picks the clock    *)
(* and the endpoints its clients call; the inputs are picked here.         *)
(***************************************************************************)
EXTENDS ParkingRefinement, TLC

\* The interchangeable identities.
Symm == Permutations(Proc) \cup Permutations(AuthID) \cup
        Permutations(RecordID) \cup Permutations(Plate)

\* The life of authorizations: what the gate and the staff do all day.
BookingOps ==
    {"CreateResident", "CreateParkingArea", "CreateAuthorization",
     "ArchiveAuthorization", "RevokeAuthorization", "EnterVehicle", "ExitVehicle"}

\* Authorizations that are updated while they are used.
UpdateOps ==
    {"CreateResident", "CreateParkingArea", "CreateAuthorization",
     "UpdateAuthorization", "RevokeAuthorization", "EnterVehicle"}

\* Authorizations and areas that change while vehicles come and go.
GateOps == ServiceOps \ {"UpdateResident", "ArchiveResident", "RevokeAuthorization"}

\* Residents that change and leave while authorizations are made and used.
ResidentOps ==
    {"CreateResident", "UpdateResident", "ArchiveResident", "CreateParkingArea",
     "CreateAuthorization", "ArchiveAuthorization", "EnterVehicle", "ExitVehicle"}

\* An area and its updates, alone.
AreaOps == {"CreateParkingArea", "UpdateParkingArea"}

\* With a fine clock every request takes an instant: the residents and the
\* areas are there at 3 at the earliest, the first authorization at 4.
FineWindows == {<<4, 7>>, <<6, 8>>, <<4, 8>>}

\* With a coarse clock everything may happen at 1.
CoarseWindows == {<<1, 2>>, <<2, 3>>, <<0, 3>>}

\* The shortest window, and an update that only sends a later end.
UpdateWindows == {<<1, 2>>, <<0, 3>>}

\* A window that leaves no choice of time.
GateWindows == {<<1, 2>>}
=============================================================================
