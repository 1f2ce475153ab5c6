----------------------------- MODULE MCPostgres -----------------------------
(***************************************************************************)
(* The instances of the service over PostgreSQL that TLC checks, with the  *)
(* endpoints and inputs of MCParking.                                      *)
(***************************************************************************)
EXTENDS PostgresProperties, ParkingRefinement, MCParking

\* The interchangeable identities where there is one plate.
PgSymm == Permutations(Proc) \cup Permutations(RecordID)

\* A database that is there at 2 leaves a window of two instants, and the
\* one after it.
PgFineWindows == {<<3, 5>>, <<5, 6>>}

\* A window that leaves time for two entries.
FailureWindows == {<<4, 7>>}

\* What contends for the locks of an authorization and of its area.
LockOps ==
    {"CreateResident", "CreateParkingArea", "ArchiveParkingArea",
     "CreateAuthorization", "ArchiveAuthorization", "RevokeAuthorization",
     "EnterVehicle", "ExitVehicle"}

\* What changes residents, areas and authorizations while vehicles come in.
ChangeOps ==
    ServiceOps \ {"CreateResident", "CreateParkingArea", "RevokeAuthorization",
                  "ExitVehicle"}
=============================================================================
