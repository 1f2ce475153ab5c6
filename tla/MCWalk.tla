------------------------------- MODULE MCWalk -------------------------------
(***************************************************************************)
(* Instances of a client that walks through the records, or through the    *)
(* authorizations that are pending, page by page.                          *)
(***************************************************************************)
EXTENDS ListWalk, MCParking

Buildings == [r \in ResidentID |-> 1]

\* One after the other, so that one plate may have them all.
WalkWindows == {<<6, 7>>, <<7, 8>>, <<8, 9>>}

\* For more than one plate.
TiedWindows == {<<4, 8>>, <<5, 8>>}

RowSymm == Permutations(AuthID) \cup Permutations(RecordID)

\* What makes rows, and what takes them out of a list.
WalkOps ==
    {"CreateResident", "CreateParkingArea", "CreateAuthorization",
     "ArchiveAuthorization", "EnterVehicle"}

\* All that are pending.
AllPending == {[NoFilter EXCEPT !.status = "pending"]}
=============================================================================
