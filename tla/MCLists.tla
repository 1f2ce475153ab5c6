------------------------------ MODULE MCLists -------------------------------
(***************************************************************************)
(* Instances of the lists over the rows of the memory store.  A day has    *)
(* four instants, so that midnight (4) falls into the first window.        *)
(***************************************************************************)
EXTENDS ListProperties, MCParking

\* One building.
Buildings == [r \in ResidentID |-> 1]
=============================================================================
