----------------------------- MODULE MCPgLists ------------------------------
(***************************************************************************)
(* The lists of PostgreSQL over the rows its transactions commit.          *)
(***************************************************************************)
EXTENDS ListProperties, MCPostgres

Buildings == [r \in ResidentID |-> 1]
=============================================================================
