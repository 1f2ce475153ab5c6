------------------------- MODULE PostgresProperties -------------------------
(***************************************************************************)
(* What the service promises over PostgreSQL, where a change is no longer  *)
(* one step under a mutex.  The properties of ParkingProperties that are   *)
(* checked here too are those of the rows: overlap, capacity, records and  *)
(* truthful refusals.  This module adds those that are about transactions, *)
(* locks and failures.                                                     *)
(***************************************************************************)
EXTENDS ParkingProperties, PostgresService

\* What a request carries while it is in a transaction, and that locks are
\* held by one open transaction only, that of the row's own request.
TxOK(p) ==
    /\ tx[p].seen \in Nat
    /\ tx[p].holds # {} => req[p].phase \in {"area", "commit"}
    /\ \A q \in Proc \ {p} : tx[p].holds \cap tx[q].holds = {}
    /\ InTx(p) /\ req[p].op # "CreateAuthorization" =>
         /\ req[p].cur \in Authorization \cup {None}
         /\ req[p].phase # "lock" => req[p].id \in tx[p].holds
         /\ req[p].phase = "commit" /\ req[p].op = "EnterVehicle" =>
              req[p].cur.area \in tx[p].holds
    /\ ~InTx(p) => tx[p] = NoTx

\* The type invariant of the transactions and of the rows.
PgTypeOK ==
    /\ StoreTypeOK
    /\ DOMAIN tx = Proc
    /\ \A p \in Proc :
         /\ TxOK(p)
         /\ req[p].phase = "reply" => req[p].in \in Error \cup {"ErrInternal"}

\* What a transaction decided on its snapshot, maybe long ago, is right when
\* it commits: the rules of the memory store, which looks at the rows of this
\* very instant, would let the change through.  (The count of vehicles and
\* the search for overlaps lock nothing: only the isolation level keeps them
\* true.  A resident or area archived after the snapshot of a creation is
\* not noticed, so that the creation is held to the overlap alone.)
DecisionsCurrent ==
    \A p \in Proc : req[p].phase = "commit" /\ ~tx[p].doomed =>
        CASE req[p].op = "EnterVehicle" -> EnterVehicleErr(req[p].id, req[p].t) = "nil"
          [] req[p].op = "ExitVehicle" -> ExitVehicleErr(req[p].id) = "nil"
          [] req[p].op = "RevokeAuthorization" -> RevokeAuthorizationErr(req[p].id) = "nil"
          [] req[p].op = "CreateAuthorization" -> ~Conflicts(req[p].in)

\* An authorization has at most one open record, even after an update that
\* held an old copy of the row has made it pending again while its vehicle
\* was inside.
OneOpenRecord ==
    \A x \in AuthID : Cardinality(EnteredRecords(x)) <= 1

\* The audit log never tells of something that did not happen: not after a
\* transaction that was rolled back, a lost answer or a restart.
NothingInvented == logs \cup Auditing \subseteq Effects

\* The entries of the changes that are committed and whose rows are being read
\* again.
Rereading ==
    {<<AuditAction(req[p].op), req[p].id>> : p \in {q \in Proc : req[q].phase = "reread"}}

\* What the request of a transaction asks for was done before: the client was
\* not told, and tries again, or another was faster.
AlreadyDone(p) ==
    CASE req[p].op = "EnterVehicle" ->
           \E r \in DOMAIN records : records[r].auth = req[p].id
      [] req[p].op = "ExitVehicle" ->
           \E r \in DOMAIN records : /\ records[r].auth = req[p].id
                                     /\ records[r].status = "exited"
      [] req[p].op = "RevokeAuthorization" ->
           req[p].id \in DOMAIN auths /\ auths[req[p].id].status = "cancelled"
      [] OTHER -> FALSE

\* What such a client is told: of the conflict, that the authorization is
\* gone, or that something has failed.
RetryErrors(p) ==
    {"ErrNotFound", "ErrInternal"} \cup
    CASE req[p].op = "EnterVehicle" -> {"ErrAlreadyEntered", "ErrStatusTransition"}
      [] req[p].op = "ExitVehicle" -> {"ErrAlreadyExited"}
      [] OTHER -> {"ErrStatusTransition"}

\* A client whose answer was lost, or who was overtaken, and who enters,
\* leaves or revokes once more is told so: the transaction, whatever snapshot
\* it took and however long it has waited, does not make the change again and
\* does not end with another refusal, such as that the window is over or that
\* the area is full.
TellsRetries ==
    \A p \in Proc :
        InTx(p) /\ AlreadyDone(p) =>
            \/ req'[p] \in {req[p], Idle}
            \/ req'[p].phase = "reply" /\ req'[p].in \in RetryErrors(p)
RetryTold == [][TellsRetries]_pgVars

\* Where nothing fails, every change is logged or about to be, except one: a
\* revocation whose authorization was archived before the service could read
\* it again is answered as not found and never reaches the audit log.  No exit
\* and no other change is lost that way.
UnauditedRevocationsOnly ==
    \A e \in Effects \ (logs \cup Auditing \cup Rereading) :
        /\ e[1] = "authorization.revoke"
        /\ auths[e[2]].archived

-----------------------------------------------------------------------------
(* What the documentation says and the code does not do                    *)

\* Where nothing fails, a repeated entry is answered with a conflict: a client
\* whose authorization has been used already is not sent an internal error.
RepeatedEntryConflicts ==
    \A p \in Proc :
        req[p].phase = "reply" /\ req[p].op = "EnterVehicle"
            /\ (\E r \in DOMAIN records : records[r].auth = req[p].id) =>
        StatusCode(req[p].in) # 500

\* Where nothing fails, every change reaches the audit log or is about to.
EveryEffectAudited == Effects \subseteq logs \cup Auditing \cup Rereading
=============================================================================
