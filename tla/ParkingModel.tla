---------------------------- MODULE ParkingModel ----------------------------
(***************************************************************************)
(* The domain model of the visitor parking service: the rows its tables    *)
(* hold (src/internal/model/models.go), the statuses they go through and   *)
(* the errors the store reports (src/internal/store/store.go).             *)
(*                                                                         *)
(* A column that no operation reads to decide anything (name, phone,       *)
(* purpose, note, created_at...) is left out.  archived_at is reduced to   *)
(* the question whether it is set.                                         *)
(***************************************************************************)
EXTENDS Integers, FiniteSets

CONSTANTS
    ResidentID,      \* identifiers NewID("res") may return
    AreaID,          \* identifiers NewID("area") may return
    AuthID,          \* identifiers NewID("auth") may return
    RecordID,        \* identifiers NewID("rec") may return
    Plate,           \* normalised, valid plates
    None,            \* the empty string, a nil pointer, an unset field
    MaxTime,         \* bound: the last instant the clock of the model shows
    MaxAuthDuration  \* seven days in the code, in the model's time unit

ASSUME TimeAssumption ==
    /\ MaxTime \in Nat \ {0}
    /\ MaxAuthDuration \in Nat

ASSUME NoneAssumption ==
    None \notin ResidentID \cup AreaID \cup AuthID \cup RecordID

\* Instants.  ZeroTime is Go's time.Time{}: the value of a field that the
\* client did not send, and of exit_time while the vehicle is inside.
ZeroTime == 0
Time == 0..MaxTime

AuthStatus == {"pending", "active", "completed", "cancelled"}
RecordStatus == {"entered", "exited"}

\* "unknown" stands for any text other than the two the model declares.
ResidentStatus == {"active", "disabled", "unknown"}

Resident ==
    [status : ResidentStatus, archived : BOOLEAN, updatedAt : Time]

ParkingArea ==
    [capacity : Nat, archived : BOOLEAN, updatedAt : Time]

Authorization ==
    [resident  : ResidentID,
     plate     : Plate,
     area      : AreaID,
     start     : Time,
     end       : Time,
     status    : AuthStatus,
     archived  : BOOLEAN,
     updatedAt : Time]

EntryExitRecord ==
    [auth   : AuthID,
     plate  : Plate,
     area   : AreaID,
     entry  : Time,
     exit   : Time,
     status : RecordStatus]

\* What a store call or a service call may return besides nil.
Error ==
    {"ErrNotFound", "ErrConflict", "ErrConcurrentModify",
     "ErrStatusTransition", "ErrNoCapacity", "ErrAlreadyEntered",
     "ErrAlreadyExited", "ErrOutOfTimeWindow", "ErrResidentDisabled",
     "ErrAreaArchived", "FieldError"}
=============================================================================
