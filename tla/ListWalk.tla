------------------------------ MODULE ListWalk ------------------------------
(***************************************************************************)
(* A client that reads a list page by page while others change its rows.   *)
(* Each page is a request of its own: nothing ties the offset of the next  *)
(* page to the rows of the last one.  The client advances by the size of   *)
(* the answer and stops when it has reached the total.                     *)
(*                                                                         *)
(* walk is the client's progress together with what the property needs to  *)
(* know of the rows in the meantime: those that stayed in the list since   *)
(* the walk began, whether any left it, and whether two of a page's list   *)
(* had the same sort key.                                                  *)
(***************************************************************************)
EXTENDS ParkingProperties, ListQueries

CONSTANTS
    WalkLimits,    \* limits the client sends, which the store grants
    WalkQueries    \* queries for authorizations the client walks through

ASSUME WalkAssumption == WalkLimits \subseteq 1..MaxLimit

VARIABLE walk

walkVars == <<vars, walk>>

NoWalk == [phase |-> "idle", list |-> "none", q |-> NoFilter, limit |-> 0, offset |-> 0,
           t |-> ZeroTime, found |-> {}, stayed |-> {}, left |-> FALSE, tied |-> FALSE]

\* The instant the list is about: that of the request, from when the service
\* has read the clock until the client has the page.
Instant(w) == IF w.phase \in {"list", "done"} THEN w.t ELSE now

\* The rows of the list, and their sort keys.
Rows(w) == IF w.list = "records" THEN RecordsListed(None, None, None)
           ELSE MemoryListed(w.q, Instant(w))
Key(w, x) == IF w.list = "records" THEN records[x].entry ELSE auths[x].start
Tied(w) == \E x, y \in Rows(w) : x # y /\ Key(w, x) = Key(w, y)

Pages(w) == IF w.list = "records" THEN ListRecords(None, None, None, w.limit, w.offset)
            ELSE ListAuthorizations(w.q, w.limit, w.offset, w.t)

\* The walk w becomes v in a step: what the step does to the rows it is about.
Watched(w, v) ==
    IF w.phase \notin {"ask", "list"} THEN v
    ELSE [v EXCEPT !.stayed = @ \cap Rows(v)',
                   !.left = @ \/ ~(Rows(w) \subseteq Rows(v)')]

WalkInit == Init /\ walk = NoWalk

StartWalk ==
    /\ walk.phase = "idle"
    /\ \E limit \in WalkLimits :
         \E w \in {[NoWalk EXCEPT !.list = "records", !.limit = limit]} \cup
                  {[NoWalk EXCEPT !.list = "authorizations", !.q = q, !.limit = limit] :
                      q \in WalkQueries} :
             walk' = [w EXCEPT !.phase = "ask", !.stayed = Rows(w)]
    /\ UNCHANGED vars

\* A list of authorizations reads the clock before it calls the store.
AskPage ==
    /\ walk.phase = "ask"
    /\ IF walk.list = "records" THEN UNCHANGED now ELSE ReadClock
    /\ UNCHANGED <<storeVars, req>>
    /\ \E w \in {walk}, v \in {[walk EXCEPT !.phase = "list", !.t = now]} :
         walk' = Watched(w, v)

ReadPage ==
    /\ walk.phase = "list"
    /\ UNCHANGED vars
    /\ \E w \in {walk}, r \in Pages(walk) :
         \E v \in {[w EXCEPT !.found = @ \cup {r.items[i] : i \in 1..Len(r.items)},
                           !.tied = @ \/ Tied(w),
                           !.offset = @ + r.size,
                           !.phase = IF w.offset + r.size >= r.total THEN "done" ELSE "ask"]} :
           walk' = Watched(w, v)

WalkNext ==
    \/ Next /\ \E w \in {walk} : walk' = Watched(w, w)
    \/ StartWalk
    \/ AskPage
    \/ ReadPage

WalkSpec == WalkInit /\ [][WalkNext]_walkVars

\* A walk finds every row that was in the list from its beginning to its end,
\* although rows were added in the meantime and moved the others to later
\* pages; provided no row left the list and no two had the same key.
WalkFindsAll ==
    walk.phase = "done" /\ ~walk.left /\ ~walk.tied => walk.stayed \subseteq walk.found

\* The same, whether or not two rows have the same key.
TiedWalkFindsAll ==
    walk.phase = "done" /\ ~walk.left => walk.stayed \subseteq walk.found
=============================================================================
