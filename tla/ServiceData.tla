---------------------------- MODULE ServiceData ----------------------------
(***************************************************************************)
(* The data the service and its contract speak of: the rows of the two     *)
(* tables, the requests of the clients and the answers.                    *)
(***************************************************************************)
EXTENDS Integers, FiniteSets

CONSTANTS
    Workers,       \* threads that run request handlers (REST or MCP)
    OrderIds,      \* Guids of calculation orders
    FieldIds,      \* Guids of gravitational fields, chosen by clients or by Guid.NewGuid
    Payloads,      \* raw data tables
    Uncomputable,  \* the raw data tables Calculate() refuses
    ClientDates,   \* LastModificationDate values clients send (NoDate: none)
    ClientOps,     \* the operations the clients use
    Faults,        \* the database calls that may throw or time out
    RetireAfter,   \* _retirementTime, in clock units
    MaxClock,      \* bound of the clock
    NoRow, NoTxn, NoGuid, NoRequest

OrderOps == {"PostOrder", "PutOrder", "DeleteOrder"}
FieldOps == {"PostField", "PutField", "DeleteField"}

(***************************************************************************)
(* lock      a statement waits for a lock until its command timeout        *)
(* read      a SELECT throws and GetById answers null                      *)
(* statement an INSERT, UPDATE or DELETE of a transaction throws           *)
(* completed the INSERT of the completed field throws                      *)
(* commit    COMMIT throws, and the disposed transaction is rolled back    *)
(***************************************************************************)
FaultKinds == {"lock", "read", "statement", "completed", "commit"}

NoDate == -1
Dates == NoDate .. MaxClock
FieldTypes == {"Raw", "Completed"}
OrderRow == [payload : Payloads, completed : FieldIds, modified : Dates, light : Dates]
FieldRow == [payload : Payloads, type : FieldTypes, column : FieldTypes]

(***************************************************************************)
(* What a client can ask for.  A request that is not wellFormed carries no *)
(* body, a body whose ID is not the one of the route, or, as emptyGuid     *)
(* says, the empty Guid, in the route of a PUT as well as in its body.     *)
(***************************************************************************)
OrderRequests ==
    [op : {"PostOrder", "PutOrder"}, id : OrderIds, payload : Payloads,
     date : ClientDates, wellFormed : {TRUE}]
    \cup [op : {"DeleteOrder"}, id : OrderIds, wellFormed : {TRUE}]

FieldRequests ==
    [op : {"PostField", "PutField"}, id : FieldIds, payload : Payloads,
     type : FieldTypes, wellFormed : {TRUE}]
    \cup [op : {"DeleteField"}, id : FieldIds, wellFormed : {TRUE}]

MalformedRequests ==
    [op : {"PostOrder", "PutOrder", "PostField", "PutField"},
     wellFormed : {FALSE}, emptyGuid : BOOLEAN]
    \cup [op : {"DeleteOrder", "DeleteField"}, wellFormed : {FALSE}, emptyGuid : {TRUE}]

Requests == OrderRequests \cup FieldRequests \cup MalformedRequests

\* The answers of the controllers; 0 while there is none.
Statuses == {0, 200, 400, 404, 409, 500}

\* The WHERE of the cleaner: a missing date is stored as the empty string,
\* which sorts before every date.
OlderThan(date, threshold) == date = NoDate \/ date < threshold

ASSUME StoreAssumption ==
    /\ Uncomputable \subseteq Payloads
    /\ ClientOps \subseteq OrderOps \cup FieldOps
    /\ Faults \subseteq FaultKinds
    /\ MaxClock \in Nat /\ RetireAfter \in Nat
    /\ ClientDates \subseteq Dates
    /\ NoRow \notin OrderRow \cup FieldRow
    /\ NoGuid \notin FieldIds
    /\ NoRequest \notin Requests

=============================================================================
