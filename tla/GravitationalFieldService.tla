--------------------- MODULE GravitationalFieldService ---------------------
(***************************************************************************)
(* The service: the request handlers of the two endpoint families and the  *)
(* cleaner, interleaved over one database, with crashes.                   *)
(***************************************************************************)
EXTENDS FieldService, DatabaseCleaner

vars == <<storeVars, handlerVars, clock, cleanerVars>>

Init == InitStore /\ InitHandlers /\ InitCleaner

(***************************************************************************)
(* Bound: a request is taken only if it leaves a Guid for every            *)
(* calculation that is still to come.                                      *)
(***************************************************************************)
Calculations == {"PostOrder", "PutOrder"}

GuidsLeft(r) ==
    LET coming == {v \in Workers : pc[v] = "check" /\ request[v].op \in Calculations}
        own == IF r.op \in Calculations THEN 1 ELSE 0
        named == {g \in FieldIds : r \in FieldRequests /\ r.id = g}
    IN  Cardinality(FreshFieldIds \ named) >= Cardinality(coming) + own

\* A request arrives at a worker.  Its client cannot name the Guid that a
\* calculation still running has drawn.
Receive(w) ==
    /\ pc[w] = "idle"
    /\ \E r \in Requests :
        /\ r.op \in ClientOps
        /\ GuidsLeft(r)
        /\ r \in FieldRequests => \A v \in Workers : completed[v] # r.id
        /\ request' = [request EXCEPT ![w] = r]
    /\ ok' = [ok EXCEPT ![w] = TRUE]
    /\ Goto(w, "check")
    /\ UNCHANGED <<storeVars, completed, status, clock, cleanerVars>>

\* The answer leaves the host.
Reply(w) ==
    /\ pc[w] = "reply"
    /\ Goto(w, "idle")
    /\ request' = [request EXCEPT ![w] = NoRequest]
    /\ status' = [status EXCEPT ![w] = 0]
    /\ ok' = [ok EXCEPT ![w] = TRUE]
    /\ UNCHANGED <<storeVars, completed, clock, cleanerVars>>

HandlerStep(w) ==
    \/ /\ \/ OrderStep(w, clock)
          \/ FieldStep(w)
          \/ BeginTransaction(w)
          \/ EndTransaction(w)
       /\ UNCHANGED <<clock, cleanerVars>>
    \/ Reply(w)

\* The process stops and starts again: what handlers and cleaner held is
\* gone, and SQLite rolls the open transaction back.
Crash ==
    /\ \/ \E w \in Workers : pc[w] # "idle"
       \/ cleaner # "asleep"
    /\ txn' = NoTxn
    /\ pc' = [w \in Workers |-> "idle"]
    /\ request' = [w \in Workers |-> NoRequest]
    /\ completed' = [w \in Workers |-> NoGuid]
    /\ ok' = [w \in Workers |-> TRUE]
    /\ status' = [w \in Workers |-> 0]
    /\ cleaner' = "asleep"
    /\ threshold' = 0
    /\ UNCHANGED <<orders, fields, clock>>

Next ==
    \/ \E w \in Workers : Receive(w) \/ HandlerStep(w)
    \/ WakeCleaner
    \/ CleanDatabase
    \/ CleanFails
    \/ Tick
    \/ Crash

Spec == Init /\ [][Next]_vars

(***************************************************************************)
(* Fairness: a handler that can run runs; the cleaner's loop always wakes  *)
(* again, and its DELETE, which SQLite tries again and again until its     *)
(* timeout, gets the write lock at last if the lock is free every so often *)
(* and the timeout does not come first.                                    *)
(* Clients, the clock and crashes are not fair.                            *)
(***************************************************************************)
Fairness ==
    /\ \A w \in Workers : WF_vars(HandlerStep(w))
    /\ WF_vars(WakeCleaner)
    /\ SF_vars(CleanDatabase)

FairSpec == Spec /\ Fairness

-----------------------------------------------------------------------------
(***************************************************************************)
(* The contract of the interface, seen from this module: between its first *)
(* read and its last write a handler is pending.                           *)
(***************************************************************************)
Phase(w) ==
    CASE pc[w] = "idle" -> "idle"
      [] pc[w] = "reply" -> "decided"
      [] OTHER -> "pending"

Contract == INSTANCE RestContract WITH phase <- [w \in Workers |-> Phase(w)]

\* The handlers, the cleaner and their interleavings keep the contract of
\* RestContract: every request is atomic, every answer is true.
KeepsContract == Contract!Spec

-----------------------------------------------------------------------------
\* Every variable keeps to the values its C# counterpart can have.
TypeOK ==
    /\ orders \in [OrderIds -> OrderRow \cup {NoRow}]
    /\ fields \in [FieldIds -> FieldRow \cup {NoRow}]
    /\ txn \in Transaction \cup {NoTxn}
    /\ pc \in [Workers -> PcValues]
    /\ request \in [Workers -> Requests \cup {NoRequest}]
    /\ completed \in [Workers -> FieldIds \cup {NoGuid}]
    /\ ok \in [Workers -> BOOLEAN]
    /\ status \in [Workers -> Statuses]
    /\ clock \in 0 .. MaxClock
    /\ cleaner \in {"asleep", "cleaning"}
    /\ threshold \in Int

(***************************************************************************)
(* An order and the field computed from it stay together: as long as       *)
(* clients leave the field alone and its INSERT does not throw, the field  *)
(* an order names is in the other table, completed, and of the same data,  *)
(* through every failed, racing or repeated request and every crash.       *)
(***************************************************************************)
OrderHasCompletedField ==
    \A i \in OrderIds : orders[i] # NoRow =>
        fields[orders[i].completed] =
            [payload |-> orders[i].payload, type |-> "Completed", column |-> "Completed"]

\* Every request is answered, or lost in a crash: a handler never waits for
\* ever behind the write lock, whoever else keeps taking it.
EveryRequestAnswered == \A w \in Workers : pc[w] = "check" ~> pc[w] = "idle"

\* An order that has been left alone for longer than the retirement time, or
\* never had a modification date, does not stay for ever, once the service
\* does not crash every time before its cleaner comes to the DELETE, and the
\* DELETE does not fail every time: a cleaning that has failed is made up for.
CrashesEnd == <>[][~Crash]_vars
FailuresEnd == <>[][~CleanFails]_vars
Expired(i) == orders[i] # NoRow /\ OlderThan(orders[i].modified, clock - RetireAfter)
ExpiredOrdersGo == CrashesEnd /\ FailuresEnd => \A i \in OrderIds : Expired(i) ~> ~Expired(i)

-----------------------------------------------------------------------------
(***************************************************************************)
(* What documents or names in the code say, and the code does not do.      *)
(***************************************************************************)

\* "Retrieve complete gravitational fields filtered by state": the filter
\* returns the fields of the state asked for.
FilterMatchesState ==
    \A asked \in BOOLEAN : \A g \in GetAllCompletedGravitationalField(asked) :
        (fields[g].type = "Completed") = asked

=============================================================================
