---------------------------- MODULE OrderService ----------------------------
(***************************************************************************)
(* The calculation-order endpoints: GravitationalFieldCalculationOrder-    *)
(* Controller and GravitationalFieldCalculationOrderManager.  The          *)
(* controller first reads the order (GetById), and only then calls the     *)
(* manager, which for a POST reads it again, and writes in a transaction:  *)
(* three looks at the database between which anything may commit.          *)
(***************************************************************************)
EXTENDS SqliteStore

IsOp(w, step, op) == pc[w] = step /\ request[w].op = op

(***************************************************************************)
(* Guid.NewGuid() returns a Guid that no row, request or running           *)
(* calculation of the system uses.                                         *)
(***************************************************************************)
FreshFieldIds ==
    {g \in FieldIds :
        /\ fields[g] = NoRow
        /\ txn # NoTxn => txn.fields[g] = NoRow
        /\ \A w \in Workers :
            /\ completed[w] # g
            /\ request[w] \in FieldRequests => request[w].id # g
        /\ \A i \in OrderIds : orders[i] # NoRow => orders[i].completed # g}

(***************************************************************************)
(* Calculate() fails on a raw table that is missing, empty, or holds a     *)
(* point out of range; otherwise it sets CompletedGravitationalField to a  *)
(* new field under a new Guid.                                             *)
(***************************************************************************)
CanCalculate(w) == request[w].payload \notin Uncomputable

Calculate(w) == \E g \in FreshFieldIds : completed' = [completed EXCEPT ![w] = g]

CompletedField(w) ==
    [payload |-> request[w].payload, type |-> "Completed", column |-> "Completed"]

-----------------------------------------------------------------------------
(***************************************************************************)
(* POST                                                                    *)
(***************************************************************************)

\* PostGravitationalFieldCalculationOrder: a body without an ID is refused,
\* an order that is there is a conflict, a null goes on to the manager,
\* which calculates first.
PostOrderCheck(w) ==
    /\ IsOp(w, "check", "PostOrder")
    /\ LET r == request[w] IN
       \/ /\ ~r.wellFormed
          /\ Answer(w, 400)
          /\ UNCHANGED completed
       \/ /\ r.wellFormed /\ SeesRow("order", orders[r.id])
          /\ Answer(w, 409)
          /\ UNCHANGED completed
       \/ /\ r.wellFormed /\ SeesNull("order", orders[r.id])
          /\ IF CanCalculate(w)
             THEN Calculate(w) /\ Goto(w, "recheck") /\ UNCHANGED status
             ELSE Answer(w, 500) /\ UNCHANGED completed
    /\ UNCHANGED <<storeVars, request, ok>>

\* AddGravitationalFieldCalculationOrder looks once more, after the
\* calculation: an order that is there now makes it return false.
RecheckOrder(w) ==
    /\ pc[w] = "recheck"
    /\ LET row == orders[request[w].id] IN
       \/ /\ SeesRow("order", row)
          /\ completed' = [completed EXCEPT ![w] = NoGuid]
          /\ Answer(w, 500)
       \/ /\ SeesNull("order", row)
          /\ Goto(w, "begin")
          /\ UNCHANGED <<completed, status>>
    /\ UNCHANGED <<storeVars, request, ok>>

\* The row a POST stores: the column and the light data carry the client's
\* LastModificationDate.
PostedOrder(w) ==
    [payload |-> request[w].payload, completed |-> completed[w],
     modified |-> request[w].date, light |-> request[w].date]

\* The INSERT of the order; the primary key refuses a second row of the ID.
InsertOrder(w) ==
    /\ IsOp(w, "write", "PostOrder")
    /\ LET id == request[w].id IN
       \/ /\ txn.orders[id] = NoRow
          /\ Write(w, "order", id, PostedOrder(w))
          /\ Goto(w, "complete")
          /\ UNCHANGED ok
       \/ /\ txn.orders[id] # NoRow \/ "statement" \in Faults
          /\ WriteNothing("order")
          /\ ok' = [ok EXCEPT ![w] = FALSE]
          /\ Goto(w, "end")
    /\ UNCHANGED <<orders, fields, request, completed, status>>

\* AddCompletedGravitationalField: the INSERT of the completed field on the
\* same connection.  Its exception is caught and its result is not used.
AddCompletedGravitationalField(w) ==
    /\ pc[w] = "complete"
    /\ LET g == completed[w] IN
       \/ /\ txn.fields[g] = NoRow
          /\ Write(w, "field", g, CompletedField(w))
       \/ /\ txn.fields[g] # NoRow \/ "completed" \in Faults
          /\ WriteNothing("field")
    /\ Goto(w, "end")
    /\ UNCHANGED <<orders, fields, request, completed, ok, status>>

-----------------------------------------------------------------------------
(***************************************************************************)
(* PUT                                                                     *)
(***************************************************************************)

\* PutGravitationalFieldCalculationOrderById: 400 unless the body has the
\* ID of the route, 404 unless the order is there, which one of the empty
\* Guid never is; the manager calculates and goes straight to its
\* transaction.
PutOrderCheck(w) ==
    /\ IsOp(w, "check", "PutOrder")
    /\ LET r == request[w] IN
       \/ /\ ~r.wellFormed
          /\ Answer(w, IF r.emptyGuid THEN 404 ELSE 400)
          /\ UNCHANGED completed
       \/ /\ r.wellFormed /\ SeesNull("order", orders[r.id])
          /\ Answer(w, 404)
          /\ UNCHANGED completed
       \/ /\ r.wellFormed /\ SeesRow("order", orders[r.id])
          /\ IF CanCalculate(w)
             THEN Calculate(w) /\ Goto(w, "begin") /\ UNCHANGED status
             ELSE Answer(w, 500) /\ UNCHANGED completed
    /\ UNCHANGED <<storeVars, request, ok>>

\* Variant: the order keeps the date its client sent.
UpdatedOrderUnstamped(w, clock) ==
    [payload |-> request[w].payload, completed |-> completed[w],
     modified |-> request[w].date, light |-> request[w].date]

\* The row a PUT stores: the light data is built before
\* LastModificationDate is set to the present.
UpdatedOrder(w, clock) ==
    [payload |-> request[w].payload, completed |-> completed[w],
     modified |-> clock, light |-> request[w].date]

\* Variant: only a POST stores the completed field.
UpdateOrderOnly(w, clock) ==
    /\ IsOp(w, "write", "PutOrder")
    /\ LET id == request[w].id IN
       IF txn.orders[id] # NoRow
       THEN Write(w, "order", id, UpdatedOrder(w, clock)) /\ UNCHANGED ok
       ELSE WriteNothing("order") /\ ok' = [ok EXCEPT ![w] = FALSE]
    /\ Goto(w, "end")
    /\ UNCHANGED <<orders, fields, request, completed, status>>

\* The UPDATE of the order.  A count other than one sets success to false,
\* and the completed field is inserted all the same.
UpdateOrder(w, clock) ==
    /\ IsOp(w, "write", "PutOrder")
    /\ LET id == request[w].id IN
       \/ /\ txn.orders[id] # NoRow
          /\ Write(w, "order", id, UpdatedOrder(w, clock))
          /\ Goto(w, "complete")
          /\ UNCHANGED ok
       \/ /\ txn.orders[id] = NoRow
          /\ WriteNothing("order")
          /\ ok' = [ok EXCEPT ![w] = FALSE]
          /\ Goto(w, "complete")
       \/ /\ "statement" \in Faults
          /\ WriteNothing("order")
          /\ ok' = [ok EXCEPT ![w] = FALSE]
          /\ Goto(w, "end")
    /\ UNCHANGED <<orders, fields, request, completed, status>>

-----------------------------------------------------------------------------
(***************************************************************************)
(* DELETE                                                                  *)
(***************************************************************************)

\* Variant: deleting what is not there answers 204.
DeleteOrderCheckNoContent(w) ==
    /\ IsOp(w, "check", "DeleteOrder")
    /\ LET r == request[w] IN
       \/ ~r.wellFormed /\ Answer(w, 204)
       \/ r.wellFormed /\ SeesNull("order", orders[r.id]) /\ Answer(w, 204)
       \/ /\ r.wellFormed /\ SeesRow("order", orders[r.id])
          /\ Goto(w, "begin")
          /\ UNCHANGED status
    /\ UNCHANGED <<storeVars, request, completed, ok>>

\* DeleteGravitationalFieldCalculationOrderById: 404 unless GetById answers
\* an order; GetById of the empty Guid is null.
DeleteOrderCheck(w) ==
    /\ IsOp(w, "check", "DeleteOrder")
    /\ LET r == request[w] IN
       \/ ~r.wellFormed /\ Answer(w, 404)
       \/ r.wellFormed /\ SeesNull("order", orders[r.id]) /\ Answer(w, 404)
       \/ /\ r.wellFormed /\ SeesRow("order", orders[r.id])
          /\ Goto(w, "begin")
          /\ UNCHANGED status
    /\ UNCHANGED <<storeVars, request, completed, ok>>

\* The DELETE of the order.  A count of zero rows is a success, and the row
\* of the completed field is not touched.
DeleteOrder(w) ==
    /\ IsOp(w, "write", "DeleteOrder")
    /\ \/ /\ Write(w, "order", request[w].id, NoRow)
          /\ UNCHANGED ok
       \/ /\ "statement" \in Faults
          /\ WriteNothing("order")
          /\ ok' = [ok EXCEPT ![w] = FALSE]
    /\ Goto(w, "end")
    /\ UNCHANGED <<orders, fields, request, completed, status>>

-----------------------------------------------------------------------------
OrderStep(w, clock) ==
    \/ PostOrderCheck(w)
    \/ RecheckOrder(w)
    \/ InsertOrder(w)
    \/ PutOrderCheck(w)
    \/ UpdateOrder(w, clock)
    \/ AddCompletedGravitationalField(w)
    \/ DeleteOrderCheck(w)
    \/ DeleteOrder(w)

=============================================================================
