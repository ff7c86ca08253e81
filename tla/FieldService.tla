---------------------------- MODULE FieldService ----------------------------
(***************************************************************************)
(* The gravitational-field endpoints: GravitationalFieldController and     *)
(* GravitationalFieldManager.  The table also holds the completed fields   *)
(* of the orders, which clients may update and delete as their own.        *)
(***************************************************************************)
EXTENDS OrderService

\* PostGravitationalField: as for an order, without a second look.
PostFieldCheck(w) ==
    /\ IsOp(w, "check", "PostField")
    /\ LET r == request[w] IN
       \/ ~r.wellFormed /\ Answer(w, 400)
       \/ r.wellFormed /\ SeesRow("field", fields[r.id]) /\ Answer(w, 409)
       \/ r.wellFormed /\ SeesNull("field", fields[r.id]) /\ Goto(w, "begin") /\ UNCHANGED status
    /\ UNCHANGED <<storeVars, request, completed, ok>>

\* AddGravitationalField: the INSERT sets the Type column from the Type of
\* the field; the primary key refuses a second row of the ID.
InsertField(w) ==
    /\ IsOp(w, "write", "PostField")
    /\ LET r == request[w] IN
       \/ /\ txn.fields[r.id] = NoRow
          /\ Write(w, "field", r.id, [payload |-> r.payload, type |-> r.type, column |-> r.type])
          /\ UNCHANGED ok
       \/ /\ txn.fields[r.id] # NoRow \/ "statement" \in Faults
          /\ WriteNothing("field")
          /\ ok' = [ok EXCEPT ![w] = FALSE]
    /\ Goto(w, "end")
    /\ UNCHANGED <<orders, fields, request, completed, status>>

\* PutGravitationalFieldById, as for an order.
PutFieldCheck(w) ==
    /\ IsOp(w, "check", "PutField")
    /\ LET r == request[w] IN
       \/ ~r.wellFormed /\ Answer(w, IF r.emptyGuid THEN 404 ELSE 400)
       \/ r.wellFormed /\ SeesNull("field", fields[r.id]) /\ Answer(w, 404)
       \/ r.wellFormed /\ SeesRow("field", fields[r.id]) /\ Goto(w, "begin") /\ UNCHANGED status
    /\ UNCHANGED <<storeVars, request, completed, ok>>

\* Variant: an upsert, which puts back a field that has gone meanwhile.
UpsertField(w) ==
    /\ IsOp(w, "write", "PutField")
    /\ LET r == request[w] IN
       Write(w, "field", r.id, [payload |-> r.payload, type |-> r.type, column |-> r.type])
    /\ Goto(w, "end")
    /\ UNCHANGED <<orders, fields, request, completed, ok, status>>

\* UpdateGravitationalFieldById: the UPDATE replaces the field and leaves
\* the Type column; a count other than one is a failure.
UpdateField(w) ==
    /\ IsOp(w, "write", "PutField")
    /\ LET r == request[w] IN
       \/ /\ txn.fields[r.id] # NoRow
          /\ Write(w, "field", r.id, [payload |-> r.payload, type |-> r.type,
                                      column |-> txn.fields[r.id].column])
          /\ UNCHANGED ok
       \/ /\ txn.fields[r.id] = NoRow \/ "statement" \in Faults
          /\ WriteNothing("field")
          /\ ok' = [ok EXCEPT ![w] = FALSE]
    /\ Goto(w, "end")
    /\ UNCHANGED <<orders, fields, request, completed, status>>

\* DeleteGravitationalFieldById of the controller.
DeleteFieldCheck(w) ==
    /\ IsOp(w, "check", "DeleteField")
    /\ LET r == request[w] IN
       \/ ~r.wellFormed /\ Answer(w, 404)
       \/ r.wellFormed /\ SeesNull("field", fields[r.id]) /\ Answer(w, 404)
       \/ r.wellFormed /\ SeesRow("field", fields[r.id]) /\ Goto(w, "begin") /\ UNCHANGED status
    /\ UNCHANGED <<storeVars, request, completed, ok>>

\* DeleteGravitationalFieldById of the manager; deleting no row succeeds.
DeleteField(w) ==
    /\ IsOp(w, "write", "DeleteField")
    /\ \/ /\ Write(w, "field", request[w].id, NoRow)
          /\ UNCHANGED ok
       \/ /\ "statement" \in Faults
          /\ WriteNothing("field")
          /\ ok' = [ok EXCEPT ![w] = FALSE]
    /\ Goto(w, "end")
    /\ UNCHANGED <<orders, fields, request, completed, status>>

FieldStep(w) ==
    \/ PostFieldCheck(w)
    \/ InsertField(w)
    \/ PutFieldCheck(w)
    \/ UpdateField(w)
    \/ DeleteFieldCheck(w)
    \/ DeleteField(w)

\* GetAllCompletedGravitationalField: the rows whose Type column matches.
GetAllCompletedGravitationalField(completedBool) ==
    {g \in FieldIds :
        /\ fields[g] # NoRow
        /\ fields[g].column = IF completedBool THEN "Completed" ELSE "Raw"}

=============================================================================
