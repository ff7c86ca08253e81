---------------------------- MODULE RestContract ----------------------------
(***************************************************************************)
(* What the REST interface promises: every request takes effect at one     *)
(* moment between its arrival and its answer, or not at all.               *)
(*                                                                         *)
(*   - A 200 is the whole effect of the request on both tables, a POST     *)
(*     only where there was no row and a PUT only where there was one.     *)
(*   - Any other answer changes nothing, and says something true of that   *)
(*     moment: 409 that the row is there, 404 that it is not.              *)
(*   - An order and its completed field appear together.                   *)
(*   - Apart from clients, only age removes an order.                      *)
(*                                                                         *)
(* Each database fault weakens the promise by what is written next to its  *)
(* name in Faults, and by no more.                                         *)
(***************************************************************************)
EXTENDS ServiceData

VARIABLES orders, fields, clock,
          phase,    \* "idle", "pending" or "decided"
          request, status

vars == <<orders, fields, clock, phase, request, status>>

Init ==
    /\ orders = [i \in OrderIds |-> NoRow]
    /\ fields = [g \in FieldIds |-> NoRow]
    /\ clock = 0
    /\ phase = [w \in Workers |-> "idle"]
    /\ request = [w \in Workers |-> NoRequest]
    /\ status = [w \in Workers |-> 0]

Call(w, r) ==
    /\ phase[w] = "idle"
    /\ phase' = [phase EXCEPT ![w] = "pending"]
    /\ request' = [request EXCEPT ![w] = r]
    /\ UNCHANGED <<orders, fields, clock, status>>

Decide(w, code) ==
    /\ phase[w] = "pending"
    /\ phase' = [phase EXCEPT ![w] = "decided"]
    /\ status' = [status EXCEPT ![w] = code]
    /\ UNCHANGED <<request, clock>>

-----------------------------------------------------------------------------
\* The completed field g of an order appears with it, unless its INSERT threw.
CompletedFieldAppears(g, payload) ==
    \/ /\ fields[g] = NoRow
       /\ fields' = [fields EXCEPT ![g] =
                        [payload |-> payload, type |-> "Completed", column |-> "Completed"]]
    \/ "completed" \in Faults /\ UNCHANGED fields

StoreOrder(w, date) ==
    LET r == request[w] IN
    \E g \in FieldIds :
        /\ orders' = [orders EXCEPT ![r.id] =
                        [payload |-> r.payload, completed |-> g, modified |-> date, light |-> r.date]]
        /\ CompletedFieldAppears(g, r.payload)

Effect(w) ==
    LET r == request[w] IN
    \/ /\ r.op = "PostOrder" /\ orders[r.id] = NoRow
       /\ StoreOrder(w, r.date)
    \/ /\ r.op = "PutOrder" /\ orders[r.id] # NoRow
       /\ StoreOrder(w, clock)
    \/ /\ r.op = "DeleteOrder"
       /\ orders' = [orders EXCEPT ![r.id] = NoRow]
       /\ UNCHANGED fields
    \/ /\ r.op = "PostField" /\ fields[r.id] = NoRow
       /\ fields' = [fields EXCEPT ![r.id] =
                        [payload |-> r.payload, type |-> r.type, column |-> r.type]]
       /\ UNCHANGED orders
    \/ /\ r.op = "PutField" /\ fields[r.id] # NoRow
       /\ fields' = [fields EXCEPT ![r.id] =
                        [payload |-> r.payload, type |-> r.type, column |-> fields[r.id].column]]
       /\ UNCHANGED orders
    \/ /\ r.op = "DeleteField"
       /\ fields' = [fields EXCEPT ![r.id] = NoRow]
       /\ UNCHANGED orders

Succeed(w) ==
    /\ Decide(w, 200)
    /\ request[w].wellFormed
    /\ Effect(w)

-----------------------------------------------------------------------------
Present(r) ==
    \/ r \in OrderRequests /\ orders[r.id] # NoRow
    \/ r \in FieldRequests /\ fields[r.id] # NoRow

\* Without a Guid there is nothing to store, but something not to find.
BadRequest(r) == ~r.wellFormed /\ (r.op \in {"PostOrder", "PostField"} \/ ~r.emptyGuid)

NotFound(r) ==
    /\ ~BadRequest(r)
    /\ r.op \notin {"PostOrder", "PostField"}
    /\ \/ ~Present(r)
       \/ Faults \cap {"read", "lock"} # {}

Conflict(r) == r.op \in {"PostOrder", "PostField"} /\ Present(r)

\* Without faults that leave the handler, an error is a raw table that cannot
\* be calculated or a race with another request for the same row: a POST
\* that comes second or a PUT whose row is gone.
ServerError(r) ==
    \/ Faults \ {"completed"} # {}
    \/ r \in OrderRequests /\ r.op # "DeleteOrder" /\ r.payload \in Uncomputable
    \/ Conflict(r)
    \/ r.op \in {"PutOrder", "PutField"} /\ ~Present(r)

Refuse(w) ==
    /\ \/ Decide(w, 400) /\ BadRequest(request[w])
       \/ Decide(w, 404) /\ NotFound(request[w])
       \/ Decide(w, 409) /\ Conflict(request[w])
       \/ Decide(w, 500) /\ ServerError(request[w])
    /\ UNCHANGED <<orders, fields>>

Return(w) ==
    /\ phase[w] = "decided"
    /\ phase' = [phase EXCEPT ![w] = "idle"]
    /\ request' = [request EXCEPT ![w] = NoRequest]
    /\ status' = [status EXCEPT ![w] = 0]
    /\ UNCHANGED <<orders, fields, clock>>

-----------------------------------------------------------------------------
\* Retirement takes only orders that are old enough now.
Retire ==
    /\ \E retired \in SUBSET OrderIds :
        /\ \A i \in retired :
            orders[i] # NoRow /\ OlderThan(orders[i].modified, clock - RetireAfter)
        /\ orders' = [i \in OrderIds |-> IF i \in retired THEN NoRow ELSE orders[i]]
    /\ UNCHANGED <<fields, clock, phase, request, status>>

Tick == clock' = clock + 1 /\ UNCHANGED <<orders, fields, phase, request, status>>

\* A restart of the service loses the requests in hand, whether or not they
\* have taken effect, and nothing else.
Restart ==
    /\ phase' = [w \in Workers |-> "idle"]
    /\ request' = [w \in Workers |-> NoRequest]
    /\ status' = [w \in Workers |-> 0]
    /\ UNCHANGED <<orders, fields, clock>>

Next ==
    \/ \E w \in Workers :
        \/ \E r \in Requests : Call(w, r)
        \/ Succeed(w)
        \/ Refuse(w)
        \/ Return(w)
    \/ Retire
    \/ Tick
    \/ Restart

Spec == Init /\ [][Next]_vars

=============================================================================
