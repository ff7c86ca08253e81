------------------------------ MODULE WebPages ------------------------------
(***************************************************************************)
(* The web application: a circuit that shows one of the two pages, its     *)
(* handlers and the service, interleaved with other clients, which may be  *)
(* circuits with the other page.                                           *)
(***************************************************************************)
EXTENDS OrderPages, SingleCalculation

VARIABLE page    \* "orders" or "single"

vars == <<clientVars, pageVars, singleVars, page>>

Init == InitClient /\ InitPages /\ InitSingle /\ page \in {"orders", "single"}

\* Guid.NewGuid: no Guid that anything still refers to.
Fresh(i) == Unused(i) /\ i \notin Known

UserOfOrders ==
    /\ page = "orders"
    /\ \/ \E t \in Tasks :
            \/ UserStep(t)
            \/ \E i \in Ids : AddGravitationalFieldCalculationOrder(t, i) /\ Fresh(i)
       \/ \E items \in SUBSET Ids : SelectedItemsChanged(items)
       \/ \E content \in Drafts : Edit(content)
    /\ UNCHANGED <<singleVars, serviceVars, page>>

UserOfSingle ==
    /\ page = "single"
    /\ \/ \E content \in Points : Type(content)
       \/ \E t \in Tasks, i \in Ids : CalculateAsync(t, i) /\ Fresh(i)
    /\ UNCHANGED <<pageVars, serviceVars, page>>

Handler(t) ==
    /\ \/ PageStep(t) /\ UNCHANGED singleVars
       \/ SingleStep(t) /\ UNCHANGED pageVars
    /\ UNCHANGED <<serviceVars, page>>

Service(t) == (Serve(t) \/ Fail(t)) /\ UNCHANGED <<pageVars, singleVars, page>>

Elsewhere ==
    /\ \/ \E c \in abandoned : ExecuteLate(c)
       \/ \E i \in Ids, content \in Others : OtherClient(i, content)
    /\ UNCHANGED <<pageVars, singleVars, page>>

\* The page is loaded anew.  Handlers go on.
LoadAgain(t) ==
    /\ task[t] = Idle
    /\ ClearPages /\ ClearForm
    /\ orphans' = {u \in Tasks : task[u].at \in Saving \cup Calculating}
    /\ LET left == [u \in Tasks |-> Leaving(u)] IN
       IF page = "orders"
       THEN /\ task' = [left EXCEPT ![t] = [at |-> "listing", next |-> NoId]]
            /\ Send(t, [op |-> "GETALL"])
       ELSE /\ task' = left
            /\ UNCHANGED <<calls, answers>>
    /\ UNCHANGED <<serviceVars, leftovers, page>>

\* The process of the web application stops, and with it every handler.
WebAppStops ==
    /\ ClearPages /\ ClearForm
    /\ orphans' = {}
    /\ task' = [t \in Tasks |-> Idle]
    /\ calls' = [t \in Tasks |-> NoCall]
    /\ answers' = [t \in Tasks |-> NoCall]
    /\ \E sent \in SUBSET {c \in {calls[t] : t \in Tasks} : MayBeLate(c)} :
        /\ abandoned' = abandoned \cup sent
        /\ Cardinality(abandoned') <= MaxAbandoned
    /\ leftovers' = leftovers \cup Temporary
    /\ UNCHANGED <<stored, versions, page>>

Next ==
    \/ UserOfOrders
    \/ UserOfSingle
    \/ \E t \in Tasks : Handler(t) \/ Service(t)
    \/ Elsewhere
    \/ \E t \in Tasks : LoadAgain(t)
    \/ WebAppStops

Spec == Init /\ [][Next]_vars

-----------------------------------------------------------------------------
\* Every variable keeps to its type.
TypeOK ==
    /\ stored \in [Ids -> Valid \cup {Absent}]
    /\ versions \in [Ids -> SUBSET Valid]
    /\ calls \in [Tasks -> Call \cup {NoCall}]
    /\ abandoned \subseteq Call
    /\ orphans \subseteq Tasks
    /\ listed \subseteq Ids /\ selected \subseteq Ids
    /\ current \in [id : Ids, content : Valid] \cup {NoOrder}
    /\ editor \in [id : Ids, shown : Contents, clean : Valid] \cup {NoEditor}
    /\ asking \in BOOLEAN /\ consented \in BOOLEAN /\ isCalculating \in BOOLEAN
    /\ inputs \in Contents \cup {NoGravity}
    /\ gravity \in Valid \cup {NoGravity}
    /\ leftovers \subseteq Ids
    /\ page \in {"orders", "single"}

=============================================================================
