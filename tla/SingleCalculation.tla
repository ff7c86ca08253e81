------------------------- MODULE SingleCalculation -------------------------
(***************************************************************************)
(* The single-calculation page: a temporary order is posted, read back and *)
(* deleted (GravitationalFieldSingleCalculation).  The button is disabled  *)
(* while isCalculating, but nothing else keeps a second click away that    *)
(* was on its way when the first arrived.                                  *)
(***************************************************************************)
EXTENDS RestClient

CONSTANTS
    NoGravity,    \* an empty field of the form
    NoResult      \* no order has been read

VARIABLES
    inputs,       \* the fields of the form
    isCalculating,
    gravity,      \* the content whose gravity is shown
    leftovers     \* history: temporary orders whose DELETE was not answered with 200

formVars == <<inputs, isCalculating, gravity>>
singleVars == <<formVars, leftovers>>

Calculating == {"posting", "reading", "removing"}
Temporary == {task[t].id : t \in {u \in Tasks : task[u].at \in Calculating}}

InitSingle ==
    /\ inputs = NoGravity
    /\ isCalculating = FALSE
    /\ gravity = NoGravity
    /\ leftovers = {}

Type(content) ==
    /\ content # inputs
    /\ inputs' = content
    /\ UNCHANGED <<isCalculating, gravity, leftovers, handlerVars, orphans>>

Step(at, i, content, found) ==
    [at |-> at, id |-> i, content |-> content, found |-> found]

\* Variant: the range of the inputs is not checked.
CalculateUnchecked(t, i) ==
    /\ task[t] = Idle
    /\ inputs \in Points
    /\ isCalculating' = TRUE
    /\ Await(t, Step("posting", i, inputs, NoResult), [op |-> "POST", id |-> i, content |-> inputs])
    /\ leftovers' = leftovers \ {i}
    /\ UNCHANGED <<inputs, gravity, orphans>>

CalculateAsync(t, i) ==
    /\ task[t] = Idle
    /\ inputs \in Points \ Invalid
    /\ isCalculating' = TRUE
    /\ Await(t, Step("posting", i, inputs, NoResult), [op |-> "POST", id |-> i, content |-> inputs])
    /\ leftovers' = leftovers \ {i}
    /\ UNCHANGED <<inputs, gravity, orphans>>

Remove(t, found) ==
    Await(t, [task[t] EXCEPT !.at = "removing", !.found = found],
          [op |-> "DELETE", id |-> task[t].id])

\* Variant: no finally clause.
PostedOrGivenUp(t) ==
    /\ Resumes(t, "posting")
    /\ IF Answered(t, "ok")
       THEN /\ Await(t, [task[t] EXCEPT !.at = "reading"], [op |-> "GET", id |-> task[t].id])
            /\ UNCHANGED <<isCalculating, orphans>>
       ELSE /\ Finish(t)
            /\ isCalculating' = (isCalculating /\ t \in orphans)
            /\ orphans' = orphans \ {t}
    /\ UNCHANGED <<inputs, gravity, leftovers>>

\* A POST that fails goes to the finally clause, as a GET does either way.
Posted(t) ==
    /\ Resumes(t, "posting")
    /\ IF Answered(t, "ok")
       THEN Await(t, [task[t] EXCEPT !.at = "reading"], [op |-> "GET", id |-> task[t].id])
       ELSE Remove(t, NoResult)
    /\ UNCHANGED <<singleVars, orphans>>

\* An order that comes back without a completed point gives null.  The service
\* sends none; the page is ready for it.
Read(t) ==
    /\ Resumes(t, "reading")
    /\ \E found \in IF Answered(t, "ok") THEN {answers[t].body, NoGravity} ELSE {NoResult} :
          Remove(t, found)
    /\ UNCHANGED <<singleVars, orphans>>

\* The finally clause swallows the failure of its DELETE.  The null clears the
\* gravity shown; a calculation that has failed leaves it as it was.
Removed(t) ==
    /\ Resumes(t, "removing")
    /\ Finish(t)
    /\ leftovers' = IF Answered(t, "ok") THEN leftovers ELSE leftovers \cup {task[t].id}
    /\ orphans' = orphans \ {t}
    /\ IF t \in orphans THEN UNCHANGED <<isCalculating, gravity>>
       ELSE /\ isCalculating' = FALSE
            /\ gravity' = IF task[t].found = NoResult THEN gravity ELSE task[t].found
    /\ UNCHANGED inputs

SingleStep(t) == Posted(t) \/ Read(t) \/ Removed(t)

ClearForm ==
    /\ inputs' = NoGravity
    /\ isCalculating' = FALSE
    /\ gravity' = NoGravity

-----------------------------------------------------------------------------
(***************************************************************************)
(* "Temporary single earth gravitational field calculation": once a        *)
(* calculation is over, however it went and whether or not its page is     *)
(* still open, its order is gone, unless the service did not confirm the   *)
(* DELETE or the web application stopped in between.                       *)
(***************************************************************************)
TemporaryOrdersGo ==
    \A i \in Ids : stored[i] \in Points => i \in Temporary \cup leftovers

=============================================================================
