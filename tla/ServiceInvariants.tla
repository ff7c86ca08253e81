------------------------- MODULE ServiceInvariants -------------------------
(***************************************************************************)
(* The invariant behind the safety properties of                           *)
(* GravitationalFieldService, conjunct by conjunct.                        *)
(***************************************************************************)
EXTENDS GravitationalFieldService

\* The steps of a handler that holds the write lock.
Writing == {"write", "complete", "end"}

\* The steps of a handler whose request has passed the controller.
Admitted == {"recheck", "begin"} \cup Writing

\* What a handler holds at each of its steps.
HandlerOK(w) ==
    LET r == request[w] IN
    /\ pc[w] = "idle" <=> r = NoRequest
    /\ pc[w] \in Admitted => r \in OrderRequests \cup FieldRequests
    /\ pc[w] = "recheck" => r.op = "PostOrder"
    /\ pc[w] = "complete" => r.op \in {"PostOrder", "PutOrder"}
    /\ pc[w] \in Admitted /\ r.op \in {"PostOrder", "PutOrder"} => completed[w] \in FieldIds
    /\ pc[w] \in Writing <=> (txn # NoTxn /\ txn.owner = w)

\* What SQLite's write lock gives a manager method between BEGIN and COMMIT:
\* its transaction stands on the tables as they are committed now, and
\* differs from them in the rows of its own request only.
TransactionIsCurrent ==
    txn # NoTxn =>
        LET r == request[txn.owner] IN
        /\ \A i \in OrderIds : txn.orders[i] # orders[i] => r.op \in OrderOps /\ i = r.id
        /\ \A g \in FieldIds : txn.fields[g] # fields[g] =>
                \/ r.op \in FieldOps /\ g = r.id
                \/ r.op \in OrderOps /\ g = completed[txn.owner]

\* What every reachable state has, and every step keeps: the variables are
\* typed, each handler holds what its step needs, the write lock belongs to
\* the one handler that is writing, and its transaction is current.
IInv ==
    /\ TypeOK
    /\ \A w \in Workers : HandlerOK(w)
    /\ TransactionIsCurrent

=============================================================================
