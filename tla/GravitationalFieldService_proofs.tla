------------------ MODULE GravitationalFieldService_proofs ------------------
(***************************************************************************)
(* Proofs about the service, for any number of workers, orders, fields and *)
(* payloads, and any set of faults: that it keeps its invariants, and that *)
(* it implements the contract of its REST interface.                       *)
(***************************************************************************)
EXTENDS ServiceInvariants, TLAPS

\* What the op of an admitted request says of its shape.
LEMMA RequestShape ==
    ASSUME NEW r \in OrderRequests \cup FieldRequests
    PROVE  /\ r \in Requests
           /\ r.wellFormed
           /\ r.op \in OrderOps \cup FieldOps
           /\ r.op \in OrderOps <=> r \in OrderRequests
           /\ r.op \in FieldOps <=> r \in FieldRequests
           /\ r.op \in OrderOps => r.id \in OrderIds
           /\ r.op \in FieldOps => r.id \in FieldIds
           /\ r.op # "DeleteOrder" /\ r.op # "DeleteField" => r.payload \in Payloads
           /\ r.op \in {"PostOrder", "PutOrder"} => r.date \in Dates
           /\ r.op \in {"PostField", "PutField"} => r.type \in FieldTypes
BY StoreAssumption DEF OrderRequests, FieldRequests, Requests, OrderOps, FieldOps

\* An ill-formed request is not admitted.
LEMMA WellFormedAdmitted ==
    ASSUME NEW r \in Requests, r.wellFormed
    PROVE  r \in OrderRequests \cup FieldRequests
BY DEF Requests, MalformedRequests

\* The two sentinels are neither requests nor Guids.
LEMMA NoRequestIsNone == NoRequest \notin Requests /\ NoGuid \notin FieldIds
BY StoreAssumption

\* The service starts with no transaction and idle handlers.
LEMMA InitInv == Init => IInv
<1> SUFFICES ASSUME Init PROVE IInv
  OBVIOUS
<1>1. TypeOK
  BY StoreAssumption DEF Init, InitStore, InitHandlers, InitCleaner, TypeOK, PcValues, Statuses
<1>2. ASSUME NEW w \in Workers PROVE HandlerOK(w)
  BY DEF Init, InitStore, InitHandlers, HandlerOK, Admitted, Writing
<1>3. TransactionIsCurrent
  BY DEF Init, InitStore, TransactionIsCurrent
<1> QED
  BY <1>1, <1>2, <1>3 DEF IInv

-----------------------------------------------------------------------------
(***************************************************************************)
(* The shapes that the steps of the handlers have.                         *)
(***************************************************************************)

\* A handler that does not write, but maybe chooses or drops a Guid.
LEMMA ReadStepInv ==
    ASSUME NEW w \in Workers, IInv,
           pc[w] \in {"check", "recheck", "begin"},
           NEW step \in {"recheck", "begin", "reply"}, Goto(w, step),
           NEW g \in FieldIds \cup {NoGuid}, completed' = [completed EXCEPT ![w] = g],
           NEW code \in Statuses, status' = [status EXCEPT ![w] = code],
           step # "reply" => /\ request[w].wellFormed
                             /\ request[w].op \in {"PostOrder", "PutOrder"} => g \in FieldIds,
           step = "recheck" => request[w].op = "PostOrder",
           UNCHANGED <<storeVars, request, ok, clock, cleanerVars>>
    PROVE  IInv'
<1> USE DEF Goto, storeVars, cleanerVars
<1>1. TypeOK'
  BY DEF IInv, TypeOK, PcValues
<1>2. request[w] \in Requests
  BY DEF IInv, TypeOK, HandlerOK
<1>3. ASSUME NEW v \in Workers PROVE HandlerOK(v)'
  <2>1. CASE v = w
    BY <1>2, <2>1, WellFormedAdmitted, NoRequestIsNone
       DEF IInv, TypeOK, HandlerOK, Admitted, Writing
  <2>2. CASE v # w
    BY <2>2 DEF IInv, TypeOK, HandlerOK, Admitted, Writing
  <2> QED
    BY <2>1, <2>2
<1>4. TransactionIsCurrent'
  BY DEF IInv, TypeOK, TransactionIsCurrent, HandlerOK, Writing, Transaction
<1> QED
  BY <1>1, <1>3, <1>4 DEF IInv

\* A handler that takes the write lock.
LEMMA BeginStepInv ==
    ASSUME NEW w \in Workers, IInv, pc[w] = "begin", txn = NoTxn, Goto(w, "write"),
           txn' = [owner |-> w, orders |-> orders, fields |-> fields, locked |-> {}],
           UNCHANGED <<orders, fields, request, completed, ok, status, clock, cleanerVars>>
    PROVE  IInv'
<1> USE TransactionAssumption DEF Goto, cleanerVars
<1>1. txn' \in Transaction /\ txn' # NoTxn
  BY DEF IInv, TypeOK, Transaction
<1>2. TypeOK'
  BY <1>1 DEF IInv, TypeOK, PcValues
<1>3. ASSUME NEW v \in Workers PROVE HandlerOK(v)'
  BY <1>1 DEF IInv, TypeOK, HandlerOK, Admitted, Writing
<1>4. TransactionIsCurrent'
  BY DEF TransactionIsCurrent
<1> QED
  BY <1>2, <1>3, <1>4 DEF IInv

\* What a write statement of a handler may make of the open transaction: a
\* lock, or a change of one row of its request.
OwnWrite(w) ==
    LET r == request[w] IN
    \E locked \in SUBSET {"order", "field"} :
       \/ txn' = [txn EXCEPT !.locked = locked]
       \/ \E row \in OrderRow \cup {NoRow} :
            /\ r \in OrderRequests
            /\ txn' = [txn EXCEPT !.orders[r.id] = row, !.locked = locked]
       \/ \E row \in FieldRow \cup {NoRow} :
            /\ r \in OrderRequests /\ completed[w] \in FieldIds
            /\ txn' = [txn EXCEPT !.fields[completed[w]] = row, !.locked = locked]
       \/ \E row \in FieldRow \cup {NoRow} :
            /\ r \in FieldRequests
            /\ txn' = [txn EXCEPT !.fields[r.id] = row, !.locked = locked]

\* An own write keeps the transaction a transaction of its worker.
LEMMA OwnWriteTyped ==
    ASSUME NEW w \in Workers, txn \in Transaction, OwnWrite(w)
    PROVE  txn' \in Transaction /\ txn'.owner = txn.owner
<1>1. PICK locked \in SUBSET {"order", "field"} :
        \/ txn' = [txn EXCEPT !.locked = locked]
        \/ \E row \in OrderRow \cup {NoRow} :
             /\ request[w] \in OrderRequests
             /\ txn' = [txn EXCEPT !.orders[request[w].id] = row, !.locked = locked]
        \/ \E row \in FieldRow \cup {NoRow} :
             txn' = [txn EXCEPT !.fields[completed[w]] = row, !.locked = locked]
        \/ \E row \in FieldRow \cup {NoRow} :
             txn' = [txn EXCEPT !.fields[request[w].id] = row, !.locked = locked]
  BY DEF OwnWrite
<1>2. CASE txn' = [txn EXCEPT !.locked = locked]
  BY <1>2 DEF Transaction
<1>3. ASSUME NEW row \in OrderRow \cup {NoRow}, NEW i,
             txn' = [txn EXCEPT !.orders[i] = row, !.locked = locked]
      PROVE  txn' \in Transaction /\ txn'.owner = txn.owner
  BY <1>3 DEF Transaction
<1>4. ASSUME NEW row \in FieldRow \cup {NoRow}, NEW g,
             txn' = [txn EXCEPT !.fields[g] = row, !.locked = locked]
      PROVE  txn' \in Transaction /\ txn'.owner = txn.owner
  BY <1>4 DEF Transaction
<1> QED
  BY <1>1, <1>2, <1>3, <1>4

\* An own write changes no row but those of its request.
LEMMA OwnWriteCurrent ==
    ASSUME NEW w \in Workers, txn \in Transaction, OwnWrite(w)
    PROVE  /\ \A i \in OrderIds : txn'.orders[i] # txn.orders[i] =>
                request[w] \in OrderRequests /\ i = request[w].id
           /\ \A g \in FieldIds : txn'.fields[g] # txn.fields[g] =>
                \/ request[w] \in FieldRequests /\ g = request[w].id
                \/ request[w] \in OrderRequests /\ g = completed[w]
<1>1. PICK locked \in SUBSET {"order", "field"} :
        \/ txn' = [txn EXCEPT !.locked = locked]
        \/ \E row \in OrderRow \cup {NoRow} :
             /\ request[w] \in OrderRequests
             /\ txn' = [txn EXCEPT !.orders[request[w].id] = row, !.locked = locked]
        \/ \E row \in FieldRow \cup {NoRow} :
             /\ request[w] \in OrderRequests
             /\ txn' = [txn EXCEPT !.fields[completed[w]] = row, !.locked = locked]
        \/ \E row \in FieldRow \cup {NoRow} :
             /\ request[w] \in FieldRequests
             /\ txn' = [txn EXCEPT !.fields[request[w].id] = row, !.locked = locked]
  BY DEF OwnWrite
<1>2. CASE txn' = [txn EXCEPT !.locked = locked]
  BY <1>2 DEF Transaction
<1>3. ASSUME NEW row, NEW i, txn' = [txn EXCEPT !.orders[i] = row, !.locked = locked]
      PROVE  /\ txn'.fields = txn.fields
             /\ \A j \in OrderIds : txn'.orders[j] # txn.orders[j] => j = i
  BY <1>3 DEF Transaction
<1>4. ASSUME NEW row, NEW g, txn' = [txn EXCEPT !.fields[g] = row, !.locked = locked]
      PROVE  /\ txn'.orders = txn.orders
             /\ \A h \in FieldIds : txn'.fields[h] # txn.fields[h] => h = g
  BY <1>4 DEF Transaction
<1> QED
  BY <1>1, <1>2, <1>3, <1>4

\* A handler that writes in its transaction.
LEMMA WriteStepInv ==
    ASSUME NEW w \in Workers, IInv, pc[w] \in {"write", "complete"},
           NEW step \in {"complete", "end"}, Goto(w, step),
           step = "complete" => request[w].op \in {"PostOrder", "PutOrder"},
           OwnWrite(w),
           NEW b \in BOOLEAN, ok' = [ok EXCEPT ![w] = b],
           UNCHANGED <<orders, fields, request, completed, status, clock, cleanerVars>>
    PROVE  IInv'
<1> USE DEF Goto, cleanerVars
<1>1. txn \in Transaction /\ txn # NoTxn /\ txn.owner = w
  BY DEF IInv, TypeOK, HandlerOK, Writing
<1>2. request[w] \in OrderRequests \cup FieldRequests
  BY DEF IInv, HandlerOK, Admitted, Writing
<1>3. txn' \in Transaction /\ txn'.owner = w /\ txn' # NoTxn
  BY <1>1, OwnWriteTyped, TransactionAssumption
<1>4. TypeOK'
  BY <1>3 DEF IInv, TypeOK, PcValues
<1>5. ASSUME NEW v \in Workers PROVE HandlerOK(v)'
  BY <1>1, <1>3 DEF IInv, TypeOK, HandlerOK, Admitted, Writing
<1>6. TransactionIsCurrent'
  <2>1. ASSUME NEW i \in OrderIds, txn'.orders[i] # orders[i]
        PROVE  request[w].op \in OrderOps /\ i = request[w].id
    BY <1>1, <1>2, <2>1, OwnWriteCurrent, RequestShape DEF IInv, TransactionIsCurrent
  <2>2. ASSUME NEW g \in FieldIds, txn'.fields[g] # fields[g]
        PROVE  \/ request[w].op \in FieldOps /\ g = request[w].id
               \/ request[w].op \in OrderOps /\ g = completed[w]
    BY <1>1, <1>2, <2>2, OwnWriteCurrent, RequestShape DEF IInv, TransactionIsCurrent
  <2> QED
    BY <1>3, <2>1, <2>2 DEF TransactionIsCurrent
<1> QED
  BY <1>4, <1>5, <1>6 DEF IInv

\* A handler that ends its transaction.
LEMMA EndStepInv ==
    ASSUME NEW w \in Workers, IInv, EndTransaction(w), UNCHANGED <<clock, cleanerVars>>
    PROVE  IInv'
<1> USE DEF EndTransaction, Answer, Goto, cleanerVars
<1>1. txn \in Transaction /\ txn # NoTxn /\ txn.owner = w
  BY DEF IInv, TypeOK, HandlerOK, Writing
<1>2. TypeOK'
  BY <1>1 DEF IInv, TypeOK, PcValues, Statuses, Transaction
<1>3. ASSUME NEW v \in Workers PROVE HandlerOK(v)'
  BY <1>1 DEF IInv, TypeOK, HandlerOK, Admitted, Writing
<1>4. TransactionIsCurrent'
  BY DEF TransactionIsCurrent
<1> QED
  BY <1>2, <1>3, <1>4 DEF IInv

-----------------------------------------------------------------------------
(***************************************************************************)
(* The statements of the handlers, as changes of the open transaction.     *)
(***************************************************************************)

\* The write statements of OrderService and FieldService are own writes.
LEMMA StatementIsOwnWrite ==
    ASSUME NEW w \in Workers, txn \in Transaction
    PROVE  /\ \A table \in {"order", "field"} : WriteNothing(table) => OwnWrite(w)
           /\ \A row \in OrderRow \cup {NoRow} :
                request[w] \in OrderRequests /\ Write(w, "order", request[w].id, row)
                    => OwnWrite(w)
           /\ completed[w] \in FieldIds => \A row \in FieldRow \cup {NoRow} :
                request[w] \in OrderRequests /\ Write(w, "field", completed[w], row)
                    => OwnWrite(w)
           /\ \A row \in FieldRow \cup {NoRow} :
                request[w] \in FieldRequests /\ Write(w, "field", request[w].id, row)
                    => OwnWrite(w)
<1>1. \A table \in {"order", "field"} : txn.locked \cup {table} \in SUBSET {"order", "field"}
  BY DEF Transaction
<1>2. \A table \in {"order", "field"} : WriteNothing(table) => OwnWrite(w)
  BY <1>1 DEF WriteNothing, OwnWrite
<1>3. \A row \in OrderRow \cup {NoRow} :
        request[w] \in OrderRequests /\ Write(w, "order", request[w].id, row) => OwnWrite(w)
  BY <1>1 DEF Write, OwnWrite
<1>4. completed[w] \in FieldIds => \A row \in FieldRow \cup {NoRow} :
        request[w] \in OrderRequests /\ Write(w, "field", completed[w], row) => OwnWrite(w)
  <2> HAVE completed[w] \in FieldIds
  <2> TAKE row \in FieldRow \cup {NoRow}
  <2> HAVE request[w] \in OrderRequests /\ Write(w, "field", completed[w], row)
  <2>1. txn' = [txn EXCEPT !.fields[completed[w]] = row, !.locked = txn.locked \cup {"field"}]
    BY DEF Write
  <2> QED
    BY <1>1, <2>1 DEF OwnWrite
<1>5. \A row \in FieldRow \cup {NoRow} :
        request[w] \in FieldRequests /\ Write(w, "field", request[w].id, row) => OwnWrite(w)
  <2> TAKE row \in FieldRow \cup {NoRow}
  <2> HAVE request[w] \in FieldRequests /\ Write(w, "field", request[w].id, row)
  <2>1. txn' = [txn EXCEPT !.fields[request[w].id] = row, !.locked = txn.locked \cup {"field"}]
    BY DEF Write
  <2> QED
    BY <1>1, <2>1 DEF OwnWrite
<1> QED
  BY <1>2, <1>3, <1>4, <1>5

\* What IInv gives a handler at the steps between BEGIN and COMMIT.
LEMMA WriterHolds ==
    ASSUME NEW w \in Workers, IInv, pc[w] \in {"write", "complete"}
    PROVE  /\ txn \in Transaction /\ txn # NoTxn /\ txn.owner = w
           /\ request[w] \in OrderRequests \cup FieldRequests
           /\ request[w].op \in {"PostOrder", "PutOrder"} => completed[w] \in FieldIds
           /\ pc[w] = "complete" => request[w].op \in {"PostOrder", "PutOrder"}
           /\ ok \in [Workers -> BOOLEAN]
BY DEF IInv, TypeOK, HandlerOK, Admitted, Writing

\* Calculate() draws a Guid of a field.
LEMMA CalculateDraws ==
    ASSUME NEW w \in Workers, Calculate(w)
    PROVE  \E g \in FieldIds : completed' = [completed EXCEPT ![w] = g]
BY DEF Calculate, FreshFieldIds

-----------------------------------------------------------------------------
(***************************************************************************)
(* The steps of the order handlers.                                        *)
(***************************************************************************)

\* The rows that orders and their fields are stored as are rows.
LEMMA RowsTyped ==
    ASSUME NEW w \in Workers, IInv, request[w] \in OrderRequests \cup FieldRequests
    PROVE  /\ request[w].op \in {"PostOrder", "PutOrder"} /\ completed[w] \in FieldIds =>
                /\ PostedOrder(w) \in OrderRow
                /\ UpdatedOrder(w, clock) \in OrderRow
                /\ CompletedField(w) \in FieldRow
           /\ \A column \in FieldTypes : request[w].op \in {"PostField", "PutField"} =>
                [payload |-> request[w].payload, type |-> request[w].type,
                 column |-> column] \in FieldRow
<1>1. clock \in Dates
  BY StoreAssumption DEF IInv, TypeOK, Dates, NoDate
<1>2. "Completed" \in FieldTypes
  BY DEF FieldTypes
<1>3. ASSUME request[w].op \in {"PostOrder", "PutOrder"}, completed[w] \in FieldIds
      PROVE  /\ PostedOrder(w) \in OrderRow
             /\ UpdatedOrder(w, clock) \in OrderRow
             /\ CompletedField(w) \in FieldRow
  BY <1>1, <1>2, <1>3, RequestShape
     DEF PostedOrder, UpdatedOrder, CompletedField, OrderRow, FieldRow
<1>4. ASSUME NEW column \in FieldTypes, request[w].op \in {"PostField", "PutField"}
      PROVE  [payload |-> request[w].payload, type |-> request[w].type,
              column |-> column] \in FieldRow
  BY <1>4, RequestShape DEF FieldRow
<1> QED
  BY <1>3, <1>4

\* The checks of the controllers, and the second look of a POST.
LEMMA CheckKeepsInv ==
    ASSUME NEW w \in Workers, IInv, UNCHANGED <<clock, cleanerVars>>,
           \/ PostOrderCheck(w) \/ RecheckOrder(w) \/ PutOrderCheck(w) \/ DeleteOrderCheck(w)
           \/ PostFieldCheck(w) \/ PutFieldCheck(w) \/ DeleteFieldCheck(w)
    PROVE  IInv'
<1> USE DEF Answer, Statuses
<1>1. /\ completed \in [Workers -> FieldIds \cup {NoGuid}]
      /\ status \in [Workers -> Statuses]
  BY DEF IInv, TypeOK
<1>2. /\ completed = [completed EXCEPT ![w] = completed[w]]
      /\ completed[w] \in FieldIds \cup {NoGuid}
      /\ status = [status EXCEPT ![w] = status[w]]
      /\ status[w] \in Statuses
  BY <1>1
<1>3. CASE PostOrderCheck(w)
  <2>1. CASE UNCHANGED completed
    BY <1>2, <1>3, <2>1, ReadStepInv, CalculateDraws DEF PostOrderCheck, IsOp
  <2>2. CASE ~UNCHANGED completed
    BY <1>2, <1>3, <2>2, ReadStepInv, CalculateDraws DEF PostOrderCheck, IsOp
  <2> QED
    BY <2>1, <2>2
<1>4. CASE PutOrderCheck(w)
  <2>1. CASE UNCHANGED completed
    BY <1>2, <1>4, <2>1, ReadStepInv, CalculateDraws DEF PutOrderCheck, IsOp
  <2>2. CASE ~UNCHANGED completed
    BY <1>2, <1>4, <2>2, ReadStepInv, CalculateDraws DEF PutOrderCheck, IsOp
  <2> QED
    BY <2>1, <2>2
<1>5. CASE RecheckOrder(w)
  <2>1. /\ request[w].wellFormed
        /\ request[w].op \in {"PostOrder", "PutOrder"} => completed[w] \in FieldIds
    BY <1>5, RequestShape DEF RecheckOrder, IInv, HandlerOK, Admitted
  <2> QED
    BY <1>2, <1>5, <2>1, ReadStepInv DEF RecheckOrder
<1>6. CASE DeleteOrderCheck(w)
  BY <1>2, <1>6, ReadStepInv DEF DeleteOrderCheck, IsOp
<1>7. CASE PostFieldCheck(w)
  BY <1>2, <1>7, ReadStepInv DEF PostFieldCheck, IsOp
<1>8. CASE PutFieldCheck(w)
  BY <1>2, <1>8, ReadStepInv DEF PutFieldCheck, IsOp
<1>9. CASE DeleteFieldCheck(w)
  BY <1>2, <1>9, ReadStepInv DEF DeleteFieldCheck, IsOp
<1> QED
  BY <1>3, <1>4, <1>5, <1>6, <1>7, <1>8, <1>9

\* BEGIN, or its timeout.
LEMMA BeginKeepsInv ==
    ASSUME NEW w \in Workers, IInv, UNCHANGED <<clock, cleanerVars>>, BeginTransaction(w)
    PROVE  IInv'
<1>1. CASE txn = NoTxn
  BY <1>1, BeginStepInv DEF BeginTransaction
<1>2. CASE txn # NoTxn
  BY <1>2, ReadStepInv DEF BeginTransaction, Answer, Statuses, storeVars
<1> QED
  BY <1>1, <1>2

\* The statements of the transactions.
LEMMA StatementKeepsInv ==
    ASSUME NEW w \in Workers, IInv, UNCHANGED <<clock, cleanerVars>>,
           \/ InsertOrder(w) \/ UpdateOrder(w, clock) \/ AddCompletedGravitationalField(w)
           \/ DeleteOrder(w) \/ InsertField(w) \/ UpdateField(w) \/ DeleteField(w)
    PROVE  IInv'
<1>1. pc[w] \in {"write", "complete"}
  BY DEF InsertOrder, UpdateOrder, AddCompletedGravitationalField, DeleteOrder,
         InsertField, UpdateField, DeleteField, IsOp
<1>2. /\ txn \in Transaction /\ txn # NoTxn /\ txn.owner = w
      /\ request[w] \in OrderRequests \cup FieldRequests
      /\ request[w].op \in {"PostOrder", "PutOrder"} => completed[w] \in FieldIds
      /\ pc[w] = "complete" => request[w].op \in {"PostOrder", "PutOrder"}
      /\ ok \in [Workers -> BOOLEAN]
  BY <1>1, WriterHolds
<1>3. ok = [ok EXCEPT ![w] = ok[w]] /\ ok[w] \in BOOLEAN
  BY <1>2
<1>4. CASE InsertOrder(w)
  BY <1>2, <1>3, <1>4, RequestShape, RowsTyped, StatementIsOwnWrite, WriteStepInv
     DEF InsertOrder, IsOp, OrderOps
<1>5. CASE UpdateOrder(w, clock)
  BY <1>2, <1>3, <1>5, RequestShape, RowsTyped, StatementIsOwnWrite, WriteStepInv
     DEF UpdateOrder, IsOp, OrderOps
<1>6. CASE AddCompletedGravitationalField(w)
  BY <1>2, <1>3, <1>6, RequestShape, RowsTyped, StatementIsOwnWrite, WriteStepInv
     DEF AddCompletedGravitationalField, OrderOps
<1>7. CASE DeleteOrder(w)
  BY <1>2, <1>3, <1>7, RequestShape, StatementIsOwnWrite, WriteStepInv
     DEF DeleteOrder, IsOp, OrderOps
<1>8. CASE InsertField(w)
  BY <1>2, <1>3, <1>8, RequestShape, RowsTyped, StatementIsOwnWrite, WriteStepInv
     DEF InsertField, IsOp, FieldOps
<1>9. CASE UpdateField(w)
  <2>1. txn.fields[request[w].id] # NoRow => txn.fields[request[w].id].column \in FieldTypes
    BY <1>2, <1>9, RequestShape DEF UpdateField, IsOp, Transaction, FieldRow, FieldOps
  <2> QED
    BY <1>2, <1>3, <1>9, <2>1, RequestShape, RowsTyped, StatementIsOwnWrite, WriteStepInv
       DEF UpdateField, IsOp, FieldOps
<1>10. CASE DeleteField(w)
  BY <1>2, <1>3, <1>10, RequestShape, StatementIsOwnWrite, WriteStepInv
     DEF DeleteField, IsOp, FieldOps
<1> QED
  BY <1>4, <1>5, <1>6, <1>7, <1>8, <1>9, <1>10

-----------------------------------------------------------------------------
(***************************************************************************)
(* The other steps of the service.                                         *)
(***************************************************************************)

\* A request arrives.
LEMMA ReceiveKeepsInv ==
    ASSUME NEW w \in Workers, IInv, Receive(w)
    PROVE  IInv'
<1> USE DEF Receive, Goto, storeVars, cleanerVars
<1>1. TypeOK'
  BY DEF IInv, TypeOK, PcValues
<1>2. ASSUME NEW v \in Workers PROVE HandlerOK(v)'
  BY NoRequestIsNone DEF IInv, TypeOK, HandlerOK, Admitted, Writing
<1>3. TransactionIsCurrent'
  BY DEF IInv, TypeOK, TransactionIsCurrent, HandlerOK, Writing, Transaction
<1> QED
  BY <1>1, <1>2, <1>3 DEF IInv

\* An answer leaves.
LEMMA ReplyKeepsInv ==
    ASSUME NEW w \in Workers, IInv, Reply(w)
    PROVE  IInv'
<1> USE DEF Reply, Goto, storeVars, cleanerVars
<1>1. TypeOK'
  BY DEF IInv, TypeOK, PcValues, Statuses
<1>2. ASSUME NEW v \in Workers PROVE HandlerOK(v)'
  BY DEF IInv, TypeOK, HandlerOK, Admitted, Writing
<1>3. TransactionIsCurrent'
  BY DEF IInv, TypeOK, TransactionIsCurrent, HandlerOK, Writing, Transaction
<1> QED
  BY <1>1, <1>2, <1>3 DEF IInv

\* The cleaner and the clock: no handler is disturbed.
LEMMA CleanerKeepsInv ==
    ASSUME IInv, WakeCleaner \/ CleanDatabase \/ CleanFails \/ Tick
    PROVE  IInv'
<1> USE DEF WakeCleaner, CleanDatabase, CleanFails, Tick, storeVars, handlerVars, cleanerVars
<1>1. TypeOK'
  <2>1. clock' \in 0 .. MaxClock /\ threshold' \in Int /\ cleaner' \in {"asleep", "cleaning"}
    BY StoreAssumption DEF IInv, TypeOK
  <2>2. orders' \in [OrderIds -> OrderRow \cup {NoRow}]
    BY DEF IInv, TypeOK
  <2> QED
    BY <2>1, <2>2 DEF IInv, TypeOK
<1>2. ASSUME NEW v \in Workers PROVE HandlerOK(v)'
  BY DEF IInv, HandlerOK
<1>3. TransactionIsCurrent'
  BY DEF IInv, TransactionIsCurrent
<1> QED
  BY <1>1, <1>2, <1>3 DEF IInv

\* A crash forgets all but the committed tables.
LEMMA CrashKeepsInv ==
    ASSUME IInv, Crash
    PROVE  IInv'
<1>1. TypeOK'
  BY DEF Crash, IInv, TypeOK, PcValues, Statuses
<1>2. ASSUME NEW v \in Workers PROVE HandlerOK(v)'
  BY DEF Crash, HandlerOK, Admitted, Writing
<1>3. TransactionIsCurrent'
  BY DEF Crash, TransactionIsCurrent
<1> QED
  BY <1>1, <1>2, <1>3 DEF IInv

\* Nothing but stuttering is left.
LEMMA StutterKeepsInv == IInv /\ UNCHANGED vars => IInv'
<1> SUFFICES ASSUME IInv, UNCHANGED vars PROVE IInv'
  OBVIOUS
<1> USE DEF vars, storeVars, handlerVars, cleanerVars
<1>1. TypeOK'
  BY DEF IInv, TypeOK
<1>2. ASSUME NEW v \in Workers PROVE HandlerOK(v)'
  BY DEF IInv, HandlerOK
<1>3. TransactionIsCurrent'
  BY DEF IInv, TransactionIsCurrent
<1> QED
  BY <1>1, <1>2, <1>3 DEF IInv

\* IInv is inductive.
LEMMA NextKeepsInv == IInv /\ [Next]_vars => IInv'
<1> SUFFICES ASSUME IInv, [Next]_vars PROVE IInv'
  OBVIOUS
<1>1. ASSUME NEW w \in Workers, HandlerStep(w) PROVE IInv'
  <2>1. CASE Reply(w)
    BY <2>1, ReplyKeepsInv
  <2>2. CASE ~Reply(w)
    BY <1>1, <2>2, CheckKeepsInv, StatementKeepsInv, BeginKeepsInv, EndStepInv
       DEF HandlerStep, OrderStep, FieldStep
  <2> QED
    BY <2>1, <2>2
<1> QED
  BY <1>1, ReceiveKeepsInv, CleanerKeepsInv, CrashKeepsInv, StutterKeepsInv DEF Next

\* Every reachable state of the service has IInv.
THEOREM InvariantHolds == Spec => []IInv
BY InitInv, NextKeepsInv, PTL DEF Spec

\* Every variable of the service keeps to the values its C# counterpart can
\* have.
THEOREM TypeCorrect == Spec => []TypeOK
<1>1. IInv => TypeOK
  BY DEF IInv
<1> QED
  BY <1>1, InvariantHolds, PTL

-----------------------------------------------------------------------------
(***************************************************************************)
(* The service implements RestContract: every step of a handler, of the    *)
(* cleaner, of the clock and every crash is a step of the contract or      *)
(* changes nothing it speaks of.                                           *)
(*                                                                         *)
(* A request is decided where its handler answers.  Most of the contract   *)
(* is therefore a promise about COMMIT: what a transaction holds by then   *)
(* is the effect of its request on the tables as they are at that moment,  *)
(* which its handler read, or did not read, long before.                   *)
(***************************************************************************)

\* The row a POST or PUT stores.
StoredRow(w) == IF request[w].op = "PostOrder" THEN PostedOrder(w) ELSE UpdatedOrder(w, clock)

\* The order of a POST is new, that of a PUT is there.
RowFits(r) == IF r.op = "PostOrder" THEN orders[r.id] = NoRow ELSE orders[r.id] # NoRow

\* The tables os and fs are the committed ones with the effect of the request
\* of w.
EffectIs(w, os, fs) ==
    LET r == request[w] IN
    \/ /\ r.op \in {"PostOrder", "PutOrder"} /\ RowFits(r)
       /\ completed[w] \in FieldIds
       /\ os = [orders EXCEPT ![r.id] = StoredRow(w)]
       /\ \/ /\ fields[completed[w]] = NoRow
             /\ fs = [fields EXCEPT ![completed[w]] = CompletedField(w)]
          \/ "completed" \in Faults /\ fs = fields
    \/ /\ r.op = "DeleteOrder"
       /\ os = [orders EXCEPT ![r.id] = NoRow]
       /\ fs = fields
    \/ /\ r.op = "PostField" /\ fields[r.id] = NoRow
       /\ fs = [fields EXCEPT ![r.id] =
                    [payload |-> r.payload, type |-> r.type, column |-> r.type]]
       /\ os = orders
    \/ /\ r.op = "PutField" /\ fields[r.id] # NoRow
       /\ fs = [fields EXCEPT ![r.id] =
                    [payload |-> r.payload, type |-> r.type, column |-> fields[r.id].column]]
       /\ os = orders
    \/ /\ r.op = "DeleteField"
       /\ fs = [fields EXCEPT ![r.id] = NoRow]
       /\ os = orders

\* Why a statement of a transaction may have failed.
MayFail(r) ==
    \/ Faults \ {"completed"} # {}
    \/ r.op = "PostOrder" /\ orders[r.id] # NoRow
    \/ r.op = "PutOrder" /\ orders[r.id] = NoRow
    \/ r.op = "PostField" /\ fields[r.id] # NoRow
    \/ r.op = "PutField" /\ fields[r.id] = NoRow

\* What a handler has done at each of its steps.
ProgressOK(w) ==
    LET r == request[w] IN
    /\ pc[w] \in {"check", "recheck", "begin", "write"} => ok[w]
    /\ pc[w] = "write" => txn.orders = orders /\ txn.fields = fields
    /\ pc[w] = "complete" =>
        /\ txn.fields = fields
        /\ IF ok[w]
           THEN RowFits(r) /\ txn.orders = [orders EXCEPT ![r.id] = StoredRow(w)]
           ELSE MayFail(r)
    /\ pc[w] = "end" =>
        IF ok[w] THEN EffectIs(w, txn.orders, txn.fields) ELSE MayFail(r)

\* A Guid that a calculation has drawn is in no table, and nobody else has it.
DrawnOK(w) ==
    completed[w] # NoGuid =>
        /\ fields[completed[w]] = NoRow
        /\ \A v \in Workers \ {w} : completed[v] # completed[w]
        /\ \A v \in Workers : request[v] \in FieldRequests => request[v].id # completed[w]

\* The threshold of a cleaning under way was never later than now allows.
ThresholdOK == cleaner = "cleaning" => threshold <= clock - RetireAfter

ContractInv ==
    /\ \A w \in Workers : DrawnOK(w) /\ ProgressOK(w)
    /\ ThresholdOK

-----------------------------------------------------------------------------
(***************************************************************************)
(* ContractInv is inductive, given IInv.                                   *)
(***************************************************************************)

LEMMA ContractInvInit == Init => ContractInv
BY DEF Init, InitStore, InitHandlers, InitCleaner, ContractInv, DrawnOK, ProgressOK, ThresholdOK

\* What ProgressOK says of a handler rests on the tables, the clock, the
\* transaction and what the handler itself holds.
LEMMA ProgressKept ==
    ASSUME NEW v \in Workers, ProgressOK(v),
           pc'[v] = pc[v], request'[v] = request[v], completed'[v] = completed[v],
           ok'[v] = ok[v],
           pc[v] \in Writing => UNCHANGED <<orders, fields, txn, clock>>
    PROVE  ProgressOK(v)'
<1>1. CASE pc[v] \in Writing
    BY <1>1 DEF ProgressOK, RowFits, StoredRow, PostedOrder, UpdatedOrder, CompletedField,
                EffectIs, MayFail
<1>2. CASE pc[v] \notin Writing
    BY <1>2 DEF ProgressOK, Writing
<1> QED
    BY <1>1, <1>2

\* The steps outside a transaction.
LEMMA OutsideKeeps ==
    ASSUME NEW w \in Workers, IInv, ContractInv,
           UNCHANGED <<storeVars, clock, cleanerVars>>,
           NEW step \in {"idle", "check", "recheck", "begin", "reply"}, Goto(w, step),
           step \in {"check", "recheck", "begin"} => ok'[w],
           \A v \in Workers \ {w} :
                /\ request'[v] = request[v]
                /\ completed'[v] = completed[v]
                /\ ok'[v] = ok[v],
           \/ /\ completed'[w] = completed[w]
              /\ request'[w] \in FieldRequests =>
                    \A v \in Workers : completed[v] # request'[w].id
           \/ /\ request'[w] = request[w]
              /\ completed'[w] \in FreshFieldIds \cup {NoGuid, completed[w]}
    PROVE  ContractInv'
<1> USE DEF storeVars, cleanerVars
<1>1. /\ pc'[w] = step
      /\ \A v \in Workers \ {w} : pc'[v] = pc[v]
    BY DEF Goto, IInv, TypeOK
<1>2. \A g \in FreshFieldIds :
        /\ fields[g] = NoRow
        /\ \A u \in Workers :
            /\ completed[u] # g
            /\ request[u] \in FieldRequests => request[u].id # g
    BY DEF FreshFieldIds
<1>3. ASSUME NEW v \in Workers PROVE DrawnOK(v)'
    <2>1. DrawnOK(v) /\ DrawnOK(w)
        BY DEF ContractInv
    <2>2. CASE completed' = completed \/ completed'[w] \in {NoGuid, completed[w]}
        <3>1. completed'[v] \in {NoGuid, completed[v]}
            BY <2>2
        <3>2. \A u \in Workers : completed'[u] \in {NoGuid, completed[u]}
            BY <2>2
        <3>3. completed[v] # NoGuid => \A u \in Workers :
                request'[u] \in FieldRequests => request'[u].id # completed[v]
            BY <2>1 DEF DrawnOK
        <3> QED
            BY <2>1, <3>1, <3>2, <3>3 DEF DrawnOK
    <2>3. CASE completed'[w] \in FreshFieldIds /\ request'[w] = request[w]
        <3>1. \A u \in Workers : request'[u] = request[u]
            BY <2>3
        <3>2. CASE v = w
            BY <1>2, <2>3, <3>1, <3>2 DEF DrawnOK
        <3>3. CASE v # w
            BY <1>2, <2>1, <2>3, <3>1, <3>3 DEF DrawnOK
        <3> QED
            BY <3>2, <3>3
    <2> QED
        BY <2>2, <2>3
<1>4. ASSUME NEW v \in Workers PROVE ProgressOK(v)'
    <2>1. CASE v = w
        BY <1>1, <2>1 DEF ProgressOK
    <2>2. CASE v # w
        <3>1. ProgressOK(v)
            BY DEF ContractInv
        <3> QED
            BY <1>1, <2>2, <3>1, ProgressKept
    <2> QED
        BY <2>1, <2>2
<1>5. ThresholdOK'
    BY DEF ContractInv, ThresholdOK
<1> QED
    BY <1>3, <1>4, <1>5 DEF ContractInv

LEMMA ReceiveKeeps ==
    ASSUME NEW w \in Workers, IInv, ContractInv, Receive(w)
    PROVE  ContractInv'
<1>1. PICK r \in Requests :
        /\ r \in FieldRequests => \A v \in Workers : completed[v] # r.id
        /\ request' = [request EXCEPT ![w] = r]
    BY DEF Receive
<1>2. /\ request'[w] = r /\ ok'[w]
      /\ \A v \in Workers \ {w} : request'[v] = request[v] /\ ok'[v] = ok[v]
      /\ completed' = completed
    BY <1>1 DEF Receive, IInv, TypeOK
<1> QED
    BY <1>1, <1>2, OutsideKeeps DEF Receive

LEMMA ReplyKeeps ==
    ASSUME NEW w \in Workers, IInv, ContractInv, Reply(w)
    PROVE  ContractInv'
<1>1. /\ request'[w] = NoRequest
      /\ \A v \in Workers \ {w} : request'[v] = request[v] /\ ok'[v] = ok[v]
      /\ completed' = completed
    BY DEF Reply, IInv, TypeOK
<1>2. request'[w] \notin FieldRequests
    BY <1>1, NoRequestIsNone DEF Requests
<1> QED
    BY <1>1, <1>2, OutsideKeeps DEF Reply

\* The steps of a handler that only look: the checks of the controllers, the
\* second look of a POST, and a BEGIN that times out.
Look(w) ==
    \/ PostOrderCheck(w) \/ RecheckOrder(w) \/ PutOrderCheck(w) \/ DeleteOrderCheck(w)
    \/ PostFieldCheck(w) \/ PutFieldCheck(w) \/ DeleteFieldCheck(w)
    \/ BeginTransaction(w) /\ txn # NoTxn

LEMMA LookKeeps ==
    ASSUME NEW w \in Workers, IInv, ContractInv, UNCHANGED <<clock, cleanerVars>>,
           Look(w)
    PROVE  ContractInv'
<1> USE DEF Look, PostOrderCheck, RecheckOrder, PutOrderCheck, DeleteOrderCheck, PostFieldCheck,
            PutFieldCheck, DeleteFieldCheck, BeginTransaction
<1>1. UNCHANGED <<storeVars, request, ok>>
    BY DEF storeVars
<1>2. \E step \in {"recheck", "begin", "reply"} : Goto(w, step)
    BY DEF Answer
<1>3. \/ UNCHANGED completed
      \/ \E g \in FreshFieldIds \cup {NoGuid} : completed' = [completed EXCEPT ![w] = g]
    BY DEF Calculate
<1>4. /\ completed'[w] \in FreshFieldIds \cup {NoGuid, completed[w]}
      /\ \A v \in Workers \ {w} : completed'[v] = completed[v]
    BY <1>3 DEF IInv, TypeOK
<1>5. ok[w]
    BY DEF IsOp, ContractInv, ProgressOK
<1> QED
    BY <1>1, <1>2, <1>4, <1>5, OutsideKeeps

\* The steps inside a transaction: no other handler is in one.
LEMMA InsideKeeps ==
    ASSUME NEW w \in Workers, IInv, ContractInv,
           txn # NoTxn => txn.owner = w,
           NEW step \in Writing, Goto(w, step),
           UNCHANGED <<orders, fields, request, completed, clock, cleanerVars>>,
           \A v \in Workers \ {w} : ok'[v] = ok[v],
           ProgressOK(w)'
    PROVE  ContractInv'
<1>1. \A v \in Workers \ {w} : pc'[v] = pc[v] /\ pc[v] \notin Writing
    BY DEF Goto, IInv, TypeOK, HandlerOK
<1>2. ASSUME NEW v \in Workers PROVE ProgressOK(v)'
    BY <1>1, ProgressKept DEF ContractInv
<1>3. ASSUME NEW v \in Workers PROVE DrawnOK(v)'
    BY DEF ContractInv, DrawnOK
<1>4. ThresholdOK'
    BY DEF ContractInv, ThresholdOK, cleanerVars
<1> QED
    BY <1>2, <1>3, <1>4 DEF ContractInv

LEMMA BeginKeeps ==
    ASSUME NEW w \in Workers, IInv, ContractInv, UNCHANGED <<clock, cleanerVars>>,
           BeginTransaction(w), txn = NoTxn
    PROVE  ContractInv'
<1>1. /\ txn'.orders = orders /\ txn'.fields = fields
      /\ pc[w] = "begin" /\ Goto(w, "write")
      /\ UNCHANGED <<orders, fields, request, completed, ok>>
    BY DEF BeginTransaction
<1>2. pc'[w] = "write" /\ ok[w]
    BY <1>1 DEF Goto, IInv, TypeOK, ContractInv, ProgressOK
<1>3. ProgressOK(w)'
    BY <1>1, <1>2 DEF ProgressOK
<1> QED
    BY <1>1, <1>3, InsideKeeps DEF Writing

\* A statement that fails, of a request that may fail, leads to an end in
\* failure.
LEMMA FailureKeeps ==
    ASSUME NEW w \in Workers, IInv, ContractInv, pc[w] = "write", MayFail(request[w]),
           UNCHANGED <<orders, fields, request, completed, clock, cleanerVars>>,
           NEW table \in {"order", "field"}, WriteNothing(table),
           NEW step \in {"complete", "end"}, Goto(w, step),
           ok' = [ok EXCEPT ![w] = FALSE]
    PROVE  ContractInv'
<1>1. /\ txn \in Transaction /\ txn.owner = w
      /\ txn.fields = fields
    BY WriterHolds DEF ContractInv, ProgressOK
<1>2. txn'.fields = fields
    BY <1>1 DEF WriteNothing, Transaction
<1>3. /\ pc'[w] = step /\ ~ok'[w]
      /\ \A v \in Workers \ {w} : ok'[v] = ok[v]
    BY DEF Goto, IInv, TypeOK
<1>4. MayFail(request[w])'
    BY DEF MayFail
<1>5. ProgressOK(w)'
    BY <1>2, <1>3, <1>4 DEF ProgressOK
<1> QED
    BY <1>1, <1>3, <1>5, InsideKeeps DEF Writing

\* The INSERT or UPDATE of an order.
LEMMA StoreOrderKeeps ==
    ASSUME NEW w \in Workers, IInv, ContractInv, UNCHANGED <<clock, cleanerVars>>,
           InsertOrder(w) \/ UpdateOrder(w, clock)
    PROVE  ContractInv'
<1> DEFINE r == request[w]
<1>1. /\ pc[w] = "write" /\ r.op \in {"PostOrder", "PutOrder"}
      /\ UNCHANGED <<orders, fields, request, completed>>
    BY DEF InsertOrder, UpdateOrder, IsOp
<1>2. /\ txn \in Transaction /\ txn.owner = w
      /\ r.id \in OrderIds
    BY <1>1, WriterHolds, RequestShape DEF OrderOps
<1>3. txn.orders = orders /\ txn.fields = fields /\ ok[w]
    BY <1>1 DEF ContractInv, ProgressOK
<1>4. CASE /\ RowFits(r)
           /\ Write(w, "order", r.id, StoredRow(w))
           /\ Goto(w, "complete")
           /\ UNCHANGED ok
    <2>1. txn' = [txn EXCEPT !.orders[r.id] = StoredRow(w),
                             !.locked = txn.locked \cup {"order"}]
        BY <1>4 DEF Write
    <2>2. /\ txn'.fields = fields
          /\ txn'.orders = [orders EXCEPT ![r.id] = StoredRow(w)]
        BY <1>2, <1>3, <2>1 DEF Transaction
    <2>3. pc'[w] = "complete" /\ ok'[w]
        BY <1>3, <1>4 DEF Goto, IInv, TypeOK
    <2>4. RowFits(r)' /\ StoredRow(w)' = StoredRow(w)
        BY <1>1, <1>4 DEF RowFits, StoredRow, PostedOrder, UpdatedOrder
    <2>5. ProgressOK(w)'
        BY <1>1, <2>2, <2>3, <2>4 DEF ProgressOK
    <2> QED
        BY <1>1, <1>2, <1>4, <2>5, InsideKeeps DEF Writing
<1>5. CASE /\ MayFail(r)
           /\ WriteNothing("order")
           /\ ok' = [ok EXCEPT ![w] = FALSE]
           /\ \E step \in {"complete", "end"} : Goto(w, step)
    BY <1>1, <1>5, FailureKeeps
<1>6. CASE InsertOrder(w)
    <2>1. "statement" \in Faults \/ orders[r.id] # NoRow => MayFail(r)
        BY <1>6 DEF InsertOrder, IsOp, MayFail
    <2> QED
        BY <1>3, <1>4, <1>5, <1>6, <2>1 DEF InsertOrder, IsOp, RowFits, StoredRow
<1>7. CASE UpdateOrder(w, clock)
    <2>1. "statement" \in Faults \/ orders[r.id] = NoRow => MayFail(r)
        BY <1>7 DEF UpdateOrder, IsOp, MayFail
    <2> QED
        BY <1>3, <1>4, <1>5, <1>7, <2>1 DEF UpdateOrder, IsOp, RowFits, StoredRow
<1> QED
    BY <1>6, <1>7

\* The INSERT of the completed field.
LEMMA StoreFieldKeeps ==
    ASSUME NEW w \in Workers, IInv, ContractInv, UNCHANGED <<clock, cleanerVars>>,
           AddCompletedGravitationalField(w)
    PROVE  ContractInv'
<1> DEFINE r == request[w]
           g == completed[w]
<1>1. /\ pc[w] = "complete" /\ Goto(w, "end")
      /\ UNCHANGED <<orders, fields, request, completed, ok>>
    BY DEF AddCompletedGravitationalField
<1>2. /\ txn \in Transaction /\ txn.owner = w
      /\ r.op \in {"PostOrder", "PutOrder"}
      /\ g \in FieldIds /\ g # NoGuid
    BY <1>1, WriterHolds, StoreAssumption
<1>3. txn.fields = fields /\ fields[g] = NoRow
    BY <1>1, <1>2 DEF ContractInv, ProgressOK, DrawnOK
<1>4. \/ txn' = [txn EXCEPT !.fields[g] = CompletedField(w), !.locked = txn.locked \cup {"field"}]
      \/ "completed" \in Faults /\ txn' = [txn EXCEPT !.locked = txn.locked \cup {"field"}]
    BY <1>3 DEF AddCompletedGravitationalField, Write, WriteNothing
<1>5. /\ txn'.orders = txn.orders
      /\ \/ txn'.fields = [fields EXCEPT ![g] = CompletedField(w)]
         \/ "completed" \in Faults /\ txn'.fields = fields
    BY <1>2, <1>3, <1>4 DEF Transaction
<1>6. pc'[w] = "end"
    BY <1>1 DEF Goto, IInv, TypeOK
<1>7. CASE ok[w]
    <2>1. RowFits(r) /\ txn.orders = [orders EXCEPT ![r.id] = StoredRow(w)]
        BY <1>1, <1>7 DEF ContractInv, ProgressOK
    <2>2. EffectIs(w, txn'.orders, txn'.fields)
        BY <1>2, <1>3, <1>5, <2>1 DEF EffectIs
    <2>3. EffectIs(w, txn.orders, txn.fields)'
        BY <1>1, <2>2 DEF EffectIs, RowFits, StoredRow, PostedOrder, UpdatedOrder, CompletedField
    <2>4. ProgressOK(w)'
        BY <1>1, <1>6, <1>7, <2>3 DEF ProgressOK
    <2> QED
        BY <1>1, <1>2, <2>4, InsideKeeps DEF Writing
<1>8. CASE ~ok[w]
    <2>1. MayFail(r)
        BY <1>1, <1>8 DEF ContractInv, ProgressOK
    <2>2. MayFail(r)'
        BY <1>1, <2>1 DEF MayFail
    <2>3. ProgressOK(w)'
        BY <1>1, <1>6, <1>8, <2>2 DEF ProgressOK
    <2> QED
        BY <1>1, <1>2, <2>3, InsideKeeps DEF Writing
<1> QED
    BY <1>7, <1>8

\* The statement of a request that has only one.
LEMMA SingleStatementKeeps ==
    ASSUME NEW w \in Workers, IInv, ContractInv, UNCHANGED <<clock, cleanerVars>>,
           DeleteOrder(w) \/ InsertField(w) \/ UpdateField(w) \/ DeleteField(w)
    PROVE  ContractInv'
<1> DEFINE r == request[w]
<1> USE DEF DeleteOrder, InsertField, UpdateField, DeleteField, IsOp
<1>1. /\ pc[w] = "write" /\ Goto(w, "end")
      /\ UNCHANGED <<orders, fields, request, completed>>
    OBVIOUS
<1>2. /\ txn \in Transaction /\ txn.owner = w
      /\ r \in OrderRequests \cup FieldRequests
    BY <1>1, WriterHolds
<1>3. txn.orders = orders /\ txn.fields = fields /\ ok[w]
    BY <1>1 DEF ContractInv, ProgressOK
<1>4. CASE \E table \in {"order", "field"} :
                MayFail(r) /\ WriteNothing(table) /\ ok' = [ok EXCEPT ![w] = FALSE]
    BY <1>1, <1>4, FailureKeeps
<1>5. CASE UNCHANGED ok /\ EffectIs(w, txn'.orders, txn'.fields)
    <2>1. EffectIs(w, txn.orders, txn.fields)'
        BY <1>1, <1>5 DEF EffectIs, RowFits, StoredRow, PostedOrder, UpdatedOrder, CompletedField
    <2>2. pc'[w] = "end" /\ ok'[w]
        BY <1>1, <1>3, <1>5 DEF Goto, IInv, TypeOK
    <2>3. ProgressOK(w)'
        BY <2>1, <2>2 DEF ProgressOK
    <2> QED
        BY <1>1, <1>2, <1>5, <2>3, InsideKeeps DEF Writing
<1>6. "statement" \in Faults => MayFail(r)
    BY DEF MayFail
<1>7. ASSUME NEW row
      PROVE  /\ Write(w, "order", r.id, row) =>
                    /\ txn'.orders = [orders EXCEPT ![r.id] = row]
                    /\ txn'.fields = fields
             /\ Write(w, "field", r.id, row) =>
                    /\ txn'.fields = [fields EXCEPT ![r.id] = row]
                    /\ txn'.orders = orders
    BY <1>2, <1>3 DEF Write, Transaction
<1>8. CASE DeleteOrder(w)
    BY <1>4, <1>5, <1>6, <1>7, <1>8 DEF EffectIs
<1>9. CASE InsertField(w)
    <2>1. fields[r.id] # NoRow => MayFail(r)
        BY <1>9 DEF MayFail
    <2> QED
        BY <1>3, <1>4, <1>5, <1>6, <1>7, <1>9, <2>1 DEF EffectIs
<1>10. CASE UpdateField(w)
    <2>1. fields[r.id] = NoRow => MayFail(r)
        BY <1>10 DEF MayFail
    <2> QED
        BY <1>3, <1>4, <1>5, <1>6, <1>7, <1>10, <2>1 DEF EffectIs
<1>11. CASE DeleteField(w)
    BY <1>4, <1>5, <1>6, <1>7, <1>11 DEF EffectIs
<1> QED
    BY <1>8, <1>9, <1>10, <1>11

\* COMMIT or ROLLBACK: what others have drawn stays free.
LEMMA EndKeeps ==
    ASSUME NEW w \in Workers, IInv, ContractInv, UNCHANGED <<clock, cleanerVars>>,
           EndTransaction(w)
    PROVE  ContractInv'
<1>1. /\ pc[w] = "end" /\ Goto(w, "reply")
      /\ completed' = [completed EXCEPT ![w] = NoGuid]
      /\ UNCHANGED <<request, ok>>
      /\ \/ orders' = txn.orders /\ fields' = txn.fields
         \/ UNCHANGED <<orders, fields>>
    BY DEF EndTransaction, Answer
<1>2. /\ txn \in Transaction /\ txn # NoTxn /\ txn.owner = w
      /\ request[w] \in OrderRequests \cup FieldRequests
      /\ \A v \in Workers \ {w} : pc[v] \notin Writing
    BY <1>1, TransactionAssumption DEF IInv, TypeOK, HandlerOK, Admitted, Writing
<1>3. /\ pc'[w] = "reply"
      /\ \A v \in Workers \ {w} : pc'[v] = pc[v]
      /\ completed'[w] = NoGuid
      /\ \A v \in Workers \ {w} : completed'[v] = completed[v]
    BY <1>1 DEF Goto, IInv, TypeOK
<1>4. ASSUME NEW v \in Workers PROVE DrawnOK(v)'
    <2>1. CASE v = w
        BY <1>3, <2>1 DEF DrawnOK
    <2>2. CASE v # w /\ completed[v] # NoGuid
        <3>1. DrawnOK(v)
            BY DEF ContractInv
        <3>2. completed[v] \in FieldIds
            BY <2>2 DEF IInv, TypeOK
        <3>3. txn.fields[completed[v]] = fields[completed[v]]
            <4>1. completed[v] # completed[w]
                BY <2>2, <3>1 DEF DrawnOK
            <4>2. request[w].op \in FieldOps => request[w].id # completed[v]
                BY <1>2, <2>2, <3>1, RequestShape DEF DrawnOK
            <4> QED
                BY <1>2, <3>2, <4>1, <4>2 DEF IInv, TransactionIsCurrent
        <3>4. fields'[completed[v]] = NoRow
            BY <1>1, <2>2, <3>1, <3>3 DEF DrawnOK
        <3>5. \A u \in Workers \ {v} : completed'[u] # completed[v]
            BY <1>3, <2>2, <3>1 DEF DrawnOK
        <3> QED
            BY <1>1, <1>3, <2>2, <3>1, <3>4, <3>5 DEF DrawnOK
    <2>3. CASE v # w /\ completed[v] = NoGuid
        BY <1>3, <2>3 DEF DrawnOK
    <2> QED
        BY <2>1, <2>2, <2>3
<1>5. ASSUME NEW v \in Workers PROVE ProgressOK(v)'
    <2>1. CASE v = w
        BY <1>3, <2>1 DEF ProgressOK
    <2>2. CASE v # w
        BY <1>1, <1>2, <1>3, <2>2, ProgressKept DEF ContractInv
    <2> QED
        BY <2>1, <2>2
<1>6. ThresholdOK'
    BY DEF ContractInv, ThresholdOK, cleanerVars
<1> QED
    BY <1>4, <1>5, <1>6 DEF ContractInv

\* The cleaner deletes, and the clock ticks, only while no transaction is open.
LEMMA CleaningKeeps ==
    ASSUME IInv, ContractInv, WakeCleaner \/ CleanDatabase \/ CleanFails \/ Tick
    PROVE  ContractInv'
<1> USE DEF WakeCleaner, CleanDatabase, CleanFails, Tick, storeVars, cleanerVars
<1>1. UNCHANGED <<fields, txn, handlerVars>>
    OBVIOUS
<1>2. UNCHANGED <<orders, clock>> \/ txn = NoTxn
    OBVIOUS
<1>3. ASSUME NEW v \in Workers PROVE ProgressOK(v)'
    <2>1. pc[v] \in Writing => UNCHANGED <<orders, fields, txn, clock>>
        BY <1>1, <1>2 DEF IInv, HandlerOK
    <2> QED
        BY <1>1, <2>1, ProgressKept DEF ContractInv, handlerVars
<1>4. ASSUME NEW v \in Workers PROVE DrawnOK(v)'
    BY <1>1 DEF ContractInv, DrawnOK, handlerVars
<1>5. ThresholdOK'
    BY StoreAssumption DEF ContractInv, ThresholdOK, IInv, TypeOK
<1> QED
    BY <1>3, <1>4, <1>5 DEF ContractInv

LEMMA CrashKeeps == ASSUME Crash PROVE ContractInv'
BY DEF Crash, ContractInv, DrawnOK, ProgressOK, ThresholdOK

LEMMA StutterKeeps == ASSUME ContractInv, UNCHANGED vars PROVE ContractInv'
<1> USE DEF vars, storeVars, handlerVars, cleanerVars
<1>1. ASSUME NEW v \in Workers PROVE ProgressOK(v)'
    BY ProgressKept DEF ContractInv
<1>2. ASSUME NEW v \in Workers PROVE DrawnOK(v)'
    BY DEF ContractInv, DrawnOK
<1>3. ThresholdOK'
    BY DEF ContractInv, ThresholdOK
<1> QED
    BY <1>1, <1>2, <1>3 DEF ContractInv

LEMMA ContractInvNext ==
    ASSUME IInv, ContractInv, [Next]_vars
    PROVE  ContractInv'
<1>1. ASSUME NEW w \in Workers, HandlerStep(w) PROVE ContractInv'
    <2>1. CASE Reply(w)
        BY <2>1, ReplyKeeps
    <2>2. CASE BeginTransaction(w) /\ UNCHANGED <<clock, cleanerVars>>
        BY <2>2, BeginKeeps, LookKeeps DEF Look
    <2>3. CASE EndTransaction(w) /\ UNCHANGED <<clock, cleanerVars>>
        BY <2>3, EndKeeps
    <2>4. CASE Look(w) /\ UNCHANGED <<clock, cleanerVars>>
        BY <2>4, LookKeeps
    <2>5. CASE (InsertOrder(w) \/ UpdateOrder(w, clock)) /\ UNCHANGED <<clock, cleanerVars>>
        BY <2>5, StoreOrderKeeps
    <2>6. CASE AddCompletedGravitationalField(w) /\ UNCHANGED <<clock, cleanerVars>>
        BY <2>6, StoreFieldKeeps
    <2>7. CASE /\ DeleteOrder(w) \/ InsertField(w) \/ UpdateField(w) \/ DeleteField(w)
               /\ UNCHANGED <<clock, cleanerVars>>
        BY <2>7, SingleStatementKeeps
    <2> QED
        BY <1>1, <2>1, <2>2, <2>3, <2>4, <2>5, <2>6, <2>7
           DEF HandlerStep, OrderStep, FieldStep, Look
<1> QED
    BY <1>1, ReceiveKeeps, CleaningKeeps, CrashKeeps, StutterKeeps DEF Next

-----------------------------------------------------------------------------
(***************************************************************************)
(* The refinement, step by step.                                           *)
(***************************************************************************)

\* The contract's requests and dates are those of the service.
LEMMA SameData ==
    /\ Contract!Requests = Requests
    /\ Contract!OrderRequests = OrderRequests
    /\ Contract!FieldRequests = FieldRequests
    /\ \A date, limit : Contract!OlderThan(date, limit) <=> OlderThan(date, limit)
<1> USE DEF Contract!OrderOps, Contract!FieldOps, OrderOps, FieldOps,
            Contract!FieldTypes, FieldTypes
<1>1. /\ Contract!OrderRequests = OrderRequests
      /\ Contract!FieldRequests = FieldRequests
      /\ Contract!MalformedRequests = MalformedRequests
    BY DEF Contract!OrderRequests, OrderRequests, Contract!FieldRequests, FieldRequests,
           Contract!MalformedRequests, MalformedRequests
<1>2. Contract!Requests = Requests
    BY <1>1 DEF Contract!Requests, Requests
<1>3. \A date, limit : Contract!OlderThan(date, limit) <=> OlderThan(date, limit)
    BY DEF Contract!OlderThan, OlderThan, Contract!NoDate, NoDate
<1> QED
    BY <1>1, <1>2, <1>3

\* The phase of the contract follows the program counter.
Phases == [v \in Workers |-> Phase(v)]

LEMMA PhaseFollows ==
    ASSUME NEW w \in Workers, IInv, NEW step \in PcValues, Goto(w, step)
    PROVE  /\ step = "idle" => Phases' = [Phases EXCEPT ![w] = "idle"]
           /\ step = "reply" => Phases' = [Phases EXCEPT ![w] = "decided"]
           /\ step \notin {"idle", "reply"} => Phases' = [Phases EXCEPT ![w] = "pending"]
           /\ pc[w] \notin {"idle", "reply"} /\ step \notin {"idle", "reply"} =>
                Phases' = Phases
BY DEF IInv, TypeOK, Goto, Phase, Phases

\* A service that starts keeps the contract's start.
LEMMA ContractStarts == Init => Contract!Init
BY DEF Init, InitStore, InitHandlers, InitCleaner, Contract!Init, Phase

LEMMA ReceiveCalls ==
    ASSUME NEW w \in Workers, IInv, Receive(w)
    PROVE  Contract!Next
<1>1. PICK r \in Requests : request' = [request EXCEPT ![w] = r]
    BY DEF Receive
<1>2. Phases[w] = "idle" /\ Phases' = [Phases EXCEPT ![w] = "pending"]
    BY PhaseFollows DEF Receive, PcValues, Phases, Phase
<1>3. Contract!Call(w, r)
    BY <1>1, <1>2 DEF Receive, storeVars, Contract!Call, Phases
<1> QED
    BY <1>3, SameData DEF Contract!Next

\* The steps between the arrival of a request and its answer are hidden.
LEMMA HiddenStep ==
    ASSUME NEW w \in Workers, IInv, pc[w] \in PcValues \ {"idle", "reply"},
           NEW step \in PcValues \ {"idle", "reply"}, Goto(w, step),
           UNCHANGED <<orders, fields, clock, request, status>>
    PROVE  UNCHANGED Contract!vars
<1>1. Phases' = Phases
    BY PhaseFollows
<1> QED
    BY <1>1 DEF Contract!vars, Phases

\* An answer other than 200 that says something true of this moment.
LEMMA AnswerRefuses ==
    ASSUME NEW w \in Workers, IInv, pc[w] \in PcValues \ {"idle", "reply"},
           NEW code, Answer(w, code),
           UNCHANGED <<orders, fields, clock, request>>,
           \/ code = 400 /\ Contract!BadRequest(request[w])
           \/ code = 404 /\ Contract!NotFound(request[w])
           \/ code = 409 /\ Contract!Conflict(request[w])
           \/ code = 500 /\ Contract!ServerError(request[w])
    PROVE  Contract!Next
<1>1. Phases[w] = "pending" /\ Phases' = [Phases EXCEPT ![w] = "decided"]
    BY PhaseFollows DEF Answer, PcValues, Phases, Phase
<1>2. Contract!Decide(w, code)
    BY <1>1 DEF Answer, Contract!Decide, Phases
<1>3. Contract!Refuse(w)
    BY <1>2 DEF Contract!Refuse
<1> QED
    BY <1>3 DEF Contract!Next

\* What a look at a row finds, in terms of the contract.
LEMMA LookTellsTruth ==
    ASSUME NEW r \in Requests
    PROVE  /\ ~r.wellFormed /\ (r.op \in {"PostOrder", "PostField"} \/ ~r.emptyGuid) =>
                Contract!BadRequest(r)
           /\ ~r.wellFormed /\ r.op \in {"PutOrder", "PutField"} /\ r.emptyGuid =>
                Contract!NotFound(r)
           /\ ~r.wellFormed /\ r.op \in {"DeleteOrder", "DeleteField"} =>
                Contract!NotFound(r)
           /\ r.wellFormed /\ r.op \in {"PutOrder", "DeleteOrder"}
                /\ SeesNull("order", orders[r.id]) => Contract!NotFound(r)
           /\ r.wellFormed /\ r.op \in {"PutField", "DeleteField"}
                /\ SeesNull("field", fields[r.id]) => Contract!NotFound(r)
           /\ r.wellFormed /\ r.op = "PostOrder"
                /\ SeesRow("order", orders[r.id]) => Contract!Conflict(r)
           /\ r.wellFormed /\ r.op = "PostField"
                /\ SeesRow("field", fields[r.id]) => Contract!Conflict(r)
<1>1. r.wellFormed => /\ r.op \in OrderOps => r \in OrderRequests /\ r \notin FieldRequests
                      /\ r.op \in FieldOps => r \in FieldRequests /\ r \notin OrderRequests
    BY WellFormedAdmitted, RequestShape DEF OrderOps, FieldOps
<1>2. ~r.wellFormed => /\ r \notin OrderRequests /\ r \notin FieldRequests
                       /\ r.emptyGuid \in BOOLEAN
                       /\ r.op \in {"DeleteOrder", "DeleteField"} => r.emptyGuid
    BY RequestShape DEF Requests, MalformedRequests
<1> QED
    BY <1>1, <1>2, SameData
       DEF SeesNull, SeesRow, OrderOps, FieldOps, Contract!BadRequest, Contract!NotFound,
           Contract!Conflict, Contract!Present

\* Why the service answers 500.
LEMMA FailureIsServerError ==
    ASSUME NEW r \in OrderRequests \cup FieldRequests
    PROVE  /\ MayFail(r) => Contract!ServerError(r)
           /\ r.op \in {"PostOrder", "PutOrder"} /\ r.payload \in Uncomputable =>
                Contract!ServerError(r)
<1>1. /\ r.op \in OrderOps => r \in OrderRequests /\ r \notin FieldRequests
      /\ r.op \in FieldOps => r \in FieldRequests /\ r \notin OrderRequests
    BY RequestShape DEF OrderOps, FieldOps
<1> QED
    BY <1>1, SameData
       DEF MayFail, OrderOps, FieldOps, Contract!ServerError, Contract!Conflict, Contract!Present

LEMMA LookKeepsContract ==
    ASSUME NEW w \in Workers, IInv, UNCHANGED <<clock, cleanerVars>>, Look(w)
    PROVE  Contract!Next \/ UNCHANGED Contract!vars
<1> DEFINE r == request[w]
<1> USE DEF Look, PostOrderCheck, RecheckOrder, PutOrderCheck, DeleteOrderCheck, PostFieldCheck,
            PutFieldCheck, DeleteFieldCheck, BeginTransaction, IsOp
<1>1. /\ pc[w] \in PcValues \ {"idle", "reply"}
      /\ UNCHANGED <<orders, fields, request>>
    BY DEF storeVars, PcValues
<1>2. r \in Requests
    BY <1>1 DEF IInv, TypeOK, HandlerOK
<1>3. CASE UNCHANGED status /\ \E step \in {"recheck", "begin"} : Goto(w, step)
    BY <1>1, <1>3, HiddenStep DEF PcValues
<1>4. CASE \/ Answer(w, 400) /\ Contract!BadRequest(r)
           \/ Answer(w, 404) /\ Contract!NotFound(r)
           \/ Answer(w, 409) /\ Contract!Conflict(r)
           \/ Answer(w, 500) /\ Contract!ServerError(r)
    BY <1>1, <1>4, AnswerRefuses
<1>5. r.wellFormed => r \in OrderRequests \cup FieldRequests
    BY <1>2, WellFormedAdmitted
<1>6. CASE PostOrderCheck(w)
    <2>1. ~CanCalculate(w) /\ r.wellFormed => Contract!ServerError(r)
        BY <1>5, <1>6, FailureIsServerError DEF CanCalculate
    <2> QED
        BY <1>2, <1>3, <1>4, <1>6, <2>1, LookTellsTruth
<1>7. CASE PutOrderCheck(w)
    <2>1. ~CanCalculate(w) /\ r.wellFormed => Contract!ServerError(r)
        BY <1>5, <1>7, FailureIsServerError DEF CanCalculate
    <2> QED
        BY <1>2, <1>3, <1>4, <1>7, <2>1, LookTellsTruth
<1>8. CASE RecheckOrder(w)
    <2>1. r \in OrderRequests \cup FieldRequests /\ r.op = "PostOrder"
        BY <1>8 DEF IInv, HandlerOK, Admitted
    <2>2. SeesRow("order", orders[r.id]) => Contract!ServerError(r)
        BY <2>1, FailureIsServerError DEF SeesRow, MayFail
    <2> QED
        BY <1>3, <1>4, <1>8, <2>2
<1>9. CASE DeleteOrderCheck(w) \/ PostFieldCheck(w) \/ PutFieldCheck(w) \/ DeleteFieldCheck(w)
    BY <1>2, <1>3, <1>4, <1>9, LookTellsTruth
<1>10. CASE BeginTransaction(w) /\ txn # NoTxn
    <2>1. r \in OrderRequests \cup FieldRequests
        BY <1>10 DEF IInv, HandlerOK, Admitted
    <2>2. Contract!ServerError(r)
        BY <1>10, <2>1, FailureIsServerError DEF MayFail
    <2> QED
        BY <1>4, <1>10, <2>2
<1> QED
    BY <1>6, <1>7, <1>8, <1>9, <1>10

\* BEGIN and the statements change nothing that anyone else could see.
LEMMA WritingIsHidden ==
    ASSUME NEW w \in Workers, IInv, UNCHANGED <<clock, cleanerVars>>,
           \/ BeginTransaction(w) /\ txn = NoTxn
           \/ InsertOrder(w) \/ UpdateOrder(w, clock) \/ AddCompletedGravitationalField(w)
           \/ DeleteOrder(w) \/ InsertField(w) \/ UpdateField(w) \/ DeleteField(w)
    PROVE  UNCHANGED Contract!vars
<1> USE DEF BeginTransaction, InsertOrder, UpdateOrder, AddCompletedGravitationalField,
            DeleteOrder, InsertField, UpdateField, DeleteField, IsOp
<1>1. /\ pc[w] \in {"begin", "write", "complete"}
      /\ \E step \in {"write", "complete", "end"} : Goto(w, step)
      /\ UNCHANGED <<orders, fields, clock, request, status>>
    OBVIOUS
<1> QED
    BY <1>1, HiddenStep DEF PcValues

\* A transaction that is committed is the effect of its request.
LEMMA CommitIsEffect ==
    ASSUME NEW w \in Workers, EffectIs(w, orders', fields')
    PROVE  Contract!Effect(w)
<1> DEFINE r == request[w]
<1>1. CASE r.op \in {"PostOrder", "PutOrder"}
    <2>1. /\ completed[w] \in FieldIds
          /\ orders' = [orders EXCEPT ![r.id] =
                [payload |-> r.payload, completed |-> completed[w],
                 modified |-> IF r.op = "PostOrder" THEN r.date ELSE clock,
                 light |-> r.date]]
        BY <1>1 DEF EffectIs, StoredRow, PostedOrder, UpdatedOrder
    <2>2. Contract!CompletedFieldAppears(completed[w], r.payload)
        BY <1>1 DEF EffectIs, CompletedField, Contract!CompletedFieldAppears
    <2>3. Contract!StoreOrder(w, IF r.op = "PostOrder" THEN r.date ELSE clock)
        BY <2>1, <2>2 DEF Contract!StoreOrder
    <2> QED
        BY <1>1, <2>3 DEF EffectIs, RowFits, Contract!Effect
<1>2. CASE r.op \notin {"PostOrder", "PutOrder"}
    BY <1>2 DEF EffectIs, Contract!Effect
<1> QED
    BY <1>1, <1>2

LEMMA EndKeepsContract ==
    ASSUME NEW w \in Workers, IInv, ContractInv, UNCHANGED <<clock, cleanerVars>>,
           EndTransaction(w)
    PROVE  Contract!Next
<1>1. pc[w] = "end" /\ UNCHANGED <<clock, request>>
    BY DEF EndTransaction
<1>2. request[w] \in OrderRequests \cup FieldRequests
    BY <1>1 DEF IInv, HandlerOK, Admitted, Writing
<1>3. ProgressOK(w)
    BY DEF ContractInv
<1>4. CASE ok[w] /\ orders' = txn.orders /\ fields' = txn.fields /\ Answer(w, 200)
    <2>1. Contract!Effect(w)
        BY <1>1, <1>3, <1>4, CommitIsEffect DEF ProgressOK
    <2>2. Phases[w] = "pending" /\ Phases' = [Phases EXCEPT ![w] = "decided"]
        BY <1>1, <1>4, PhaseFollows DEF Answer, PcValues, Phases, Phase
    <2>3. Contract!Decide(w, 200)
        BY <1>1, <1>4, <2>2 DEF Answer, Contract!Decide, Phases
    <2>4. Contract!Succeed(w)
        BY <1>2, <2>1, <2>3, RequestShape DEF Contract!Succeed
    <2> QED
        BY <2>4 DEF Contract!Next
<1>5. CASE /\ ~ok[w] \/ "commit" \in Faults
           /\ Answer(w, 500)
           /\ UNCHANGED <<orders, fields>>
    <2>1. MayFail(request[w])
        BY <1>1, <1>3, <1>5 DEF ProgressOK, MayFail
    <2>2. Contract!ServerError(request[w])
        BY <1>2, <2>1, FailureIsServerError
    <2> QED
        BY <1>1, <1>5, <2>2, AnswerRefuses DEF PcValues
<1> QED
    BY <1>4, <1>5 DEF EndTransaction

LEMMA ReplyReturns ==
    ASSUME NEW w \in Workers, IInv, Reply(w)
    PROVE  Contract!Next
<1>1. Phases[w] = "decided" /\ Phases' = [Phases EXCEPT ![w] = "idle"]
    BY PhaseFollows DEF Reply, PcValues, Phases, Phase
<1>2. Contract!Return(w)
    BY <1>1 DEF Reply, storeVars, Contract!Return, Phases
<1> QED
    BY <1>2 DEF Contract!Next

\* What the cleaner deletes is old enough when it is deleted.
LEMMA CleaningRetires ==
    ASSUME IInv, ContractInv, CleanDatabase
    PROVE  Contract!Next
<1> DEFINE retired == {i \in OrderIds : orders[i] # NoRow /\ OlderThan(orders[i].modified, threshold)}
<1>1. \A i \in retired : Contract!OlderThan(orders[i].modified, clock - RetireAfter)
    <2> TAKE i \in retired
    <2>1. orders[i] \in OrderRow
        BY DEF IInv, TypeOK
    <2>2. orders[i].modified \in Int
        BY <2>1, StoreAssumption DEF OrderRow, Dates, NoDate
    <2>3. threshold <= clock - RetireAfter
        BY DEF CleanDatabase, ContractInv, ThresholdOK
    <2>4. OlderThan(orders[i].modified, clock - RetireAfter)
        BY <2>2, <2>3, StoreAssumption DEF OlderThan, IInv, TypeOK
    <2> QED
        BY <2>4, SameData
<1>2. orders' = [i \in OrderIds |-> IF i \in retired THEN NoRow ELSE orders[i]]
    BY DEF CleanDatabase
<1>3. UNCHANGED <<fields, clock, pc, request, status>>
    BY DEF CleanDatabase, handlerVars
<1>4. retired \in SUBSET OrderIds /\ \A i \in retired : orders[i] # NoRow
    OBVIOUS
<1>5. Contract!Retire
    <2> HIDE DEF retired
    <2> QED
        BY <1>1, <1>2, <1>3, <1>4 DEF Contract!Retire, Phase
<1> QED
    BY <1>5 DEF Contract!Next

\* The clock, the cleaner's other steps, and a crash.
LEMMA OtherStepsKeepContract ==
    ASSUME WakeCleaner \/ CleanFails \/ Tick \/ Crash
    PROVE  Contract!Next \/ UNCHANGED Contract!vars
<1>1. CASE WakeCleaner \/ CleanFails
    BY <1>1 DEF WakeCleaner, CleanFails, storeVars, handlerVars, Contract!vars, Phase
<1>2. CASE Tick
    BY <1>2 DEF Tick, storeVars, handlerVars, Contract!Tick, Contract!Next, Phase
<1>3. CASE Crash
    BY <1>3 DEF Crash, Contract!Restart, Contract!Next, Phase
<1> QED
    BY <1>1, <1>2, <1>3

\* Every step of the service is a step of the contract, or a stutter.
LEMMA NextKeepsContract ==
    ASSUME IInv, ContractInv, [Next]_vars
    PROVE  Contract!Next \/ UNCHANGED Contract!vars
<1>1. ASSUME NEW w \in Workers, HandlerStep(w)
      PROVE  Contract!Next \/ UNCHANGED Contract!vars
    <2>1. CASE Reply(w)
        BY <2>1, ReplyReturns
    <2>2. CASE EndTransaction(w) /\ UNCHANGED <<clock, cleanerVars>>
        BY <2>2, EndKeepsContract
    <2>3. CASE Look(w) /\ UNCHANGED <<clock, cleanerVars>>
        BY <2>3, LookKeepsContract
    <2>4. CASE ~Reply(w) /\ ~EndTransaction(w) /\ ~Look(w)
        BY <1>1, <2>4, WritingIsHidden DEF HandlerStep, OrderStep, FieldStep, Look
    <2> QED
        BY <1>1, <2>1, <2>2, <2>3, <2>4 DEF HandlerStep
<1>2. CASE UNCHANGED vars
    BY <1>2 DEF vars, storeVars, handlerVars, Contract!vars, Phase
<1> QED
    BY <1>1, <1>2, ReceiveCalls, CleaningRetires, OtherStepsKeepContract DEF Next

\* The service keeps the contract of its REST interface: whatever the number
\* of handlers, their interleavings, the faults of the database, the cleaner
\* and the crashes, each request takes its whole effect at one moment or
\* none, and each answer says something true of that moment.
THEOREM ServiceKeepsContract == Spec => KeepsContract
<1>1. Init => ContractInv
    BY ContractInvInit
<1>2. IInv /\ ContractInv /\ [Next]_vars => ContractInv'
    BY ContractInvNext
<1>3. IInv /\ ContractInv /\ [Next]_vars => [Contract!Next]_(Contract!vars)
    BY NextKeepsContract
<1>4. Init => Contract!Init
    BY ContractStarts
<1> QED
    BY <1>1, <1>2, <1>3, <1>4, InvariantHolds, PTL DEF Spec, KeepsContract, Contract!Spec

-----------------------------------------------------------------------------
(***************************************************************************)
(* What the contract gives its clients.  That a stored order has its       *)
(* completed field is proved from the steps of the contract alone: the     *)
(* handlers come in only to say whose requests are under way.              *)
(***************************************************************************)

\* No request to the field endpoints is under way.
OrdersOnly == \A w \in Workers : request[w] # NoRequest => request[w].op \in OrderOps

LEMMA OrdersOnlyNext ==
    ASSUME ClientOps \subseteq OrderOps, IInv, OrdersOnly, [Next]_vars
    PROVE  OrdersOnly'
<1>1. CASE UNCHANGED request
    BY <1>1 DEF OrdersOnly
<1>2. ASSUME NEW w \in Workers, Receive(w) PROVE OrdersOnly'
    BY <1>2 DEF Receive, OrdersOnly, IInv, TypeOK
<1>3. CASE \E r \in [Workers -> {NoRequest}] : request' = r
    BY <1>3 DEF OrdersOnly
<1>4. ASSUME NEW w \in Workers, Reply(w) PROVE OrdersOnly'
    BY <1>4 DEF Reply, OrdersOnly, IInv, TypeOK
<1>5. CASE Crash
    BY <1>3, <1>5 DEF Crash
<1>6. ASSUME NEW w \in Workers, HandlerStep(w), ~Reply(w) PROVE UNCHANGED request
    BY <1>6 DEF HandlerStep, OrderStep, FieldStep, BeginTransaction, EndTransaction,
                PostOrderCheck, RecheckOrder, InsertOrder, PutOrderCheck, UpdateOrder,
                AddCompletedGravitationalField, DeleteOrderCheck, DeleteOrder,
                PostFieldCheck, InsertField, PutFieldCheck, UpdateField, DeleteFieldCheck,
                DeleteField
<1>7. CASE WakeCleaner \/ CleanDatabase \/ CleanFails \/ Tick \/ UNCHANGED vars
    BY <1>1, <1>7 DEF WakeCleaner, CleanDatabase, CleanFails, Tick, vars, handlerVars
<1> QED
    BY <1>1, <1>2, <1>4, <1>5, <1>6, <1>7 DEF Next

\* The effect of an order request keeps orders and their fields together: the
\* Guid of its completed field is not taken.
LEMMA EffectKeepsTogether ==
    ASSUME "completed" \notin Faults, IInv, OrderHasCompletedField, OrdersOnly,
           NEW w \in Workers, Contract!Succeed(w)
    PROVE  OrderHasCompletedField'
<1> DEFINE r == request[w]
<1>1. r \in OrderRequests /\ r.op \in OrderOps
    <2>1. pc[w] # "idle" /\ r.wellFormed
        BY DEF Contract!Succeed, Contract!Decide, Phase
    <2>2. r \in Requests /\ r.op \in OrderOps
        BY <2>1 DEF OrdersOnly, IInv, TypeOK, HandlerOK
    <2> QED
        BY <2>1, <2>2, WellFormedAdmitted, RequestShape
<1>2. r.id \in OrderIds
    BY <1>1, RequestShape
<1>3. \A i \in OrderIds : orders[i] # NoRow =>
        /\ orders[i].completed \in FieldIds
        /\ fields[orders[i].completed] # NoRow
    <2> TAKE i \in OrderIds
    <2> HAVE orders[i] # NoRow
    <2>1. orders[i] \in OrderRow
        BY DEF IInv, TypeOK
    <2>2. [payload |-> orders[i].payload, type |-> "Completed", column |-> "Completed"] \in FieldRow
        BY <2>1 DEF OrderRow, FieldRow, FieldTypes
    <2> QED
        BY <2>1, <2>2, StoreAssumption DEF OrderHasCompletedField, OrderRow
<1>4. CASE r.op = "DeleteOrder"
    <2>1. orders' = [orders EXCEPT ![r.id] = NoRow] /\ UNCHANGED fields
        BY <1>4 DEF Contract!Succeed, Contract!Effect
    <2>2. \A i \in OrderIds : orders'[i] \in {NoRow, orders[i]}
        BY <1>2, <2>1 DEF IInv, TypeOK
    <2> QED
        BY <2>1, <2>2 DEF OrderHasCompletedField
<1>5. CASE r.op \in {"PostOrder", "PutOrder"}
    <2>1. PICK date \in {r.date, clock}, g \in FieldIds :
            /\ orders' = [orders EXCEPT ![r.id] =
                    [payload |-> r.payload, completed |-> g, modified |-> date, light |-> r.date]]
            /\ fields[g] = NoRow
            /\ fields' = [fields EXCEPT ![g] =
                    [payload |-> r.payload, type |-> "Completed", column |-> "Completed"]]
        BY <1>5 DEF Contract!Succeed, Contract!Effect, Contract!StoreOrder,
                    Contract!CompletedFieldAppears
    <2> SUFFICES ASSUME NEW i \in OrderIds, orders'[i] # NoRow
                 PROVE  fields'[orders'[i].completed] =
                            [payload |-> orders'[i].payload, type |-> "Completed",
                             column |-> "Completed"]
        BY DEF OrderHasCompletedField
    <2>2. CASE i = r.id
        BY <1>2, <2>1, <2>2 DEF IInv, TypeOK
    <2>3. CASE i # r.id
        <3>1. orders'[i] = orders[i]
            BY <2>1, <2>3 DEF IInv, TypeOK
        <3>2. fields'[orders[i].completed] = fields[orders[i].completed]
            BY <1>3, <2>1, <3>1 DEF IInv, TypeOK
        <3> QED
            BY <3>1, <3>2 DEF OrderHasCompletedField
    <2> QED
        BY <2>2, <2>3
<1> QED
    BY <1>1, <1>4, <1>5 DEF OrderOps

\* No other step of the contract stores an order or touches a field.
LEMMA ContractKeepsTogether ==
    ASSUME "completed" \notin Faults, IInv, OrderHasCompletedField, OrdersOnly,
           Contract!Next \/ UNCHANGED Contract!vars
    PROVE  OrderHasCompletedField'
<1>1. CASE \E w \in Workers : Contract!Succeed(w)
    BY <1>1, EffectKeepsTogether
<1>2. CASE UNCHANGED fields /\ \A i \in OrderIds : orders'[i] \in {NoRow, orders[i]}
    BY <1>2 DEF OrderHasCompletedField
<1>3. CASE UNCHANGED <<orders, fields>>
    BY <1>2, <1>3
<1>4. CASE Contract!Retire
    BY <1>2, <1>4 DEF Contract!Retire
<1>5. CASE Contract!Tick \/ Contract!Restart \/ UNCHANGED Contract!vars
    BY <1>3, <1>5 DEF Contract!Tick, Contract!Restart, Contract!vars
<1>6. ASSUME NEW w \in Workers,
             \/ \E r \in Contract!Requests : Contract!Call(w, r)
             \/ Contract!Refuse(w)
             \/ Contract!Return(w)
      PROVE  UNCHANGED <<orders, fields>>
    BY <1>6 DEF Contract!Call, Contract!Refuse, Contract!Return
<1> QED
    BY <1>1, <1>3, <1>4, <1>5, <1>6 DEF Contract!Next

\* A stored order and the field computed from it stay together, through
\* every failed, racing and repeated request, every cleaning and every
\* crash, as long as clients leave the field endpoints alone and the INSERT
\* of a completed field does not throw.
THEOREM OrdersHaveTheirFields ==
    ASSUME ClientOps \subseteq OrderOps, "completed" \notin Faults
    PROVE  Spec => []OrderHasCompletedField
<1>1. Init => ContractInv /\ OrdersOnly /\ OrderHasCompletedField
    BY ContractInvInit
       DEF Init, InitStore, InitHandlers, OrdersOnly, OrderHasCompletedField
<1>2. IInv /\ ContractInv /\ [Next]_vars => ContractInv'
    BY ContractInvNext
<1>3. IInv /\ OrdersOnly /\ [Next]_vars => OrdersOnly'
    BY OrdersOnlyNext
<1>4. IInv /\ ContractInv /\ OrdersOnly /\ OrderHasCompletedField /\ [Next]_vars
        => OrderHasCompletedField'
    BY NextKeepsContract, ContractKeepsTogether
<1> QED
    BY <1>1, <1>2, <1>3, <1>4, InvariantHolds, PTL DEF Spec

=============================================================================
