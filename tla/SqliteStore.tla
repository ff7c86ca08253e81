---------------------------- MODULE SqliteStore ----------------------------
(***************************************************************************)
(* The SQLite database of the service, and what the request handlers keep  *)
(* on their stacks while they use it.                                      *)
(*                                                                         *)
(* Every manager method opens a connection of its own on the one database  *)
(* (SqlConnectionManager.GetConnection) with Cache=Shared, so handlers     *)
(* meet only in the database: BeginTransaction is BEGIN IMMEDIATE, which   *)
(* one connection at a time holds; a table written by the open transaction *)
(* cannot be read by the others until it ends; a statement that meets a    *)
(* lock is retried until the command times out and then throws.            *)
(***************************************************************************)
EXTENDS ServiceData

VARIABLES
    orders,     \* GravitationalFieldCalculationOrderTable, as committed
    fields,     \* GravitationalFieldTable, as committed
    txn,        \* the open write transaction, or NoTxn
    pc,         \* where each worker is in its handler
    request,    \* the request each worker serves
    completed,  \* the ID Calculate() gave the completed field
    ok,         \* the variable "success" of the manager methods
    status      \* the answer of the controller

storeVars == <<orders, fields, txn>>
handlerVars == <<pc, request, completed, ok, status>>

Transaction ==
    [owner : Workers,
     orders : [OrderIds -> OrderRow \cup {NoRow}],
     fields : [FieldIds -> FieldRow \cup {NoRow}],
     locked : SUBSET {"order", "field"}]

ASSUME TransactionAssumption == NoTxn \notin Transaction

PcValues == {"idle", "check", "recheck", "begin", "write", "complete", "end", "reply"}

InitStore ==
    /\ orders = [i \in OrderIds |-> NoRow]
    /\ fields = [g \in FieldIds |-> NoRow]
    /\ txn = NoTxn

InitHandlers ==
    /\ pc = [w \in Workers |-> "idle"]
    /\ request = [w \in Workers |-> NoRequest]
    /\ completed = [w \in Workers |-> NoGuid]
    /\ ok = [w \in Workers |-> TRUE]
    /\ status = [w \in Workers |-> 0]

-----------------------------------------------------------------------------
(***************************************************************************)
(* Reading.  GetById sees the committed row, unless the open transaction   *)
(* has written the table: then it waits for the end of the transaction or  *)
(* for its timeout.  A SELECT that throws is caught and reported as null.  *)
(***************************************************************************)
WriteLocked(table) == txn # NoTxn /\ table \in txn.locked

SeesRow(table, row) == row # NoRow /\ ~WriteLocked(table)

SeesNull(table, row) ==
    \/ row = NoRow /\ ~WriteLocked(table)
    \/ "read" \in Faults
    \/ "lock" \in Faults /\ WriteLocked(table)

-----------------------------------------------------------------------------
Goto(w, step) == pc' = [pc EXCEPT ![w] = step]

\* The handler ends: the controller returns a status code.
Answer(w, code) ==
    /\ Goto(w, "reply")
    /\ status' = [status EXCEPT ![w] = code]

\* Variant: no command timeout.
BeginTransactionNoTimeout(w) ==
    /\ pc[w] = "begin"
    /\ txn = NoTxn
    /\ txn' = [owner |-> w, orders |-> orders, fields |-> fields, locked |-> {}]
    /\ Goto(w, "write")
    /\ UNCHANGED <<orders, fields, request, completed, ok, status>>

\* BeginTransaction: it takes the one write lock, or its exception leaves
\* the handler, which no catch encloses, and the host answers 500.
BeginTransaction(w) ==
    /\ pc[w] = "begin"
    /\ \/ /\ txn = NoTxn
          /\ txn' = [owner |-> w, orders |-> orders, fields |-> fields, locked |-> {}]
          /\ Goto(w, "write")
          /\ UNCHANGED <<completed, status>>
       \/ /\ txn # NoTxn /\ "lock" \in Faults
          /\ completed' = [completed EXCEPT ![w] = NoGuid]
          /\ Answer(w, 500)
          /\ UNCHANGED txn
    /\ UNCHANGED <<orders, fields, request, ok>>

\* A write statement that succeeds: the row is changed in the transaction.
Write(w, table, key, row) ==
    IF table = "order"
    THEN txn' = [txn EXCEPT !.orders[key] = row, !.locked = @ \cup {table}]
    ELSE txn' = [txn EXCEPT !.fields[key] = row, !.locked = @ \cup {table}]

\* A write statement that throws or changes no row leaves only its lock.
WriteNothing(table) == txn' = [txn EXCEPT !.locked = @ \cup {table}]

\* Variant: the transaction is committed whether or not success is true.
AlwaysCommit(w) ==
    /\ pc[w] = "end"
    /\ orders' = txn.orders
    /\ fields' = txn.fields
    /\ Answer(w, IF ok[w] THEN 200 ELSE 500)
    /\ txn' = NoTxn
    /\ completed' = [completed EXCEPT ![w] = NoGuid]
    /\ UNCHANGED <<request, ok>>

\* The end of every manager method that writes: Commit if success, else
\* Rollback; a Commit that throws is undone by the using declaration.
EndTransaction(w) ==
    /\ pc[w] = "end"
    /\ \/ /\ ok[w]
          /\ orders' = txn.orders
          /\ fields' = txn.fields
          /\ Answer(w, 200)
       \/ /\ ~ok[w] \/ "commit" \in Faults
          /\ Answer(w, 500)
          /\ UNCHANGED <<orders, fields>>
    /\ txn' = NoTxn
    /\ completed' = [completed EXCEPT ![w] = NoGuid]
    /\ UNCHANGED <<request, ok>>

=============================================================================
