--------------------------- MODULE DatabaseSchema ---------------------------
(***************************************************************************)
(* SqlConnectionManager when the service starts: it compares the tables of *)
(* the database file with the expected ones, and if they differ copies the *)
(* file, drops every table and creates the expected ones.  Each statement  *)
(* commits on its own, so the process may stop between any two and the     *)
(* next start finds what is left.                                          *)
(***************************************************************************)
EXTENDS Naturals, FiniteSets

CONSTANTS
    Tables,     \* the keys of _tableStructureDict
    OldTables,  \* names of tables that other versions left in the file
    Rows,       \* rows, each in one version: an UPDATE puts another in its place
    Faults,     \* what may fail, see FaultKinds
    NoTable

(***************************************************************************)
(* open    Initialize cannot open the file                                 *)
(* schema  CheckDatabaseStructure throws and answers false                 *)
(* copy    File.Copy throws                                                *)
(* ddl     a DROP, CREATE TABLE or CREATE INDEX throws                     *)
(***************************************************************************)
FaultKinds == {"open", "schema", "copy", "ddl"}

ASSUME SchemaAssumption ==
    /\ Tables \cap OldTables = {}
    /\ Faults \subseteq FaultKinds

VARIABLES
    tables,     \* the tables in the file, NoTable where there is none
    backedUp,   \* the rows that some backup copy holds
    pc,         \* where ManageDataBase is
    found,      \* tableNameList: the tables still to drop
    toCreate,   \* the expected tables still to create
    current,    \* tableName in the loop that creates
    success,    \* the variable "success" of that loop
    stored,     \* history: the rows that were ever stored and that no manager
                \* has deleted or replaced
    disturbed   \* history: whether something failed since the start

manager == <<found, toCreate, current, success>>
vars == <<tables, backedUp, pc, manager, stored, disturbed>>

Names == Tables \cup OldTables
Table == [expected : BOOLEAN, rows : SUBSET Rows]
NewTable == [expected |-> TRUE, rows |-> {}]

ASSUME NoTableAssumption == NoTable \notin Table

Existing == {t \in Names : tables[t] # NoTable}
OnDisk == UNION {tables[t].rows : t \in Existing}

\* Variant: only the table names are compared.
MatchesByName == Existing = Tables

\* The table count, the table names, and the fields of each table.
Matches == Existing = Tables /\ \A t \in Existing : tables[t].expected

IdleManager == found = {} /\ toCreate = {} /\ current = NoTable /\ success = TRUE

\* The first start of this version finds any file.
Init ==
    /\ tables \in [Names -> Table \cup {NoTable}]
    /\ \A t, u \in Existing : t # u => tables[t].rows \cap tables[u].rows = {}
    /\ stored = OnDisk
    /\ backedUp = {}
    /\ pc = "down"
    /\ IdleManager
    /\ disturbed = FALSE

-----------------------------------------------------------------------------
\* The constructor: without Initialize the database is left as it is.
Start ==
    /\ pc = "down"
    /\ \/ pc' = "inspect" /\ disturbed' = FALSE
       \/ "open" \in Faults /\ pc' = "running" /\ disturbed' = TRUE
    /\ UNCHANGED <<tables, backedUp, manager, stored>>

\* The structure is as expected.
AcceptDatabase ==
    /\ pc = "inspect"
    /\ Matches
    /\ pc' = "running"
    /\ UNCHANGED <<tables, backedUp, manager, stored, disturbed>>

\* The structure differs, or cannot be read of a table that is expected.
RejectDatabase ==
    /\ pc = "inspect"
    /\ \/ ~Matches /\ UNCHANGED disturbed
       \/ Matches /\ "schema" \in Faults /\ disturbed' = TRUE
    /\ found' = Existing
    /\ toCreate' = Tables
    /\ pc' = IF Existing = {} THEN "create" ELSE "backup"
    /\ UNCHANGED <<tables, backedUp, current, success, stored>>

\* Variant: the tables of an unexpected file are dropped without a copy.
BackUpNothing ==
    /\ pc = "backup"
    /\ pc' = "drop"
    /\ UNCHANGED <<tables, backedUp, manager, stored, disturbed>>

\* File.Copy of the database; its failure is only logged.
BackUp ==
    /\ pc = "backup"
    /\ \/ backedUp' = backedUp \cup OnDisk /\ UNCHANGED disturbed
       \/ "copy" \in Faults /\ disturbed' = TRUE /\ UNCHANGED backedUp
    /\ pc' = "drop"
    /\ UNCHANGED <<tables, manager, stored>>

\* One DropTable of the list; a failure ends the management.
DropFoundTable ==
    /\ pc = "drop"
    /\ \/ \E t \in found :
            /\ tables' = [tables EXCEPT ![t] = NoTable]
            /\ found' = found \ {t}
            /\ pc' = IF found \ {t} = {} THEN "create" ELSE "drop"
            /\ UNCHANGED <<toCreate, disturbed>>
       \/ /\ "ddl" \in Faults
          /\ found' = {} /\ toCreate' = {}
          /\ pc' = "running"
          /\ disturbed' = TRUE
          /\ UNCHANGED tables
    /\ UNCHANGED <<backedUp, current, success, stored>>

\* Variant: the name of the table is kept once it is created.
CreateTableThenName ==
    /\ pc = "create"
    /\ \E t \in toCreate :
        \/ /\ tables[t] = NoTable
           /\ tables' = [tables EXCEPT ![t] = NewTable]
           /\ current' = t
           /\ pc' = "index"
           /\ UNCHANGED <<success, disturbed>>
        \/ /\ tables[t] # NoTable \/ "ddl" \in Faults
           /\ success' = FALSE
           /\ disturbed' = TRUE
           /\ pc' = "undo"
           /\ UNCHANGED <<tables, current>>
    /\ UNCHANGED <<backedUp, found, toCreate, stored>>

\* The loop goes to the next table, in an order the dictionary chooses.
NextTable ==
    /\ toCreate' = toCreate \ {current}
    /\ current' = NoTable
    /\ IF toCreate' = {}
       THEN pc' = "running" /\ success' = TRUE
       ELSE pc' = "create" /\ UNCHANGED success

CreateTable ==
    /\ pc = "create"
    /\ \E t \in toCreate :
        /\ current' = t
        /\ \/ /\ tables[t] = NoTable
              /\ tables' = [tables EXCEPT ![t] = NewTable]
              /\ pc' = "index"
              /\ UNCHANGED <<success, disturbed>>
           \/ /\ tables[t] # NoTable \/ "ddl" \in Faults
              /\ success' = FALSE
              /\ disturbed' = TRUE
              /\ pc' = "undo"
              /\ UNCHANGED tables
    /\ UNCHANGED <<backedUp, found, toCreate, stored>>

\* Once something has failed, success stays false, and every table created
\* later is dropped again.
IndexTable ==
    /\ pc = "index"
    /\ \/ success /\ NextTable /\ UNCHANGED disturbed
       \/ ~success /\ pc' = "undo" /\ UNCHANGED <<toCreate, current, success, disturbed>>
       \/ /\ "ddl" \in Faults
          /\ success' = FALSE
          /\ disturbed' = TRUE
          /\ pc' = "undo"
          /\ UNCHANGED <<toCreate, current>>
    /\ UNCHANGED <<tables, backedUp, found, stored>>

\* DropTable of the table that was created, or was not.
UndoTable ==
    /\ pc = "undo"
    /\ \/ tables' = [tables EXCEPT ![current] = NoTable]
       \/ "ddl" \in Faults /\ UNCHANGED tables
    /\ NextTable
    /\ UNCHANGED <<backedUp, found, stored, disturbed>>

-----------------------------------------------------------------------------
\* The running service: a manager inserts a row, replaces one by its UPDATE or
\* deletes one; GravitationalFieldService has its transactions.
Serve ==
    /\ pc = "running"
    /\ \E t \in Existing \cap Tables :
        \E gone \in SUBSET tables[t].rows, new \in SUBSET (Rows \ (stored \cup backedUp)) :
            /\ tables[t].expected
            /\ Cardinality(gone) <= 1 /\ Cardinality(new) <= 1
            /\ tables' = [tables EXCEPT ![t].rows = (@ \ gone) \cup new]
            /\ stored' = (stored \ gone) \cup new
    /\ UNCHANGED <<backedUp, pc, manager, disturbed>>

\* The process stops, wherever it is, and only the files stay.
Stop ==
    /\ pc # "down"
    /\ pc' = "down"
    /\ found' = {} /\ toCreate' = {} /\ current' = NoTable /\ success' = TRUE
    /\ UNCHANGED <<tables, backedUp, stored, disturbed>>

Next ==
    \/ Start
    \/ AcceptDatabase
    \/ RejectDatabase
    \/ BackUp
    \/ DropFoundTable
    \/ CreateTable
    \/ IndexTable
    \/ UndoTable
    \/ Serve
    \/ Stop

Spec == Init /\ [][Next]_vars

-----------------------------------------------------------------------------
\* Every variable keeps to the values its C# counterpart can have.
TypeOK ==
    /\ tables \in [Names -> Table \cup {NoTable}]
    /\ backedUp \subseteq Rows
    /\ pc \in {"down", "inspect", "backup", "drop", "create", "index", "undo", "running"}
    /\ found \subseteq Names
    /\ toCreate \subseteq Tables
    /\ pc \in {"index", "undo"} => current \in Tables
    /\ success \in BOOLEAN
    /\ stored \subseteq Rows
    /\ disturbed \in BOOLEAN

\* ManageDataBase loses nothing: however often the process stops between its
\* statements and starts again on what is left, and whichever statement
\* fails, every row that was ever stored, and not deleted by a manager, is in
\* the database or in a backup, unless a copy failed.
NothingLost == "copy" \notin Faults => stored \subseteq OnDisk \cup backedUp

\* A start in which nothing fails ends on the expected tables, whatever file
\* the earlier versions, failures and crashes have left.
RunsOnExpectedTables ==
    pc = "running" /\ ~disturbed =>
        \A t \in Names : IF t \in Tables THEN tables[t] # NoTable /\ tables[t].expected
                                         ELSE tables[t] = NoTable

=============================================================================
