------------------------ MODULE DatabaseSchema_proofs ------------------------
(***************************************************************************)
(* Proofs that a start of the service loses nothing, for any tables, rows  *)
(* and faults.                                                             *)
(***************************************************************************)
EXTENDS DatabaseSchema, TLAPS

\* While tables are dropped and created, the backup has every row on disk.
Replacing == pc \in {"drop", "create", "index", "undo"}
DiskBackedUp == "copy" \notin Faults /\ Replacing => OnDisk \subseteq backedUp

\* Where a start in which nothing failed is on its way to the tables.
OnItsWay ==
    /\ pc \in {"down", "inspect", "backup", "drop", "running"} => success
    /\ ~disturbed =>
        /\ pc \in {"backup", "drop"} => found = Existing /\ toCreate = Tables
        /\ pc = "create" => Existing = Tables \ toCreate
        /\ pc = "index" => current \in toCreate /\ Existing = (Tables \ toCreate) \cup {current}
        /\ pc \in {"create", "index"} => success /\ \A t \in Existing : tables[t].expected
        /\ pc # "undo"

\* What every reachable state has, and every step keeps.
IInv == TypeOK /\ NothingLost /\ DiskBackedUp /\ OnItsWay /\ RunsOnExpectedTables

\* A table that is created is there, and empty.
LEMMA DiskGrows ==
    ASSUME TypeOK, NEW t \in Names, tables[t] = NoTable,
           tables' = [tables EXCEPT ![t] = NewTable]
    PROVE  OnDisk' = OnDisk /\ Existing' = Existing \cup {t}
<1>1. NewTable # NoTable /\ NewTable.rows = {}
  <2>1. NewTable \in Table
    BY DEF NewTable, Table
  <2> QED
    BY <2>1, NoTableAssumption DEF NewTable
<1>2. Existing' = Existing \cup {t} /\ t \notin Existing
  BY <1>1 DEF TypeOK, Existing
<1>3. tables'[t].rows = {} /\ \A u \in Existing : tables'[u] = tables[u]
  BY <1>1, <1>2 DEF TypeOK, Existing
<1>4. \A row : row \in OnDisk' <=> row \in OnDisk
  BY <1>2, <1>3 DEF OnDisk
<1> QED
  BY <1>2, <1>4

\* Dropping a table takes no row of another.
LEMMA DiskShrinks ==
    ASSUME TypeOK, NEW t \in Names, tables' = [tables EXCEPT ![t] = NoTable]
    PROVE  OnDisk' \subseteq OnDisk /\ Existing' = Existing \ {t}
<1>1. Existing' = Existing \ {t}
  BY DEF TypeOK, Existing
<1>2. \A u \in Existing' : tables'[u] = tables[u]
  BY <1>1 DEF TypeOK, Existing
<1> QED
  BY <1>1, <1>2 DEF OnDisk

\* The first start finds a file that has everything ever stored.
LEMMA InitInv == Init => IInv
<1> SUFFICES ASSUME Init PROVE IInv
  OBVIOUS
<1> USE DEF Init, IdleManager
<1>1. OnDisk \subseteq Rows
  BY DEF OnDisk, Existing, Table
<1>2. TypeOK
  BY <1>1 DEF TypeOK
<1>3. NothingLost /\ DiskBackedUp /\ OnItsWay /\ RunsOnExpectedTables
  BY DEF NothingLost, DiskBackedUp, Replacing, OnItsWay, RunsOnExpectedTables
<1> QED
  BY <1>2, <1>3 DEF IInv

-----------------------------------------------------------------------------
(***************************************************************************)
(* One lemma per step, and one step of its proof per conjunct of IInv.     *)
(***************************************************************************)

\* A start inspects the file, or runs on it as it is.
LEMMA StartKeepsInv == ASSUME IInv, Start PROVE IInv'
<1> USE DEF Start, manager, IInv
<1>1. OnDisk' = OnDisk /\ Existing' = Existing
  BY DEF OnDisk, Existing
<1>2. TypeOK'
  BY DEF TypeOK
<1>3. NothingLost'
  BY <1>1 DEF NothingLost
<1>4. DiskBackedUp' /\ RunsOnExpectedTables'
  BY DEF DiskBackedUp, Replacing, RunsOnExpectedTables
<1>5. OnItsWay'
  BY DEF OnItsWay
<1> QED
  BY <1>2, <1>3, <1>4, <1>5

\* An expected file is not touched.
LEMMA AcceptDatabaseKeepsInv == ASSUME IInv, AcceptDatabase PROVE IInv'
<1> USE DEF AcceptDatabase, manager, IInv
<1>1. OnDisk' = OnDisk /\ Existing' = Existing
  BY DEF OnDisk, Existing
<1>2. TypeOK'
  BY DEF TypeOK
<1>3. NothingLost'
  BY <1>1 DEF NothingLost
<1>4. DiskBackedUp' /\ OnItsWay'
  BY DEF DiskBackedUp, Replacing, OnItsWay
<1>5. RunsOnExpectedTables'
  BY DEF RunsOnExpectedTables, Matches, Existing
<1> QED
  BY <1>2, <1>3, <1>4, <1>5

\* What is to be dropped is all that is there.
LEMMA RejectDatabaseKeepsInv == ASSUME IInv, RejectDatabase PROVE IInv'
<1> USE DEF RejectDatabase, IInv
<1>1. OnDisk' = OnDisk /\ Existing' = Existing
  BY DEF OnDisk, Existing
<1>2. TypeOK'
  BY DEF TypeOK, Existing
<1>3. NothingLost' /\ RunsOnExpectedTables'
  BY <1>1 DEF NothingLost, RunsOnExpectedTables
<1>4. DiskBackedUp'
  BY DEF DiskBackedUp, Replacing, OnDisk, Existing
<1>5. OnItsWay'
  BY <1>1 DEF OnItsWay
<1> QED
  BY <1>2, <1>3, <1>4, <1>5

\* From the copy on, the backup has what is on disk.
LEMMA BackUpKeepsInv == ASSUME IInv, BackUp PROVE IInv'
<1> USE DEF BackUp, manager, IInv
<1>1. OnDisk' = OnDisk /\ Existing' = Existing
  BY DEF OnDisk, Existing
<1>2. OnDisk \subseteq Rows
  BY DEF OnDisk, Existing, TypeOK, Table
<1>3. TypeOK'
  BY <1>2 DEF TypeOK
<1>4. NothingLost' /\ DiskBackedUp' /\ RunsOnExpectedTables'
  BY <1>1 DEF NothingLost, DiskBackedUp, RunsOnExpectedTables
<1>5. OnItsWay'
  BY <1>1 DEF OnItsWay
<1> QED
  BY <1>3, <1>4, <1>5

\* A dropped table is in the backup.
LEMMA DropFoundTableKeepsInv == ASSUME IInv, DropFoundTable PROVE IInv'
<1> USE DEF DropFoundTable, IInv
<1>1. CASE \E t \in found :
              /\ tables' = [tables EXCEPT ![t] = NoTable]
              /\ found' = found \ {t}
              /\ pc' = IF found \ {t} = {} THEN "create" ELSE "drop"
              /\ UNCHANGED <<toCreate, disturbed>>
  <2>1. PICK t \in found :
              /\ tables' = [tables EXCEPT ![t] = NoTable]
              /\ found' = found \ {t}
              /\ pc' = IF found \ {t} = {} THEN "create" ELSE "drop"
              /\ UNCHANGED <<toCreate, disturbed>>
    BY <1>1
  <2>2. OnDisk' \subseteq OnDisk /\ Existing' = Existing \ {t}
    BY <2>1, DiskShrinks DEF TypeOK
  <2>3. TypeOK'
    BY <2>1 DEF TypeOK
  <2>4. NothingLost' /\ DiskBackedUp'
    BY <2>1, <2>2 DEF NothingLost, DiskBackedUp, Replacing
  <2>5. OnItsWay'
    BY <2>1, <2>2 DEF OnItsWay
  <2>6. RunsOnExpectedTables'
    BY <2>1 DEF RunsOnExpectedTables
  <2> QED
    BY <2>3, <2>4, <2>5, <2>6
<1>2. CASE UNCHANGED tables /\ pc' = "running" /\ disturbed' = TRUE /\ found' = {} /\ toCreate' = {}
  <2>1. OnDisk' = OnDisk /\ Existing' = Existing
    BY <1>2 DEF OnDisk, Existing
  <2>2. TypeOK'
    BY <1>2 DEF TypeOK
  <2>3. NothingLost' /\ DiskBackedUp' /\ OnItsWay' /\ RunsOnExpectedTables'
    BY <1>2, <2>1 DEF NothingLost, DiskBackedUp, Replacing, OnItsWay, RunsOnExpectedTables
  <2> QED
    BY <2>2, <2>3
<1> QED
  BY <1>1, <1>2

\* A created table has no row, and none was there before.
LEMMA CreateTableKeepsInv == ASSUME IInv, CreateTable PROVE IInv'
<1> USE DEF CreateTable, IInv
<1>1. PICK t \in toCreate : current' = t /\
        \/ /\ tables[t] = NoTable
           /\ tables' = [tables EXCEPT ![t] = NewTable]
           /\ pc' = "index"
           /\ UNCHANGED <<success, disturbed>>
        \/ /\ success' = FALSE
           /\ disturbed' = TRUE
           /\ pc' = "undo"
           /\ UNCHANGED tables
  OBVIOUS
<1>2. t \in Names /\ t \in Tables
  BY DEF TypeOK, Names
<1>3. CASE pc' = "index"
  <2>1. /\ tables[t] = NoTable
        /\ tables' = [tables EXCEPT ![t] = NewTable]
        /\ UNCHANGED <<success, disturbed>>
    BY <1>1, <1>3
  <2>2. OnDisk' = OnDisk /\ Existing' = Existing \cup {t}
    BY <1>2, <2>1, DiskGrows
  <2>3. NewTable \in Table /\ NewTable.expected
    BY DEF NewTable, Table
  <2>4. TypeOK'
    BY <1>1, <1>2, <1>3, <2>1, <2>3 DEF TypeOK
  <2>5. NothingLost' /\ DiskBackedUp'
    BY <1>3, <2>2 DEF NothingLost, DiskBackedUp, Replacing
  <2>6. \A u \in Existing' : tables'[u] = IF u = t THEN NewTable ELSE tables[u]
    BY <1>2, <2>1 DEF TypeOK, Existing
  <2>7. OnItsWay'
    BY <1>1, <1>3, <2>1, <2>2, <2>3, <2>6 DEF OnItsWay
  <2>8. RunsOnExpectedTables'
    BY <1>3 DEF RunsOnExpectedTables
  <2> QED
    BY <2>4, <2>5, <2>7, <2>8
<1>4. CASE pc' = "undo"
  <2>1. UNCHANGED tables /\ disturbed' = TRUE /\ success' = FALSE
    BY <1>1, <1>4
  <2>2. OnDisk' = OnDisk /\ Existing' = Existing
    BY <2>1 DEF OnDisk, Existing
  <2>3. TypeOK'
    BY <1>1, <1>2, <1>4, <2>1 DEF TypeOK
  <2>4. NothingLost' /\ DiskBackedUp' /\ OnItsWay' /\ RunsOnExpectedTables'
    BY <1>4, <2>1, <2>2 DEF NothingLost, DiskBackedUp, Replacing, OnItsWay, RunsOnExpectedTables
  <2> QED
    BY <2>3, <2>4
<1> QED
  BY <1>1, <1>3, <1>4

\* The index leaves the tables alone.
LEMMA IndexTableKeepsInv == ASSUME IInv, IndexTable PROVE IInv'
<1> USE DEF IndexTable, IInv
<1>1. OnDisk' = OnDisk /\ Existing' = Existing /\ UNCHANGED tables
  BY DEF OnDisk, Existing
<1>2. TypeOK'
  BY DEF TypeOK, NextTable
<1>3. NothingLost' /\ DiskBackedUp'
  BY <1>1 DEF NothingLost, DiskBackedUp, Replacing
<1>4. OnItsWay'
  BY <1>1 DEF OnItsWay, NextTable, TypeOK
<1>5. RunsOnExpectedTables'
  <2>1. SUFFICES ASSUME pc' = "running", ~disturbed'
                 PROVE  RunsOnExpectedTables'
    BY DEF RunsOnExpectedTables
  <2>2. toCreate \ {current} = {} /\ ~disturbed
    BY <2>1 DEF NextTable
  <2>3. Existing = Tables
    BY <2>2 DEF OnItsWay, TypeOK
  <2>4. \A t \in Existing : tables[t].expected
    BY <2>2 DEF OnItsWay
  <2> QED
    BY <1>1, <2>3, <2>4 DEF RunsOnExpectedTables, Existing
<1> QED
  BY <1>2, <1>3, <1>4, <1>5

\* Only a disturbed start comes to undo a table.
LEMMA UndoTableKeepsInv == ASSUME IInv, UndoTable PROVE IInv'
<1> USE DEF UndoTable, IInv
<1>1. disturbed' = TRUE
  BY DEF OnItsWay, TypeOK
<1>2. current \in Names /\ current \in Tables
  BY DEF TypeOK, Names
<1>3. OnDisk' \subseteq OnDisk
  <2>1. CASE UNCHANGED tables
    BY <2>1 DEF OnDisk, Existing
  <2> QED
    BY <1>2, <2>1, DiskShrinks
<1>4. TypeOK'
  BY <1>2 DEF TypeOK, NextTable
<1>5. NothingLost' /\ DiskBackedUp'
  BY <1>3 DEF NothingLost, DiskBackedUp, Replacing
<1>6. OnItsWay' /\ RunsOnExpectedTables'
  BY <1>1 DEF OnItsWay, RunsOnExpectedTables, NextTable
<1> QED
  BY <1>4, <1>5, <1>6

\* A row that is served goes to the disk, and only what a manager deletes
\* leaves it.
LEMMA ServeKeepsInv == ASSUME IInv, Serve PROVE IInv'
<1> USE DEF Serve, manager, IInv
<1>1. PICK t \in Existing \cap Tables, gone \in SUBSET Rows, new \in SUBSET Rows :
        /\ tables[t].expected
        /\ tables' = [tables EXCEPT ![t].rows = (@ \ gone) \cup new]
        /\ stored' = (stored \ gone) \cup new
  BY DEF TypeOK, Existing, Table
<1> DEFINE rows == (tables[t].rows \ gone) \cup new
<1>2. tables[t] \in Table /\ t \in Names
  BY DEF TypeOK, Existing
<1>3. tables' = [tables EXCEPT ![t] = [expected |-> TRUE, rows |-> rows]]
  BY <1>1, <1>2 DEF Table
<1>4. [expected |-> TRUE, rows |-> rows] \in Table
  BY <1>2 DEF Table
<1>5. TypeOK'
  BY <1>1, <1>3, <1>4 DEF TypeOK
<1>6. Existing' = Existing
  BY <1>2, <1>3, <1>4, NoTableAssumption DEF TypeOK, Existing
<1>7. (OnDisk \ gone) \cup new \subseteq OnDisk'
  <2>1. tables'[t].rows = rows /\ \A u \in Names \ {t} : tables'[u] = tables[u]
    BY <1>2, <1>3 DEF TypeOK
  <2>2. t \in Existing' /\ new \subseteq tables'[t].rows
    BY <1>6, <2>1
  <2>3. \A u \in Existing : tables[u].rows \ gone \subseteq tables'[u].rows
    BY <2>1 DEF Existing
  <2> QED
    BY <1>6, <2>2, <2>3 DEF OnDisk
<1>8. NothingLost' /\ DiskBackedUp'
  BY <1>1, <1>7 DEF NothingLost, DiskBackedUp, Replacing
<1>9. OnItsWay'
  BY DEF OnItsWay
<1>10. RunsOnExpectedTables'
  BY <1>2, <1>3, <1>4, NoTableAssumption DEF RunsOnExpectedTables, TypeOK
<1> QED
  BY <1>5, <1>8, <1>9, <1>10

\* The files stay when the process stops.
LEMMA StopKeepsInv == ASSUME IInv, Stop PROVE IInv'
<1> USE DEF Stop, IInv
<1>1. OnDisk' = OnDisk /\ Existing' = Existing
  BY DEF OnDisk, Existing
<1>2. TypeOK'
  BY DEF TypeOK
<1>3. NothingLost' /\ DiskBackedUp' /\ OnItsWay' /\ RunsOnExpectedTables'
  BY <1>1 DEF NothingLost, DiskBackedUp, Replacing, OnItsWay, RunsOnExpectedTables
<1> QED
  BY <1>2, <1>3

\* A step of nothing keeps everything.
LEMMA StutterKeepsInv == ASSUME IInv, UNCHANGED vars PROVE IInv'
<1> USE DEF vars, manager, IInv
<1>1. OnDisk' = OnDisk /\ Existing' = Existing
  BY DEF OnDisk, Existing
<1>2. TypeOK'
  BY DEF TypeOK
<1>3. NothingLost' /\ DiskBackedUp' /\ OnItsWay' /\ RunsOnExpectedTables'
  BY <1>1 DEF NothingLost, DiskBackedUp, Replacing, OnItsWay, RunsOnExpectedTables
<1> QED
  BY <1>2, <1>3

\* Every reachable state of ManageDataBase has IInv.
THEOREM InvariantHolds == Spec => []IInv
<1>1. IInv /\ [Next]_vars => IInv'
  BY StartKeepsInv, AcceptDatabaseKeepsInv, RejectDatabaseKeepsInv, BackUpKeepsInv,
     DropFoundTableKeepsInv, CreateTableKeepsInv, IndexTableKeepsInv, UndoTableKeepsInv,
     ServeKeepsInv, StopKeepsInv, StutterKeepsInv
     DEF Next
<1> QED
  BY <1>1, InitInv, PTL DEF Spec

\* ManageDataBase never puts a value of a wrong kind into its variables: every
\* table it drops or creates has a name, a definition and rows.
THEOREM TypeCorrect == Spec => []TypeOK
<1>1. IInv => TypeOK
  BY DEF IInv
<1> QED
  BY <1>1, InvariantHolds, PTL

\* As long as the copies succeed, ManageDataBase loses no row, whatever the
\* tables of the file, the statements that fail, and the number of times the
\* service stops half-way and starts again.
THEOREM NothingIsEverLost == Spec => []NothingLost
<1>1. IInv => NothingLost
  BY DEF IInv
<1> QED
  BY <1>1, InvariantHolds, PTL

\* A start in which nothing fails ends on the expected tables, whatever the
\* file it finds.
THEOREM StartsOnExpectedTables == Spec => []RunsOnExpectedTables
<1>1. IInv => RunsOnExpectedTables
  BY DEF IInv
<1> QED
  BY <1>1, InvariantHolds, PTL

=============================================================================
