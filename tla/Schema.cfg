SPECIFICATION Spec
CONSTANTS
    Tables = {field, order}
    OldTables = {old}
    Rows = {r1, r2, r3}
    Faults <- MCNoLostCopy
    NoTable = NoTable
SYMMETRY MCSymmetry
INVARIANTS TypeOK NothingLost RunsOnExpectedTables
