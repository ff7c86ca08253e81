SPECIFICATION Spec
CONSTANTS
    Workers = {w1, w2}
    OrderIds = {i1}
    FieldIds = {g1, g2, g3}
    Payloads = {p1, p2, bad}
    Uncomputable = {bad}
    ClientDates <- MCNoDate
    ClientOps = {"PostOrder", "PutOrder", "DeleteOrder"}
    Faults <- MCNoLostField
    RetireAfter = 1
    MaxClock = 0
    NoRow = NoRow
    NoTxn = NoTxn
    NoGuid = NoGuid
    NoRequest = NoRequest
SYMMETRY MCInterchangeable
INVARIANTS TypeOK OrderHasCompletedField
PROPERTIES KeepsContract
