SPECIFICATION Spec
CONSTANTS
    Workers = {w1}
    OrderIds = {i1}
    FieldIds = {g1, g2}
    Payloads = {p1, bad}
    Uncomputable = {bad}
    ClientDates = {0}
    ClientOps = {"PostField", "PutField"}
    Faults = {}
    RetireAfter = 1
    MaxClock = 0
    NoRow = NoRow
    NoTxn = NoTxn
    NoGuid = NoGuid
    NoRequest = NoRequest
SYMMETRY MCInterchangeable
INVARIANTS FilterMatchesState
