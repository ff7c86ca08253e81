SPECIFICATION FairSpec
CONSTANTS
    Workers = {w1, w2}
    OrderIds = {i1}
    FieldIds = {g1, g2}
    Payloads = {p1, bad}
    Uncomputable = {bad}
    ClientDates <- MCDates
    ClientOps = {"PostOrder", "PutOrder", "DeleteOrder"}
    Faults = {}
    RetireAfter = 0
    MaxClock = 1
    NoRow = NoRow
    NoTxn = NoTxn
    NoGuid = NoGuid
    NoRequest = NoRequest
PROPERTIES ExpiredOrdersGo KeepsContract
