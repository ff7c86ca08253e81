SPECIFICATION FairSpec
CONSTANTS
    Workers = {w1, w2}
    OrderIds = {i1}
    FieldIds = {g1}
    Payloads = {p1}
    Uncomputable = {}
    ClientDates <- MCNoDate
    ClientOps = {"PostField", "PutField", "DeleteField", "PostOrder", "DeleteOrder"}
    Faults = {"lock", "commit", "completed"}
    RetireAfter = 1
    MaxClock = 0
    NoRow = NoRow
    NoTxn = NoTxn
    NoGuid = NoGuid
    NoRequest = NoRequest
PROPERTIES EveryRequestAnswered ExpiredOrdersGo KeepsContract
