SPECIFICATION Spec
CONSTANTS
    Ids = {i1, i2}
    Contents = {a, b, p, far, off}
    Points = {p, far}
    Invalid = {far, off}
    Tasks = {t1, t2}
    MaxAbandoned = 1
    Others = {a, Absent}
    Absent = Absent
    NoCall = NoCall
    NoId = NoId
    Default = a
    Drafts = {b, off}
    NoOrder = NoOrder
    NoEditor = NoEditor
    NoGravity = NoGravity
    NoResult = NoResult
SYMMETRY MCInterchangeable
INVARIANTS TypeOK CleanWasStored OnlyConfirmedAreDeleted TemporaryOrdersGo
