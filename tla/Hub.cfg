SPECIFICATION FairSpec
CONSTANTS
    Ids = {id1, id2, id3}
    Configurable = {id2, id3}
    Unregister = TRUE
    Faults = {"lost", "late", "forget", "crash", "config"}
    NoId = NoId
INVARIANTS TypeOK OneRegistrationPerSetting
PROPERTIES ListedAtLast
