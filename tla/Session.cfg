SPECIFICATION Spec
CONSTANTS
    MaxMessages = 4
    Fragments <- MCFragments
    Broken = {2}
INVARIANTS TypeOK MessagesComeWhole OneSendAtATime
PROPERTIES SessionEnds CallsEnd
CHECK_DEADLOCK FALSE
