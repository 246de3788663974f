\* Every message alone, and up to three of a few in chunks of any size.
SPECIFICATION ConnectionSpec
CONSTANTS
    Messages <- AllMessages
    Together <- FewMessages
    Defects = {"none", "header", "checksum"}
    WireSize = 2
    MaxFrames = 3
    MaxConnections = 2
    Writable <- WritableMessage
    Encoded <- EncodedMessage
    Decoded <- DecodedMessage
    MaxLogins = 3
    d1 = d1
    d2 = d2
    p1 = p1
    p2 = p2
    a1 = a1
    a2 = a2
    x = x
    y = y
    Department = {d1, d2}
    Person = {p1, p2}
    Assignment = {a1, a2}
    General = d1
    Administrator = p1
    Requester = p1
    FirstAssignments <- MCFirstAssignments
    Name = {x, y}
    FirstName = x
    NoRow = NoRow
    Nothing = Nothing
    MaximumDeltaEvents = 4
    MaxRevision = 6
    MaxInFlight = 2
INVARIANTS
    DecodesWhatWasSent
    FramesArriveWhole
    LoginsAgree
    CopiesAreRevisions
    OfferedDeltasApply
PROPERTIES
    SynchronizationEnds
    LoginsEnd
CHECK_DEADLOCK FALSE
