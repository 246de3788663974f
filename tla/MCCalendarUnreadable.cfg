\* As many guests as may be invited, and the organizer: one too many to answer.
SPECIFICATION MCSpec
CONSTANTS
    alice = alice
    bob = bob
    carol = carol
    dave = dave
    event = event
    document = document
    group = group
    Person = {alice, bob, carol, dave}
    OrganizationOf <- MCOrganizationOf
    Dismissible = {bob}
    Event = {event}
    Title = {"t1", "t2"}
    InviteLimit = 2
    MaxEventRevision = 3
    Document = {document}
    DocumentName = {"n1", "n2"}
    FolderName = {"f"}
    MaxDocumentRevision = 4
    Group = {group}
    InviteOnly = {}
    MaxPersonIds = 1
    MaxWaiting = 2
    GatewayProcess = {1, 2}
    MaxConversations = 2
    MaxRooms = 2
    Note = {"", "n"}
    MaxContactRevision = 3
    Administrator = {alice, bob}
    Browser = {"w1", "w2"}
    Department = {"x", "y"}
    NoDepartment = "none"
    MaximumFailures = 5
    MaxGuesses = 7
    MaxResets = 1
    MaxRevision = 3
    Caller = {alice, bob}
    Socket = {1, 2, 3}
    CallerAt <- MCCallerAt
    NoSocket = 0
    MayFail = TRUE
    MaxCrashes = 1
INVARIANTS
    CalendarsStayReadable
CHECK_DEADLOCK FALSE
