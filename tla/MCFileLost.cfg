CONSTANTS
    k1 = k1
    k2 = k2
    x = x
    y = y
    chat = chat
    Key = {k1, k2}
    Conversation = {chat}
    FileCenter = FileCenter
    Content = {x, y}
    Requests <- MCFaithfulRequests
    Quota = 1
    MaxNested = 2
    DatabaseFails = TRUE
    MembershipChanges = FALSE
SPECIFICATION UploadSpec
INVARIANTS
    VisibleFileKeepsObject
CHECK_DEADLOCK FALSE
