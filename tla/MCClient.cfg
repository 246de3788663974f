CONSTANTS
    k1 = k1
    k2 = k2
    x = x
    y = y
    chat = chat
    Key = {k1, k2}
    Conversation = {chat}
    FileCenter = FileCenter
    Content = {x, y}
    Requests <- MCAnyRequests
    Quota = 1
    MaxNested = 2
    DatabaseFails = TRUE
    MembershipChanges = TRUE
    NoticeCategory = {1}
    NoticeQuery <- MCNoticeQuery
    PageSize = 1
    LastOffset = 2
    MaxNotices = 2
    MaxNoticeRequests = 2
    MaxNoticeAudit = 1
    Device = {"d1", "d2"}
    MaxSettingsRevision = 3
    MaxSettingsFrames = 2
SPECIFICATION ClientSpec
INVARIANTS
    UploadsAgree
    ConfirmedIsVisible
    NoticesHaveOneHistory
    PageIsConsistent
    SettingsHaveOneHistory
PROPERTIES
    OthersAreNotOverwritten
    ShownSettingsAdvance
CHECK_DEADLOCK FALSE
