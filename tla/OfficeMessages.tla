------------------------ MODULE OfficeMessages ------------------------
(***************************************************************************)
(* The application messages of the services around the chats: notices,     *)
(* settings, contacts, file centre, calendar and directory, as in          *)
(* ChatMessages.                                                           *)
(***************************************************************************)
EXTENDS WireTypes

NotificationSummary == [
    notificationId |-> U64, category |-> U32From(7), title |-> Text, summary |-> Text,
    sourceName |-> Text, priority |-> U32, status |-> U32, actorDisplayName |-> Text,
    occurredAtUtcMs |-> U64 ]
encodeNotificationSummaryRecord == Plain(<<
    "notificationId", "category", "title", "summary", "sourceName", "priority", "status",
    "actorDisplayName", "occurredAtUtcMs" >>)
decodeNotificationSummaryRecord == << N64, N32, S(255), S(1000), S(128), N32, N32, S(255), N64 >>

NotificationListRequest == [
    category |-> U32, unreadOnly |-> Bool, searchText |-> Text, offset |-> U32,
    limit |-> U32From(10) ]
encodeNotificationListRequest == Plain(<<
    "category", "unreadOnly", "searchText", "offset", "limit" >>)
decodeNotificationListRequest == << N32, B, S(255), N32, N32 >>

NotificationListResponse == Status @@ [
    notifications |-> Many("NotificationSummary"), totalCount |-> U32, unreadCount |-> U32,
    approvalCount |-> U32, systemCount |-> U32, securityCount |-> U32, mentionCount |-> U32,
    fileCount |-> U32, taskCount |-> U32, otherCount |-> U32 ]
encodeNotificationListResponse == Plain(Reply \o <<
    "notifications", "totalCount", "unreadCount", "approvalCount", "systemCount",
    "securityCount", "mentionCount", "fileCount", "taskCount", "otherCount" >>)
decodeNotificationListResponse == ReplyRules \o <<
    R(MaximumNotificationCount, M("NotificationSummary", 16 * KiB)), N32, N32, N32, N32, N32,
    N32, N32, N32, N32 >>

NotificationDetailField == [ label |-> Text, value |-> Text, emphasized |-> Bool ]
encodeNotificationFieldRecord == Plain(<< "label", "value", "emphasized" >>)
decodeNotificationFieldRecord == << S(128), S(2048), B >>

NotificationAttachment == [
    assetUuid |-> Text, fileName |-> Text, mediaType |-> Text, sizeBytes |-> U64 ]
encodeNotificationAttachmentRecord == Plain(<< "assetUuid", "fileName", "mediaType", "sizeBytes" >>)
decodeNotificationAttachmentRecord == << S(MaximumIdentifierBytes), S(512), S(255), N64 >>

NotificationDetailRequest == [ notificationId |-> U64 ]
encodeNotificationDetailRequest == Plain(<< "notificationId" >>)
decodeNotificationDetailRequest == << N64 >>

NotificationDetailResponse == Status @@ [
    notification |-> One("NotificationSummary"), businessReference |-> Text,
    explanation |-> Text, fields |-> Many("NotificationDetailField"),
    attachments |-> Many("NotificationAttachment") ]
encodeNotificationDetailResponse == Plain(Reply \o <<
    "notification", "businessReference", "explanation", "fields", "attachments" >>)
decodeNotificationDetailResponse == ReplyRules \o <<
    M("NotificationSummary", 16 * KiB), S(255), S(4096),
    R(MaximumNotificationFieldCount, M("NotificationDetailField", 8 * KiB)),
    R(MaximumNotificationAttachmentCount, M("NotificationAttachment", 8 * KiB)) >>

NotificationStatusRequest == [ notificationId |-> U64, action |-> U32From(1) ]
encodeNotificationStatusRequest == Plain(<< "notificationId", "action" >>)
decodeNotificationStatusRequest == << N64, N32 >>

NotificationStatusResponse == Status @@ [
    notificationId |-> U64, status |-> U32, unreadCount |-> U32 ]
encodeNotificationStatusResponse == Plain(Reply \o << "notificationId", "status", "unreadCount" >>)
decodeNotificationStatusResponse == ReplyRules \o << N64, N32, N32 >>

NotificationMarkAllReadRequest == [ category |-> U32 ]
encodeNotificationMarkAllReadRequest == Plain(<< "category" >>)
decodeNotificationMarkAllReadRequest == << N32 >>

NotificationMarkAllReadResponse == Status @@ [ updatedCount |-> U32, unreadCount |-> U32 ]
encodeNotificationMarkAllReadResponse == Plain(Reply \o << "updatedCount", "unreadCount" >>)
decodeNotificationMarkAllReadResponse == ReplyRules \o << N32, N32 >>

UserSettingsProfile == [
    revision |-> U64, twoFactorEnabled |-> Bool, startupEnabled |-> Bool,
    autoLoginEnabled |-> Bool, autoLockMinutes |-> U32, chatWatermarkEnabled |-> Bool,
    screenshotProtectionEnabled |-> Bool, downloadPath |-> Text, language |-> Text,
    theme |-> Text, phoneVisibility |-> U32, emailVisibility |-> U32,
    searchVisibility |-> U32, phoneSearchEnabled |-> Bool, profileSignature |-> Text,
    newMessageNotificationEnabled |-> Bool, notificationSoundEnabled |-> Bool,
    notificationSoundName |-> Text, desktopPopupEnabled |-> Bool, unreadBadgeEnabled |-> Bool,
    mentionNotificationEnabled |-> Bool, groupNotificationLevel |-> U32,
    systemNotificationEnabled |-> Bool, approvalNotificationEnabled |-> Bool,
    fileNotificationEnabled |-> Bool, calendarNotificationEnabled |-> Bool,
    calendarReminderMinutes |-> U32, doNotDisturbEnabled |-> Bool,
    doNotDisturbStartMinutes |-> U32, doNotDisturbEndMinutes |-> U32,
    notificationPreviewMode |-> U32, readReceiptEnabled |-> Bool, enterToSendEnabled |-> Bool,
    messageBubbleDensity |-> U32, primaryColor |-> Text, accentColor |-> Text,
    sidebarStyle |-> U32, cardRadiusMode |-> U32, uiDensity |-> U32, fontSizeMode |-> U32,
    chatBackground |-> Text, messageBubbleStyle |-> U32, contentViewMode |-> U32,
    windowTransparency |-> U32, animationEnabled |-> Bool, animationIntensity |-> U32,
    autoSaveReceivedFiles |-> Bool, recentFileRetentionDays |-> U32,
    autoCacheCleanupEnabled |-> Bool, cacheSizeLimitMb |-> U32, filePreviewMode |-> U32,
    imageAutoCompressEnabled |-> Bool, videoTranscodeMode |-> U32, fileEncryptionMode |-> U32,
    externalWatermarkMode |-> U32, defaultSharePermission |-> U32, syncFolderPath |-> Text,
    echoCancellationEnabled |-> Bool, noiseSuppressionEnabled |-> Bool,
    autoGainControlEnabled |-> Bool, cameraMirrorEnabled |-> Bool,
    videoResolutionMode |-> U32, bandwidthOptimizationEnabled |-> Bool,
    recordingPermissionEnabled |-> Bool, incomingCallWindowPosition |-> U32,
    bluetoothPreferred |-> Bool, callShortcut |-> Text ]
encodeUserSettingsRecord == Plain(<<
    "revision", "twoFactorEnabled", "startupEnabled", "autoLoginEnabled", "autoLockMinutes",
    "chatWatermarkEnabled", "screenshotProtectionEnabled", "downloadPath", "language",
    "theme", "phoneVisibility", "emailVisibility", "searchVisibility", "phoneSearchEnabled",
    "profileSignature", "newMessageNotificationEnabled", "notificationSoundEnabled",
    "notificationSoundName", "desktopPopupEnabled", "unreadBadgeEnabled",
    "mentionNotificationEnabled", "groupNotificationLevel", "systemNotificationEnabled",
    "approvalNotificationEnabled", "fileNotificationEnabled", "calendarNotificationEnabled",
    "calendarReminderMinutes", "doNotDisturbEnabled", "doNotDisturbStartMinutes",
    "doNotDisturbEndMinutes", "notificationPreviewMode", "readReceiptEnabled",
    "enterToSendEnabled", "messageBubbleDensity", "primaryColor", "accentColor",
    "sidebarStyle", "cardRadiusMode", "uiDensity", "fontSizeMode", "chatBackground",
    "messageBubbleStyle", "contentViewMode", "windowTransparency", "animationEnabled",
    "animationIntensity", "autoSaveReceivedFiles", "recentFileRetentionDays",
    "autoCacheCleanupEnabled", "cacheSizeLimitMb", "filePreviewMode",
    "imageAutoCompressEnabled", "videoTranscodeMode", "fileEncryptionMode",
    "externalWatermarkMode", "defaultSharePermission", "syncFolderPath",
    "echoCancellationEnabled", "noiseSuppressionEnabled", "autoGainControlEnabled",
    "cameraMirrorEnabled", "videoResolutionMode", "bandwidthOptimizationEnabled",
    "recordingPermissionEnabled", "incomingCallWindowPosition", "bluetoothPreferred",
    "callShortcut" >>)
decodeUserSettingsRecord == <<
    N64, B, B, B, N32, B, B, S(1024), S(32), S(32), N32, N32, N32, B, S(160), B, B, S(64), B,
    B, B, N32, B, B, B, B, N32, B, N32, N32, N32, B, B, N32, S(16), S(16), N32, N32, N32, N32,
    S(64), N32, N32, N32, B, N32, B, N32, B, N32, N32, B, N32, N32, N32, N32, S(1024), B, B,
    B, B, N32, B, B, N32, B, S(64) >>

SettingsSystemInfo == [
    deviceCount |-> U32, trustedDeviceCount |-> U32, storageUsedBytes |-> U64,
    storageQuotaBytes |-> U64, intranetMode |-> Bool, endToEndEncryptionAvailable |-> Bool,
    certificateStatus |-> Text, transportEncryption |-> Text, cryptoStatus |-> Text,
    productName |-> Text, currentVersion |-> Text, updateDate |-> Text,
    organizationName |-> Text, loginName |-> Text, accountStatusText |-> Text,
    lastLoginAtUtcMs |-> U64, lastLoginDeviceName |-> Text, lastLoginPlatform |-> Text,
    lastLoginSource |-> Text, teamMemberCount |-> U32, storageDocumentBytes |-> U64,
    storageImageBytes |-> U64, storageVideoBytes |-> U64, storageOtherBytes |-> U64,
    syncedFileCount |-> U64, lastFileSyncAtUtcMs |-> U64 ]
encodeSettingsSystemInfoRecord == Plain(<<
    "deviceCount", "trustedDeviceCount", "storageUsedBytes", "storageQuotaBytes",
    "intranetMode", "endToEndEncryptionAvailable", "certificateStatus", "transportEncryption",
    "cryptoStatus", "productName", "currentVersion", "updateDate", "organizationName",
    "loginName", "accountStatusText", "lastLoginAtUtcMs", "lastLoginDeviceName",
    "lastLoginPlatform", "lastLoginSource", "teamMemberCount", "storageDocumentBytes",
    "storageImageBytes", "storageVideoBytes", "storageOtherBytes", "syncedFileCount",
    "lastFileSyncAtUtcMs" >>)
decodeSettingsSystemInfoRecord == <<
    N32, N32, N64, N64, B, B, S(64), S(64), S(64), S(128), S(64), S(32), S(255), S(128),
    S(64), N64, S(255), S(64), S(128), N32, N64, N64, N64, N64, N64, N64 >>

SettingsGetRequest == NoMembers
encodeSettingsGetRequest == Plain(<<>>)
decodeSettingsGetRequest == <<>>

SettingsGetResponse == Status @@ [
    settings |-> One("UserSettingsProfile"), systemInfo |-> One("SettingsSystemInfo") ]
encodeSettingsGetResponse == Plain(Reply \o << "settings", "systemInfo" >>)
decodeSettingsGetResponse == ReplyRules \o <<
    M("UserSettingsProfile", 8 * KiB), M("SettingsSystemInfo", 8 * KiB) >>

SettingsUpdateRequest == [ expectedRevision |-> U64, settings |-> One("UserSettingsProfile") ]
encodeSettingsUpdateRequest == Plain(<< "expectedRevision", "settings" >>)
decodeSettingsUpdateRequest == << N64, M("UserSettingsProfile", 8 * KiB) >>

SettingsUpdateResponse == Status @@ [ settings |-> One("UserSettingsProfile") ]
encodeSettingsUpdateResponse == Plain(Reply \o << "settings" >>)
decodeSettingsUpdateResponse == ReplyRules \o << M("UserSettingsProfile", 8 * KiB) >>

SettingsResetRequest == [ expectedRevision |-> U64 ]
encodeSettingsResetRequest == Plain(<< "expectedRevision" >>)
decodeSettingsResetRequest == << N64 >>

SettingsResetResponse == Status @@ [ settings |-> One("UserSettingsProfile") ]
encodeSettingsResetResponse == Plain(Reply \o << "settings" >>)
decodeSettingsResetResponse == ReplyRules \o << M("UserSettingsProfile", 8 * KiB) >>

ContactSummary == [
    personId |-> U64, displayName |-> Text, avatarResourceId |-> Text, presenceState |-> U32,
    favorite |-> Bool, lastInteractionAtUtcMs |-> U64, interactionCount |-> U32 ]
encodeContactSummaryRecord == Plain(<<
    "personId", "displayName", "avatarResourceId", "presenceState", "favorite",
    "lastInteractionAtUtcMs", "interactionCount" >>)
decodeContactSummaryRecord == << N64, S(255), S(255), N32, B, N64, N32 >>

ContactGroupPreview == [ groupId |-> U64, name |-> Text, groupType |-> U32 ]
encodeContactGroupRecord == Plain(<< "groupId", "name", "groupType" >>)
decodeContactGroupRecord == << N64, S(255), N32 >>

ContactDetail == [
    personId |-> U64, displayName |-> Text, avatarResourceId |-> Text,
    employeeNumber |-> Text, workPhone |-> Text, extensionNumber |-> Text, workEmail |-> Text,
    departmentName |-> Text, positionName |-> Text, officeLocation |-> Text,
    managerPersonId |-> U64, managerName |-> Text, presenceState |-> U32, favorite |-> Bool,
    revision |-> U64, note |-> Text, tags |-> Many("text"),
    groups |-> Many("ContactGroupPreview") ]
encodeContactDetailRecord == Counted(<<
    "personId", "displayName", "avatarResourceId", "employeeNumber", "workPhone",
    "extensionNumber", "workEmail", "departmentName", "positionName", "officeLocation",
    "managerPersonId", "managerName", "presenceState", "favorite", "revision", "note", "tags",
    "groups" >>,
    [tags |-> MaximumContactTagCount, groups |-> MaximumContactGroupCount])
decodeContactDetailRecord == <<
    N64, S(255), S(255), S(64), S(64), S(32), S(255), S(255), S(255), S(255), N64, S(255),
    N32, B, N64, S(512), R(MaximumContactTagCount, S(64)),
    R(MaximumContactGroupCount, M("ContactGroupPreview", MaximumDirectoryRecordBytes)) >>

ContactCenterRequest == NoMembers
encodeContactCenterRequest == Plain(<<>>)
decodeContactCenterRequest == <<>>

ContactCenterResponse == Status @@ [
    recentContacts |-> Many("ContactSummary"), favoriteContacts |-> Many("ContactSummary") ]
encodeContactCenterResponse == Counted(Reply \o << "recentContacts", "favoriteContacts" >>,
    [recentContacts |-> MaximumContactSummaryCount,
        favoriteContacts |-> MaximumContactSummaryCount])
decodeContactCenterResponse == ReplyRules \o <<
    R(MaximumContactSummaryCount, M("ContactSummary", MaximumDirectoryRecordBytes)),
    R(MaximumContactSummaryCount, M("ContactSummary", MaximumDirectoryRecordBytes)) >>

ContactDetailRequest == [ contactPersonId |-> U64 ]
encodeContactDetailRequest == Plain(<< "contactPersonId" >>)
decodeContactDetailRequest == << N64 >>

ContactDetailResponse == Status @@ [ detail |-> One("ContactDetail") ]
encodeContactDetailResponse == Plain(Reply \o << "detail" >>)
decodeContactDetailResponse == ReplyRules \o << M("ContactDetail", 64 * KiB) >>

ContactPreferenceUpdateRequest == [
    contactPersonId |-> U64, expectedRevision |-> U64, favorite |-> Bool, note |-> Text,
    tags |-> Many("text") ]
encodeContactPreferenceUpdateRequest == Counted(<<
    "contactPersonId", "expectedRevision", "favorite", "note", "tags" >>,
    [tags |-> MaximumContactTagCount])
decodeContactPreferenceUpdateRequest == << N64, N64, B, S(512), R(MaximumContactTagCount, S(64)) >>

ContactPreferenceUpdateResponse == Status @@ [ detail |-> One("ContactDetail") ]
encodeContactPreferenceUpdateResponse == Plain(Reply \o << "detail" >>)
decodeContactPreferenceUpdateResponse == ReplyRules \o << M("ContactDetail", 64 * KiB) >>

FileCenterItem == [
    itemUuid |-> Text, kind |-> U32From(2), name |-> Text, assetUuid |-> Text,
    mediaType |-> Text, category |-> U32From(7), sizeBytes |-> U64, ownerPersonId |-> U64,
    ownerDisplayName |-> Text, location |-> Text, modifiedAtUtcMs |-> U64, favorite |-> Bool,
    deleted |-> Bool, sharedCount |-> U32, revision |-> U64, securityStatus |-> U32 ]
encodeFileCenterItemRecord == Plain(<<
    "itemUuid", "kind", "name", "assetUuid", "mediaType", "category", "sizeBytes",
    "ownerPersonId", "ownerDisplayName", "location", "modifiedAtUtcMs", "favorite", "deleted",
    "sharedCount", "revision", "securityStatus" >>)
decodeFileCenterItemRecord == <<
    S(MaximumIdentifierBytes), N32, S(512), S(MaximumIdentifierBytes), S(255), N32, N64, N64,
    S(255), S(1024), N64, B, B, N32, N64, N32 >>

FileCenterVersion == [
    versionNumber |-> U32, assetUuid |-> Text, sizeBytes |-> U64,
    createdByDisplayName |-> Text, createdAtUtcMs |-> U64, current |-> Bool ]
encodeFileCenterVersionRecord == Plain(<<
    "versionNumber", "assetUuid", "sizeBytes", "createdByDisplayName", "createdAtUtcMs",
    "current" >>)
decodeFileCenterVersionRecord == << N32, S(MaximumIdentifierBytes), N64, S(255), N64, B >>

FileCenterPermission == [ personId |-> U64, displayName |-> Text, permission |-> U32 ]
encodeFileCenterPermissionRecord == Plain(<< "personId", "displayName", "permission" >>)
decodeFileCenterPermissionRecord == << N64, S(255), N32 >>

FileCenterDetail == [
    item |-> One("FileCenterItem"), createdAtUtcMs |-> U64, sha256Hex |-> Text,
    versions |-> Many("FileCenterVersion"), permissions |-> Many("FileCenterPermission") ]
encodeFileCenterDetailRecord == Counted(<<
    "item", "createdAtUtcMs", "sha256Hex", "versions", "permissions" >>,
    [versions |-> MaximumFileCenterVersionCount, permissions |-> MaximumFileCenterPermissionCount])
decodeFileCenterDetailRecord == <<
    M("FileCenterItem", 16 * KiB), N64, S(128),
    R(MaximumFileCenterVersionCount, M("FileCenterVersion", 8 * KiB)),
    R(MaximumFileCenterPermissionCount, M("FileCenterPermission", 8 * KiB)) >>

FileCenterListRequest == [
    scope |-> U32, category |-> U32, searchText |-> Text, offset |-> U32,
    limit |-> U32From(20) ]
encodeFileCenterListRequest == Plain(<< "scope", "category", "searchText", "offset", "limit" >>)
decodeFileCenterListRequest == << N32, N32, S(255), N32, N32 >>

FileCenterListResponse == Status @@ [
    items |-> Many("FileCenterItem"), totalCount |-> U32, usedBytes |-> U64,
    quotaBytes |-> U64, documentBytes |-> U64, imageBytes |-> U64, videoBytes |-> U64,
    otherBytes |-> U64 ]
encodeFileCenterListResponse == Counted(Reply \o <<
    "items", "totalCount", "usedBytes", "quotaBytes", "documentBytes", "imageBytes",
    "videoBytes", "otherBytes" >>,
    [items |-> MaximumFileCenterItemCount])
decodeFileCenterListResponse == ReplyRules \o <<
    R(MaximumFileCenterItemCount, M("FileCenterItem", 16 * KiB)), N32, N64, N64, N64, N64,
    N64, N64 >>

FileCenterDetailRequest == [ itemUuid |-> Text ]
encodeFileCenterDetailRequest == Plain(<< "itemUuid" >>)
decodeFileCenterDetailRequest == << S(MaximumIdentifierBytes) >>

FileCenterDetailResponse == Status @@ [ detail |-> One("FileCenterDetail") ]
encodeFileCenterDetailResponse == Plain(Reply \o << "detail" >>)
decodeFileCenterDetailResponse == ReplyRules \o << M("FileCenterDetail", 128 * KiB) >>

FileCenterFolderCreateRequest == [ parentFolderUuid |-> Text, name |-> Text ]
encodeFileCenterFolderCreateRequest == Plain(<< "parentFolderUuid", "name" >>)
decodeFileCenterFolderCreateRequest == << S(MaximumIdentifierBytes), S(255) >>

FileCenterFolderCreateResponse == Status @@ [ folder |-> One("FileCenterItem") ]
encodeFileCenterFolderCreateResponse == Plain(Reply \o << "folder" >>)
decodeFileCenterFolderCreateResponse == ReplyRules \o << M("FileCenterItem", 16 * KiB) >>

FileCenterUpdateRequest == [
    documentUuid |-> Text, expectedRevision |-> U64, action |-> U32From(1),
    desiredFavorite |-> Bool, value |-> Text, targetPersonId |-> U64, permission |-> U32 ]
encodeFileCenterUpdateRequest == Plain(<<
    "documentUuid", "expectedRevision", "action", "desiredFavorite", "value",
    "targetPersonId", "permission" >>)
decodeFileCenterUpdateRequest == << S(MaximumIdentifierBytes), N64, N32, B, S(512), N64, N32 >>

FileCenterUpdateResponse == Status @@ [ detail |-> One("FileCenterDetail") ]
encodeFileCenterUpdateResponse == Plain(Reply \o << "detail" >>)
decodeFileCenterUpdateResponse == ReplyRules \o << M("FileCenterDetail", 128 * KiB) >>

CalendarParticipant == [
    personId |-> U64, displayName |-> Text, avatarResourceId |-> Text, status |-> U32 ]
encodeCalendarParticipantRecord == Plain(<<
    "personId", "displayName", "avatarResourceId", "status" >>)
decodeCalendarParticipantRecord == << N64, S(255), S(512), N32 >>

CalendarEvent == [
    eventUuid |-> Text, title |-> Text, description |-> Text, location |-> Text,
    calendarName |-> Text, kind |-> U32From(1), color |-> TextFrom(7),
    organizerPersonId |-> U64, organizerDisplayName |-> Text, startsAtUtcMs |-> U64,
    endsAtUtcMs |-> U64, allDay |-> Bool, cancelled |-> Bool, meetingNumber |-> Text,
    reminderMinutes |-> U32From(15), revision |-> U64, editable |-> Bool,
    participants |-> Many("CalendarParticipant") ]
encodeCalendarEventRecord == Counted(<<
    "eventUuid", "title", "description", "location", "calendarName", "kind", "color",
    "organizerPersonId", "organizerDisplayName", "startsAtUtcMs", "endsAtUtcMs", "allDay",
    "cancelled", "meetingNumber", "reminderMinutes", "revision", "editable", "participants" >>,
    [participants |-> MaximumCalendarParticipantCount])
decodeCalendarEventRecord == <<
    S(MaximumIdentifierBytes), S(255), S(2048), S(512), S(128), N32, S(16), N64, S(255), N64,
    N64, B, B, S(64), N32, N64, B,
    R(MaximumCalendarParticipantCount, M("CalendarParticipant", MaximumDirectoryRecordBytes)) >>

CalendarListRequest == [
    rangeStartUtcMs |-> U64, rangeEndUtcMs |-> U64, includeCancelled |-> Bool,
    remindersOnly |-> Bool ]
encodeCalendarListRequest == Plain(<<
    "rangeStartUtcMs", "rangeEndUtcMs", "includeCancelled", "remindersOnly" >>)
decodeCalendarListRequest == << N64, N64, B, B >>

CalendarListResponse == Status @@ [ events |-> Many("CalendarEvent") ]
encodeCalendarListResponse == Counted(Reply \o << "events" >>,
    [events |-> MaximumCalendarEventCount])
decodeCalendarListResponse == ReplyRules \o <<
    R(MaximumCalendarEventCount, M("CalendarEvent", 64 * KiB)) >>

CalendarCreateRequest == [
    title |-> Text, description |-> Text, location |-> Text, calendarName |-> Text,
    kind |-> U32From(1), color |-> TextFrom(7), startsAtUtcMs |-> U64, endsAtUtcMs |-> U64,
    allDay |-> Bool, conferenceEnabled |-> Bool, reminderMinutes |-> U32From(15),
    participantLoginNames |-> Many("text") ]
encodeCalendarCreateRequest == Counted(<<
    "title", "description", "location", "calendarName", "kind", "color", "startsAtUtcMs",
    "endsAtUtcMs", "allDay", "conferenceEnabled", "reminderMinutes", "participantLoginNames" >>,
    [participantLoginNames |-> MaximumCalendarParticipantCount])
decodeCalendarCreateRequest == <<
    S(255), S(2048), S(512), S(128), N32, S(16), N64, N64, B, B, N32,
    R(MaximumCalendarParticipantCount, S(MaximumLoginNameBytes)) >>

CalendarUpdateRequest == [
    eventUuid |-> Text, expectedRevision |-> U64, event |-> One("CalendarCreateRequest") ]
encodeCalendarUpdateRequest == Plain(<< "eventUuid", "expectedRevision", "event" >>)
decodeCalendarUpdateRequest == <<
    S(MaximumIdentifierBytes), N64, M("CalendarCreateRequest", 64 * KiB) >>

CalendarDeleteRequest == [ eventUuid |-> Text, expectedRevision |-> U64 ]
encodeCalendarDeleteRequest == Plain(<< "eventUuid", "expectedRevision" >>)
decodeCalendarDeleteRequest == << S(MaximumIdentifierBytes), N64 >>

CalendarMutationResponse == Status @@ [ event |-> One("CalendarEvent") ]
encodeCalendarMutationResponse == Plain(Reply \o << "event" >>)
decodeCalendarMutationResponse == ReplyRules \o << M("CalendarEvent", 64 * KiB) >>

DirectorySnapshotRequest == [ knownRevision |-> U64 ]
encodeDirectorySnapshotRequest == Plain(<< "knownRevision" >>)
decodeDirectorySnapshotRequest == << N64 >>

DirectoryOrganization == [
    id |-> U64, code |-> Text, name |-> Text, parentOrganizationId |-> U64, revision |-> U64,
    enabled |-> Bool ]
encodeDirectoryOrganization == Plain(<<
    "id", "code", "name", "parentOrganizationId", "revision", "enabled" >>)
decodeDirectoryOrganization == << N64, S(64), S(MaximumFriendlyTextBytes), N64, N64, B >>

DirectoryDepartment == [
    id |-> U64, organizationId |-> U64, parentDepartmentId |-> U64, code |-> Text,
    name |-> Text, shortName |-> Text, sortOrder |-> I32, enabled |-> Bool ]
encodeDirectoryDepartment == Plain(<<
    "id", "organizationId", "parentDepartmentId", "code", "name", "shortName", "sortOrder",
    "enabled" >>)
decodeDirectoryDepartment == <<
    N64, N64, N64, S(64), S(MaximumFriendlyTextBytes), S(128), N32s, B >>

DirectoryPosition == [ id |-> U64, code |-> Text, name |-> Text, sortOrder |-> I32 ]
encodeDirectoryPosition == Plain(<< "id", "code", "name", "sortOrder" >>)
decodeDirectoryPosition == << N64, S(64), S(MaximumFriendlyTextBytes), N32s >>

DirectoryPerson == [
    id |-> U64, employeeNumber |-> Text, displayName |-> Text, avatarResourceId |-> Text,
    workPhone |-> Text, extensionNumber |-> Text, workEmail |-> Text,
    primaryDepartmentId |-> U64, primaryPositionId |-> U64, enabled |-> Bool,
    presenceState |-> U32 ]
encodeDirectoryPerson == Plain(<<
    "id", "employeeNumber", "displayName", "avatarResourceId", "workPhone", "extensionNumber",
    "workEmail", "primaryDepartmentId", "primaryPositionId", "enabled", "presenceState" >>)
decodeDirectoryPerson == <<
    N64, S(64), S(MaximumFriendlyTextBytes), S(MaximumFriendlyTextBytes), S(64), S(32),
    S(MaximumFriendlyTextBytes), N64, N64, B, N32 >>

DirectoryAssignment == [
    id |-> U64, personId |-> U64, departmentId |-> U64, positionId |-> U64,
    primaryAssignment |-> Bool, sortOrder |-> I32 ]
encodeDirectoryAssignment == Plain(<<
    "id", "personId", "departmentId", "positionId", "primaryAssignment", "sortOrder" >>)
decodeDirectoryAssignment == << N64, N64, N64, N64, B, N32s >>

DirectorySnapshotResponse == Status @@ [
    revision |-> U64, organizations |-> Many("DirectoryOrganization"),
    departments |-> Many("DirectoryDepartment"), positions |-> Many("DirectoryPosition"),
    people |-> Many("DirectoryPerson"), assignments |-> Many("DirectoryAssignment") ]
encodeDirectorySnapshotResponse == Plain(Reply \o <<
    "revision", "", "", "", "", "", "organizations", "departments", "positions", "people",
    "assignments" >>)
decodeDirectorySnapshotResponse == ReplyRules \o <<
    N64, Gap, Gap, Gap, Gap, Gap,
    R(MaximumDirectoryRecordCount, M("DirectoryOrganization", MaximumDirectoryRecordBytes)),
    R(MaximumDirectoryRecordCount, M("DirectoryDepartment", MaximumDirectoryRecordBytes)),
    R(MaximumDirectoryRecordCount, M("DirectoryPosition", MaximumDirectoryRecordBytes)),
    R(MaximumDirectoryRecordCount, M("DirectoryPerson", MaximumDirectoryRecordBytes)),
    R(MaximumDirectoryRecordCount, M("DirectoryAssignment", MaximumDirectoryRecordBytes)) >>

DirectoryDeltaRequest == [ fromRevisionExclusive |-> U64 ]
encodeDirectoryDeltaRequest == Plain(<< "fromRevisionExclusive" >>)
decodeDirectoryDeltaRequest == << N64 >>

DirectoryChange == [
    revision |-> U64, type |-> U32, entityId |-> U64,
    organization |-> Opt("DirectoryOrganization"), department |-> Opt("DirectoryDepartment"),
    position |-> Opt("DirectoryPosition"), person |-> Opt("DirectoryPerson"),
    assignment |-> Opt("DirectoryAssignment") ]
encodeDirectoryChange == Plain(<<
    "revision", "type", "entityId", "", "", "", "", "", "", "organization", "department",
    "position", "person", "assignment" >>)
decodeDirectoryChange == <<
    N64, N32, N64, Gap, Gap, Gap, Gap, Gap, Gap,
    M("DirectoryOrganization", MaximumDirectoryRecordBytes),
    M("DirectoryDepartment", MaximumDirectoryRecordBytes),
    M("DirectoryPosition", MaximumDirectoryRecordBytes),
    M("DirectoryPerson", MaximumDirectoryRecordBytes),
    M("DirectoryAssignment", MaximumDirectoryRecordBytes) >>

DirectoryDeltaResponse == Status @@ [
    fromRevision |-> U64, currentRevision |-> U64, fullSnapshotRequired |-> Bool,
    changes |-> Many("DirectoryChange") ]
encodeDirectoryDeltaResponse == Counted(Reply \o <<
    "fromRevision", "currentRevision", "fullSnapshotRequired", "", "", "", "changes" >>,
    [changes |-> MaximumDirectoryDeltaCount])
decodeDirectoryDeltaResponse == ReplyRules \o <<
    N64, N64, B, Gap, Gap, Gap,
    R(MaximumDirectoryDeltaCount, M("DirectoryChange", MaximumDirectoryRecordBytes)) >>

=============================================================================
