------------------------ MODULE ChatMessages ------------------------
(***************************************************************************)
(* The application messages of a session and its chats: login, heartbeat,  *)
(* conversations, messages and receipts, groups, files and conferences.  For*)
(* each message its members and their defaults (ApplicationMessages.h), the*)
(* members its encoder writes, by field number, and the rule its decoder   *)
(* reads each number with (ApplicationMessages.cpp).                       *)
(***************************************************************************)
EXTENDS WireTypes

LoginRequest == [
    loginName |-> Text, password |-> Text, deviceUuid |-> Text, deviceName |-> Text,
    platform |-> Text ]
encodeLoginRequest == Plain(<< "loginName", "password", "deviceUuid", "deviceName", "platform" >>)
decodeLoginRequest == <<
    S(MaximumLoginNameBytes), S(MaximumPasswordBytes), S(MaximumIdentifierBytes),
    S(MaximumFriendlyTextBytes), S(64) >>

LoginResponse == Status @@ [
    accountId |-> U64, personId |-> U64, deviceId |-> U64, sessionId |-> U64,
    displayName |-> Text ]
encodeLoginResponse == Plain(Reply \o <<
    "accountId", "personId", "deviceId", "sessionId", "displayName" >>)
decodeLoginResponse == ReplyRules \o << N64, N64, N64, N64, S(MaximumFriendlyTextBytes) >>

HeartbeatPing == [ continuousReceivedSequence |-> U64 ]
encodeHeartbeatPing == Plain(<< "continuousReceivedSequence" >>)
decodeHeartbeatPing == << N64 >>

HeartbeatPong == [ serverTimeUtcMs |-> U64 ]
encodeHeartbeatPong == Plain(<< "serverTimeUtcMs" >>)
decodeHeartbeatPong == << N64 >>

DirectConversationRequest == [ peerPersonId |-> U64 ]
encodeDirectConversationRequest == Plain(<< "peerPersonId" >>)
decodeDirectConversationRequest == << N64 >>

DirectConversationResponse == Status @@ [ conversationId |-> U64, peerPersonId |-> U64 ]
encodeDirectConversationResponse == Plain(Reply \o << "conversationId", "peerPersonId" >>)
decodeDirectConversationResponse == ReplyRules \o << N64, N64 >>

SendMessageRequest == [
    conversationId |-> U64, clientMessageId |-> Text, kind |-> U32From(1), content |-> Text ]
encodeSendMessageRequest == Plain(<< "conversationId", "clientMessageId", "kind", "content" >>)
\* Mutant: the conversation id is read as 32 bits.
decodeSendMessageRequestNarrow == << N32, S(MaximumIdentifierBytes), N32, S(MaximumMessageContentBytes) >>
decodeSendMessageRequest == << N64, S(MaximumIdentifierBytes), N32, S(MaximumMessageContentBytes) >>

SendMessageResponse == Status @@ [
    clientMessageId |-> Text, serverMessageId |-> Text, conversationId |-> U64,
    conversationSequence |-> U64, acceptedAtUtcMs |-> U64 ]
encodeSendMessageResponse == Plain(Reply \o <<
    "clientMessageId", "serverMessageId", "conversationId", "conversationSequence",
    "acceptedAtUtcMs" >>)
decodeSendMessageResponse == ReplyRules \o <<
    S(MaximumIdentifierBytes), S(MaximumIdentifierBytes), N64, N64, N64 >>

DirectMessagePush == [
    serverMessageId |-> Text, clientMessageId |-> Text, conversationId |-> U64,
    conversationSequence |-> U64, senderPersonId |-> U64, recipientPersonId |-> U64,
    kind |-> U32From(1), content |-> Text, createdAtUtcMs |-> U64 ]
encodeDirectMessagePush == Plain(<<
    "serverMessageId", "clientMessageId", "conversationId", "conversationSequence",
    "senderPersonId", "recipientPersonId", "kind", "content", "createdAtUtcMs" >>)
decodeDirectMessagePush == <<
    S(MaximumIdentifierBytes), S(MaximumIdentifierBytes), N64, N64, N64, N64, N32,
    S(MaximumMessageContentBytes), N64 >>

MessageHistoryRequest == [ conversationId |-> U64, beforeSequence |-> U64, limit |-> U32From(50) ]
encodeMessageHistoryRequest == Plain(<< "conversationId", "beforeSequence", "limit" >>)
decodeMessageHistoryRequest == << N64, N64, N32 >>

MessageHistoryResponse == Status @@ [
    conversationId |-> U64, messages |-> Many("DirectMessagePush"), hasMore |-> Bool ]
encodeMessageHistoryResponse == Plain(Reply \o << "conversationId", "messages", "hasMore" >>)
decodeMessageHistoryResponse == ReplyRules \o <<
    N64, R(MaximumHistoryCount, M("DirectMessagePush", MaximumMessageContentBytes + 2048)), B >>

ConversationSummary == [
    conversationId |-> U64, peerPersonId |-> U64, displayName |-> Text,
    lastMessagePreview |-> Text, lastActivityUtcMs |-> U64, unreadCount |-> U32,
    pinned |-> Bool, muted |-> Bool, lastMessageSequence |-> U64, lastReadSequence |-> U64 ]
encodeConversationSummaryRecord == Plain(<<
    "conversationId", "peerPersonId", "displayName", "lastMessagePreview",
    "lastActivityUtcMs", "unreadCount", "pinned", "muted", "lastMessageSequence",
    "lastReadSequence" >>)
decodeConversationSummaryRecord == <<
    N64, N64, S(MaximumFriendlyTextBytes), S(MaximumFriendlyTextBytes), N64, N32, B, B, N64,
    N64 >>

ConversationListRequest == [ limit |-> U32From(200) ]
encodeConversationListRequest == Plain(<< "limit" >>)
decodeConversationListRequest == << N32 >>

ConversationListResponse == Status @@ [ conversations |-> Many("ConversationSummary") ]
encodeConversationListResponse == Plain(Reply \o << "conversations" >>)
decodeConversationListResponse == ReplyRules \o <<
    R(MaximumConversationCount, M("ConversationSummary", MaximumDirectoryRecordBytes)) >>

ConversationPreferenceRequest == [ conversationId |-> U64, pinned |-> Bool, muted |-> Bool ]
encodeConversationPreferenceRequest == Plain(<< "conversationId", "pinned", "muted" >>)
decodeConversationPreferenceRequest == << N64, B, B >>

ConversationPreferenceResponse == Status @@ [
    conversationId |-> U64, pinned |-> Bool, muted |-> Bool ]
encodeConversationPreferenceResponse == Plain(Reply \o << "conversationId", "pinned", "muted" >>)
decodeConversationPreferenceResponse == ReplyRules \o << N64, B, B >>

GroupSummary == [
    groupId |-> U64, conversationId |-> U64, groupCode |-> Text, name |-> Text, type |-> U32,
    memberCount |-> U32, lastMessagePreview |-> Text, lastActivityUtcMs |-> U64,
    unreadCount |-> U32, activityScore |-> U32, tags |-> Many("text"), owner |-> Bool,
    administrator |-> Bool, pinned |-> Bool, favorite |-> Bool ]
encodeGroupSummaryRecord == Plain(<<
    "groupId", "conversationId", "groupCode", "name", "type", "memberCount",
    "lastMessagePreview", "lastActivityUtcMs", "unreadCount", "activityScore", "tags",
    "owner", "administrator", "pinned", "favorite" >>)
decodeGroupSummaryRecord == <<
    N64, N64, S(32), S(255), N32, N32, S(MaximumFriendlyTextBytes), N64, N32, N32,
    R(MaximumGroupTagCount, S(64)), B, B, B, B >>

GroupMemberInfo == [
    personId |-> U64, displayName |-> Text, departmentName |-> Text, positionName |-> Text,
    avatarResourceId |-> Text, role |-> U32, joinedAtUtcMs |-> U64 ]
encodeGroupMemberRecord == Plain(<<
    "personId", "displayName", "departmentName", "positionName", "avatarResourceId", "role",
    "joinedAtUtcMs" >>)
decodeGroupMemberRecord == << N64, S(255), S(255), S(255), S(512), N32, N64 >>

GroupFileInfo == [
    assetUuid |-> Text, fileName |-> Text, mediaType |-> Text, sizeBytes |-> U64,
    ownerDisplayName |-> Text, createdAtUtcMs |-> U64 ]
encodeGroupFileRecord == Plain(<<
    "assetUuid", "fileName", "mediaType", "sizeBytes", "ownerDisplayName", "createdAtUtcMs" >>)
decodeGroupFileRecord == << S(MaximumIdentifierBytes), S(512), S(255), N64, S(255), N64 >>

GroupListRequest == [ filter |-> U32, searchText |-> Text, limit |-> U32From(200) ]
encodeGroupListRequest == Plain(<< "filter", "searchText", "limit" >>)
decodeGroupListRequest == << N32, S(255), N32 >>

GroupListResponse == Status @@ [
    groups |-> Many("GroupSummary"), totalCount |-> U32, managedCount |-> U32,
    activeTodayCount |-> U32, unreadCount |-> U32 ]
encodeGroupListResponse == Plain(Reply \o <<
    "groups", "totalCount", "managedCount", "activeTodayCount", "unreadCount" >>)
decodeGroupListResponse == ReplyRules \o <<
    R(MaximumGroupCount, M("GroupSummary", 16 * KiB)), N32, N32, N32, N32 >>

GroupDetailRequest == [ groupId |-> U64 ]
encodeGroupDetailRequest == Plain(<< "groupId" >>)
decodeGroupDetailRequest == << N64 >>

GroupDetailResponse == Status @@ [
    group |-> One("GroupSummary"), ownerDisplayName |-> Text, announcement |-> Text,
    createdAtUtcMs |-> U64, members |-> Many("GroupMemberInfo"),
    files |-> Many("GroupFileInfo") ]
encodeGroupDetailResponse == Plain(Reply \o <<
    "group", "ownerDisplayName", "announcement", "createdAtUtcMs", "members", "files" >>)
decodeGroupDetailResponse == ReplyRules \o <<
    M("GroupSummary", 16 * KiB), S(255), S(4096), N64,
    R(MaximumGroupMemberCount, M("GroupMemberInfo", 16 * KiB)),
    R(MaximumGroupFileCount, M("GroupFileInfo", 16 * KiB)) >>

GroupCreateRequest == [
    name |-> Text, type |-> U32, announcement |-> Text, tags |-> Many("text"),
    memberPersonIds |-> Many("u64") ]
encodeGroupCreateRequest == Plain(<< "name", "type", "announcement", "tags", "memberPersonIds" >>)
decodeGroupCreateRequest == <<
    S(255), N32, S(4096), R(MaximumGroupTagCount, S(64)), R(MaximumGroupMemberCount, N64) >>

GroupCreateResponse == Status @@ [ group |-> One("GroupSummary") ]
encodeGroupCreateResponse == Plain(Reply \o << "group" >>)
decodeGroupCreateResponse == ReplyRules \o << M("GroupSummary", 16 * KiB) >>

GroupJoinRequest == [ groupCode |-> Text ]
encodeGroupJoinRequest == Plain(<< "groupCode" >>)
decodeGroupJoinRequest == << S(32) >>

GroupJoinResponse == Status @@ [ group |-> One("GroupSummary") ]
encodeGroupJoinResponse == Plain(Reply \o << "group" >>)
decodeGroupJoinResponse == ReplyRules \o << M("GroupSummary", 16 * KiB) >>

GroupMemberUpdateRequest == [ groupId |-> U64, action |-> U32From(1), personIds |-> Many("u64") ]
encodeGroupMemberUpdateRequest == Plain(<< "groupId", "action", "personIds" >>)
decodeGroupMemberUpdateRequest == << N64, N32, R(MaximumGroupMemberCount, N64) >>

GroupMemberUpdateResponse == Status @@ [
    groupId |-> U64, updatedCount |-> U32, members |-> Many("GroupMemberInfo") ]
encodeGroupMemberUpdateResponse == Plain(Reply \o << "groupId", "updatedCount", "members" >>)
decodeGroupMemberUpdateResponse == ReplyRules \o <<
    N64, N32, R(MaximumGroupMemberCount, M("GroupMemberInfo", 16 * KiB)) >>

FileUploadRequest == [
    conversationId |-> U64, clientMessageId |-> Text, fileName |-> Text, mediaType |-> Text,
    sha256Hex |-> Text, content |-> Text ]
encodeFileUploadRequest == Plain(<<
    "conversationId", "clientMessageId", "fileName", "mediaType", "sha256Hex", "content" >>)
decodeFileUploadRequest == <<
    N64, S(MaximumIdentifierBytes), S(512), S(255), S(64), S(MaximumFileContentBytes) >>

FileUploadResponse == Status @@ [
    clientMessageId |-> Text, assetUuid |-> Text, serverMessageId |-> Text,
    conversationId |-> U64, conversationSequence |-> U64, acceptedAtUtcMs |-> U64 ]
encodeFileUploadResponse == Plain(Reply \o <<
    "clientMessageId", "assetUuid", "serverMessageId", "conversationId",
    "conversationSequence", "acceptedAtUtcMs" >>)
decodeFileUploadResponse == ReplyRules \o <<
    S(MaximumIdentifierBytes), S(MaximumIdentifierBytes), S(MaximumIdentifierBytes), N64, N64,
    N64 >>

FileDownloadRequest == [ assetUuid |-> Text ]
encodeFileDownloadRequest == Plain(<< "assetUuid" >>)
decodeFileDownloadRequest == << S(MaximumIdentifierBytes) >>

FileDownloadResponse == Status @@ [
    assetUuid |-> Text, fileName |-> Text, mediaType |-> Text, sha256Hex |-> Text,
    sizeBytes |-> U64, content |-> Text ]
encodeFileDownloadResponse == Plain(Reply \o <<
    "assetUuid", "fileName", "mediaType", "sha256Hex", "sizeBytes", "content" >>)
decodeFileDownloadResponse == ReplyRules \o <<
    S(MaximumIdentifierBytes), S(512), S(255), S(64), N64, S(MaximumFileContentBytes) >>

ConferenceJoinRequest == [ conversationId |-> U64, videoEnabled |-> Bool ]
encodeConferenceJoinRequest == Plain(<< "conversationId", "videoEnabled" >>)
decodeConferenceJoinRequest == << N64, B >>

ConferenceJoinResponse == Status @@ [
    conferenceUuid |-> Text, roomName |-> Text, serverUrl |-> Text, webUrl |-> Text,
    participantToken |-> Text, expiresAtUtcMs |-> U64, videoEnabled |-> Bool ]
encodeConferenceJoinResponse == Plain(Reply \o <<
    "conferenceUuid", "roomName", "serverUrl", "webUrl", "participantToken", "expiresAtUtcMs",
    "videoEnabled" >>)
decodeConferenceJoinResponse == ReplyRules \o <<
    S(MaximumIdentifierBytes), S(MaximumIdentifierBytes), S(2048), S(2048), S(16 * KiB), N64,
    B >>

ConferenceLeaveRequest == [ conferenceUuid |-> Text ]
encodeConferenceLeaveRequest == Plain(<< "conferenceUuid" >>)
decodeConferenceLeaveRequest == << S(MaximumIdentifierBytes) >>

ConferenceLeaveResponse == Status @@ [ conferenceUuid |-> Text ]
encodeConferenceLeaveResponse == Plain(Reply \o << "conferenceUuid" >>)
decodeConferenceLeaveResponse == ReplyRules \o << S(MaximumIdentifierBytes) >>

DeliveryReceipt == [
    serverMessageId |-> Text, conversationId |-> U64, continuousDeliveredSequence |-> U64,
    recipientPersonId |-> U64 ]
encodeDeliveryReceipt == Plain(<<
    "serverMessageId", "conversationId", "continuousDeliveredSequence", "recipientPersonId" >>)
decodeDeliveryReceipt == << S(MaximumIdentifierBytes), N64, N64, N64 >>

ReadReceipt == [
    serverMessageId |-> Text, conversationId |-> U64, continuousReadSequence |-> U64,
    readerPersonId |-> U64 ]
encodeReadReceipt == Plain(<<
    "serverMessageId", "conversationId", "continuousReadSequence", "readerPersonId" >>)
decodeReadReceipt == << S(MaximumIdentifierBytes), N64, N64, N64 >>

ErrorResponse == [ code |-> U32, message |-> Text, failedRequestId |-> U64 ]
encodeErrorResponse == Plain(<< "code", "message", "failedRequestId" >>)
decodeErrorResponse == << N32, S(MaximumFriendlyTextBytes), N64 >>

=============================================================================
