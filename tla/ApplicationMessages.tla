------------------------ MODULE ApplicationMessages ------------------------
(***************************************************************************)
(* The application messages of libs/protocol as one table: the number of   *)
(* each, the message a frame carries, and how each is written and read.    *)
(* ChatMessages and OfficeMessages hold the entries.                       *)
(***************************************************************************)
EXTENDS ChatMessages, OfficeMessages

(* The number a frame carries for each message, and the struct in its body *)
(* where that has another name.                                            *)
MessageType == [
    LoginRequest |-> 1001, LoginResponse |-> 1002, LogoutNotification |-> 1003,
    HeartbeatPing |-> 1010, HeartbeatPong |-> 1011, DirectMessageSend |-> 2001,
    DirectMessagePush |-> 2003, MessageAcknowledgement |-> 2010, DeliveryReceipt |-> 2011,
    ReadReceipt |-> 2012, MessageSyncRequest |-> 2020, MessageSyncResponse |-> 2021,
    ConferenceJoinRequest |-> 3501, ConferenceJoinResponse |-> 3502,
    ConferenceLeaveRequest |-> 3503, ConferenceLeaveResponse |-> 3504,
    FileUploadRequest |-> 4001, FileUploadResponse |-> 4002, FileDownloadRequest |-> 4003,
    FileDownloadResponse |-> 4004, DirectorySnapshotRequest |-> 5001,
    DirectorySnapshotResponse |-> 5002, DirectoryDeltaRequest |-> 5003,
    DirectoryDeltaResponse |-> 5004, DirectConversationGetOrCreate |-> 5016,
    DirectConversationResponse |-> 5017, ConversationListRequest |-> 5020,
    ConversationListResponse |-> 5021, ConversationPreferenceRequest |-> 5022,
    ConversationPreferenceResponse |-> 5023, GroupListRequest |-> 6101,
    GroupListResponse |-> 6102, GroupDetailRequest |-> 6103, GroupDetailResponse |-> 6104,
    GroupCreateRequest |-> 6105, GroupCreateResponse |-> 6106, GroupJoinRequest |-> 6107,
    GroupJoinResponse |-> 6108, GroupMemberUpdateRequest |-> 6109,
    GroupMemberUpdateResponse |-> 6110, NotificationListRequest |-> 6201,
    NotificationListResponse |-> 6202, NotificationDetailRequest |-> 6203,
    NotificationDetailResponse |-> 6204, NotificationStatusRequest |-> 6205,
    NotificationStatusResponse |-> 6206, NotificationMarkAllReadRequest |-> 6207,
    NotificationMarkAllReadResponse |-> 6208, SettingsGetRequest |-> 6301,
    SettingsGetResponse |-> 6302, SettingsUpdateRequest |-> 6303,
    SettingsUpdateResponse |-> 6304, SettingsResetRequest |-> 6305,
    SettingsResetResponse |-> 6306, ContactCenterRequest |-> 6401,
    ContactCenterResponse |-> 6402, ContactDetailRequest |-> 6403,
    ContactDetailResponse |-> 6404, ContactPreferenceUpdateRequest |-> 6405,
    ContactPreferenceUpdateResponse |-> 6406, FileCenterListRequest |-> 6501,
    FileCenterListResponse |-> 6502, FileCenterDetailRequest |-> 6503,
    FileCenterDetailResponse |-> 6504, FileCenterFolderCreateRequest |-> 6505,
    FileCenterFolderCreateResponse |-> 6506, FileCenterUpdateRequest |-> 6507,
    FileCenterUpdateResponse |-> 6508, CalendarListRequest |-> 6601,
    CalendarListResponse |-> 6602, CalendarCreateRequest |-> 6603,
    CalendarCreateResponse |-> 6604, CalendarUpdateRequest |-> 6605,
    CalendarUpdateResponse |-> 6606, CalendarDeleteRequest |-> 6607,
    CalendarDeleteResponse |-> 6608, ServerErrorResponse |-> 9001 ]

Payload(type) ==
    CASE type = "DirectMessageSend" -> "SendMessageRequest"
      [] type = "MessageAcknowledgement" -> "SendMessageResponse"
      [] type = "MessageSyncRequest" -> "MessageHistoryRequest"
      [] type = "MessageSyncResponse" -> "MessageHistoryResponse"
      [] type = "DirectConversationGetOrCreate" -> "DirectConversationRequest"
      [] type \in {"CalendarCreateResponse", "CalendarUpdateResponse", "CalendarDeleteResponse"}
            -> "CalendarMutationResponse"
      [] type = "ServerErrorResponse" -> "ErrorResponse"
      [] OTHER -> type

Coding(members, out, in) == [members |-> members, out |-> out, in |-> in]
Schema == [
    LoginRequest |-> Coding(LoginRequest, encodeLoginRequest, decodeLoginRequest),
    LoginResponse |-> Coding(LoginResponse, encodeLoginResponse, decodeLoginResponse),
    HeartbeatPing |-> Coding(HeartbeatPing, encodeHeartbeatPing, decodeHeartbeatPing),
    HeartbeatPong |-> Coding(HeartbeatPong, encodeHeartbeatPong, decodeHeartbeatPong),
    DirectConversationRequest |-> Coding(DirectConversationRequest, encodeDirectConversationRequest, decodeDirectConversationRequest),
    DirectConversationResponse |-> Coding(DirectConversationResponse, encodeDirectConversationResponse, decodeDirectConversationResponse),
    SendMessageRequest |-> Coding(SendMessageRequest, encodeSendMessageRequest, decodeSendMessageRequest),
    SendMessageResponse |-> Coding(SendMessageResponse, encodeSendMessageResponse, decodeSendMessageResponse),
    DirectMessagePush |-> Coding(DirectMessagePush, encodeDirectMessagePush, decodeDirectMessagePush),
    MessageHistoryRequest |-> Coding(MessageHistoryRequest, encodeMessageHistoryRequest, decodeMessageHistoryRequest),
    MessageHistoryResponse |-> Coding(MessageHistoryResponse, encodeMessageHistoryResponse, decodeMessageHistoryResponse),
    ConversationSummary |-> Coding(ConversationSummary, encodeConversationSummaryRecord, decodeConversationSummaryRecord),
    ConversationListRequest |-> Coding(ConversationListRequest, encodeConversationListRequest, decodeConversationListRequest),
    ConversationListResponse |-> Coding(ConversationListResponse, encodeConversationListResponse, decodeConversationListResponse),
    ConversationPreferenceRequest |-> Coding(ConversationPreferenceRequest, encodeConversationPreferenceRequest, decodeConversationPreferenceRequest),
    ConversationPreferenceResponse |-> Coding(ConversationPreferenceResponse, encodeConversationPreferenceResponse, decodeConversationPreferenceResponse),
    GroupSummary |-> Coding(GroupSummary, encodeGroupSummaryRecord, decodeGroupSummaryRecord),
    GroupMemberInfo |-> Coding(GroupMemberInfo, encodeGroupMemberRecord, decodeGroupMemberRecord),
    GroupFileInfo |-> Coding(GroupFileInfo, encodeGroupFileRecord, decodeGroupFileRecord),
    GroupListRequest |-> Coding(GroupListRequest, encodeGroupListRequest, decodeGroupListRequest),
    GroupListResponse |-> Coding(GroupListResponse, encodeGroupListResponse, decodeGroupListResponse),
    GroupDetailRequest |-> Coding(GroupDetailRequest, encodeGroupDetailRequest, decodeGroupDetailRequest),
    GroupDetailResponse |-> Coding(GroupDetailResponse, encodeGroupDetailResponse, decodeGroupDetailResponse),
    GroupCreateRequest |-> Coding(GroupCreateRequest, encodeGroupCreateRequest, decodeGroupCreateRequest),
    GroupCreateResponse |-> Coding(GroupCreateResponse, encodeGroupCreateResponse, decodeGroupCreateResponse),
    GroupJoinRequest |-> Coding(GroupJoinRequest, encodeGroupJoinRequest, decodeGroupJoinRequest),
    GroupJoinResponse |-> Coding(GroupJoinResponse, encodeGroupJoinResponse, decodeGroupJoinResponse),
    GroupMemberUpdateRequest |-> Coding(GroupMemberUpdateRequest, encodeGroupMemberUpdateRequest, decodeGroupMemberUpdateRequest),
    GroupMemberUpdateResponse |-> Coding(GroupMemberUpdateResponse, encodeGroupMemberUpdateResponse, decodeGroupMemberUpdateResponse),
    NotificationSummary |-> Coding(NotificationSummary, encodeNotificationSummaryRecord, decodeNotificationSummaryRecord),
    NotificationListRequest |-> Coding(NotificationListRequest, encodeNotificationListRequest, decodeNotificationListRequest),
    NotificationListResponse |-> Coding(NotificationListResponse, encodeNotificationListResponse, decodeNotificationListResponse),
    NotificationDetailField |-> Coding(NotificationDetailField, encodeNotificationFieldRecord, decodeNotificationFieldRecord),
    NotificationAttachment |-> Coding(NotificationAttachment, encodeNotificationAttachmentRecord, decodeNotificationAttachmentRecord),
    NotificationDetailRequest |-> Coding(NotificationDetailRequest, encodeNotificationDetailRequest, decodeNotificationDetailRequest),
    NotificationDetailResponse |-> Coding(NotificationDetailResponse, encodeNotificationDetailResponse, decodeNotificationDetailResponse),
    NotificationStatusRequest |-> Coding(NotificationStatusRequest, encodeNotificationStatusRequest, decodeNotificationStatusRequest),
    NotificationStatusResponse |-> Coding(NotificationStatusResponse, encodeNotificationStatusResponse, decodeNotificationStatusResponse),
    NotificationMarkAllReadRequest |-> Coding(NotificationMarkAllReadRequest, encodeNotificationMarkAllReadRequest, decodeNotificationMarkAllReadRequest),
    NotificationMarkAllReadResponse |-> Coding(NotificationMarkAllReadResponse, encodeNotificationMarkAllReadResponse, decodeNotificationMarkAllReadResponse),
    UserSettingsProfile |-> Coding(UserSettingsProfile, encodeUserSettingsRecord, decodeUserSettingsRecord),
    SettingsSystemInfo |-> Coding(SettingsSystemInfo, encodeSettingsSystemInfoRecord, decodeSettingsSystemInfoRecord),
    SettingsGetRequest |-> Coding(SettingsGetRequest, encodeSettingsGetRequest, decodeSettingsGetRequest),
    SettingsGetResponse |-> Coding(SettingsGetResponse, encodeSettingsGetResponse, decodeSettingsGetResponse),
    SettingsUpdateRequest |-> Coding(SettingsUpdateRequest, encodeSettingsUpdateRequest, decodeSettingsUpdateRequest),
    SettingsUpdateResponse |-> Coding(SettingsUpdateResponse, encodeSettingsUpdateResponse, decodeSettingsUpdateResponse),
    SettingsResetRequest |-> Coding(SettingsResetRequest, encodeSettingsResetRequest, decodeSettingsResetRequest),
    SettingsResetResponse |-> Coding(SettingsResetResponse, encodeSettingsResetResponse, decodeSettingsResetResponse),
    ContactSummary |-> Coding(ContactSummary, encodeContactSummaryRecord, decodeContactSummaryRecord),
    ContactGroupPreview |-> Coding(ContactGroupPreview, encodeContactGroupRecord, decodeContactGroupRecord),
    ContactDetail |-> Coding(ContactDetail, encodeContactDetailRecord, decodeContactDetailRecord),
    ContactCenterRequest |-> Coding(ContactCenterRequest, encodeContactCenterRequest, decodeContactCenterRequest),
    ContactCenterResponse |-> Coding(ContactCenterResponse, encodeContactCenterResponse, decodeContactCenterResponse),
    ContactDetailRequest |-> Coding(ContactDetailRequest, encodeContactDetailRequest, decodeContactDetailRequest),
    ContactDetailResponse |-> Coding(ContactDetailResponse, encodeContactDetailResponse, decodeContactDetailResponse),
    ContactPreferenceUpdateRequest |-> Coding(ContactPreferenceUpdateRequest, encodeContactPreferenceUpdateRequest, decodeContactPreferenceUpdateRequest),
    ContactPreferenceUpdateResponse |-> Coding(ContactPreferenceUpdateResponse, encodeContactPreferenceUpdateResponse, decodeContactPreferenceUpdateResponse),
    FileCenterItem |-> Coding(FileCenterItem, encodeFileCenterItemRecord, decodeFileCenterItemRecord),
    FileCenterVersion |-> Coding(FileCenterVersion, encodeFileCenterVersionRecord, decodeFileCenterVersionRecord),
    FileCenterPermission |-> Coding(FileCenterPermission, encodeFileCenterPermissionRecord, decodeFileCenterPermissionRecord),
    FileCenterDetail |-> Coding(FileCenterDetail, encodeFileCenterDetailRecord, decodeFileCenterDetailRecord),
    FileCenterListRequest |-> Coding(FileCenterListRequest, encodeFileCenterListRequest, decodeFileCenterListRequest),
    FileCenterListResponse |-> Coding(FileCenterListResponse, encodeFileCenterListResponse, decodeFileCenterListResponse),
    FileCenterDetailRequest |-> Coding(FileCenterDetailRequest, encodeFileCenterDetailRequest, decodeFileCenterDetailRequest),
    FileCenterDetailResponse |-> Coding(FileCenterDetailResponse, encodeFileCenterDetailResponse, decodeFileCenterDetailResponse),
    FileCenterFolderCreateRequest |-> Coding(FileCenterFolderCreateRequest, encodeFileCenterFolderCreateRequest, decodeFileCenterFolderCreateRequest),
    FileCenterFolderCreateResponse |-> Coding(FileCenterFolderCreateResponse, encodeFileCenterFolderCreateResponse, decodeFileCenterFolderCreateResponse),
    FileCenterUpdateRequest |-> Coding(FileCenterUpdateRequest, encodeFileCenterUpdateRequest, decodeFileCenterUpdateRequest),
    FileCenterUpdateResponse |-> Coding(FileCenterUpdateResponse, encodeFileCenterUpdateResponse, decodeFileCenterUpdateResponse),
    CalendarParticipant |-> Coding(CalendarParticipant, encodeCalendarParticipantRecord, decodeCalendarParticipantRecord),
    CalendarEvent |-> Coding(CalendarEvent, encodeCalendarEventRecord, decodeCalendarEventRecord),
    CalendarListRequest |-> Coding(CalendarListRequest, encodeCalendarListRequest, decodeCalendarListRequest),
    CalendarListResponse |-> Coding(CalendarListResponse, encodeCalendarListResponse, decodeCalendarListResponse),
    CalendarCreateRequest |-> Coding(CalendarCreateRequest, encodeCalendarCreateRequest, decodeCalendarCreateRequest),
    CalendarUpdateRequest |-> Coding(CalendarUpdateRequest, encodeCalendarUpdateRequest, decodeCalendarUpdateRequest),
    CalendarDeleteRequest |-> Coding(CalendarDeleteRequest, encodeCalendarDeleteRequest, decodeCalendarDeleteRequest),
    CalendarMutationResponse |-> Coding(CalendarMutationResponse, encodeCalendarMutationResponse, decodeCalendarMutationResponse),
    FileUploadRequest |-> Coding(FileUploadRequest, encodeFileUploadRequest, decodeFileUploadRequest),
    FileUploadResponse |-> Coding(FileUploadResponse, encodeFileUploadResponse, decodeFileUploadResponse),
    FileDownloadRequest |-> Coding(FileDownloadRequest, encodeFileDownloadRequest, decodeFileDownloadRequest),
    FileDownloadResponse |-> Coding(FileDownloadResponse, encodeFileDownloadResponse, decodeFileDownloadResponse),
    ConferenceJoinRequest |-> Coding(ConferenceJoinRequest, encodeConferenceJoinRequest, decodeConferenceJoinRequest),
    ConferenceJoinResponse |-> Coding(ConferenceJoinResponse, encodeConferenceJoinResponse, decodeConferenceJoinResponse),
    ConferenceLeaveRequest |-> Coding(ConferenceLeaveRequest, encodeConferenceLeaveRequest, decodeConferenceLeaveRequest),
    ConferenceLeaveResponse |-> Coding(ConferenceLeaveResponse, encodeConferenceLeaveResponse, decodeConferenceLeaveResponse),
    DeliveryReceipt |-> Coding(DeliveryReceipt, encodeDeliveryReceipt, decodeDeliveryReceipt),
    ReadReceipt |-> Coding(ReadReceipt, encodeReadReceipt, decodeReadReceipt),
    DirectorySnapshotRequest |-> Coding(DirectorySnapshotRequest, encodeDirectorySnapshotRequest, decodeDirectorySnapshotRequest),
    DirectoryOrganization |-> Coding(DirectoryOrganization, encodeDirectoryOrganization, decodeDirectoryOrganization),
    DirectoryDepartment |-> Coding(DirectoryDepartment, encodeDirectoryDepartment, decodeDirectoryDepartment),
    DirectoryPosition |-> Coding(DirectoryPosition, encodeDirectoryPosition, decodeDirectoryPosition),
    DirectoryPerson |-> Coding(DirectoryPerson, encodeDirectoryPerson, decodeDirectoryPerson),
    DirectoryAssignment |-> Coding(DirectoryAssignment, encodeDirectoryAssignment, decodeDirectoryAssignment),
    DirectorySnapshotResponse |-> Coding(DirectorySnapshotResponse, encodeDirectorySnapshotResponse, decodeDirectorySnapshotResponse),
    DirectoryDeltaRequest |-> Coding(DirectoryDeltaRequest, encodeDirectoryDeltaRequest, decodeDirectoryDeltaRequest),
    DirectoryChange |-> Coding(DirectoryChange, encodeDirectoryChange, decodeDirectoryChange),
    DirectoryDeltaResponse |-> Coding(DirectoryDeltaResponse, encodeDirectoryDeltaResponse, decodeDirectoryDeltaResponse),
    ErrorResponse |-> Coding(ErrorResponse, encodeErrorResponse, decodeErrorResponse) ]
=============================================================================
