CONSTANTS
    alice = alice
    bob = bob
    phone = phone
    ka = ka
    Person = {alice, bob}
    Device = {phone, desk}
    Conversation = {c1}
    ClientMessageId = {i1}
    MaxSequence = 1
    Connection = {ka, kb1}
    NoConnection = NoConnection
    NoConversation = NoConversation
    PendingLimit = 2
    MaximumQueuedOutput = 2
    MaximumConnections = 3
    StoreFails = FALSE
    GroupsChange = FALSE
    OwnerOf <- MCOwnerOf
    DeviceOf <- MCDeviceOf
    ComposedOn <- MCComposedOn
    FramesOf <- MCFramesOf
SPECIFICATION FairQmlSpec
PROPERTIES
    WaitingMessagesArrive
    TextsAreConfirmed
CHECK_DEADLOCK FALSE
