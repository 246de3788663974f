CONSTANTS
    alice = alice
    bob = bob
    phone = phone
    ka = ka
    Person = {alice, bob}
    Device = {phone, desk}
    Conversation = {c1}
    ClientMessageId = {i1, i2}
    MaxSequence = 2
    Connection = {ka, kb1, kb2}
    NoConnection = NoConnection
    NoConversation = NoConversation
    PendingLimit = 2
    MaximumQueuedOutput = 2
    MaximumConnections = 2
    StoreFails = FALSE
    GroupsChange = FALSE
    OwnerOf <- MCOwnerOf
    DeviceOf <- MCDeviceOf
    ComposedOn <- MCComposedOn
    FramesOf <- MCFramesOf
SPECIFICATION QmlSpec
INVARIANTS
    WatermarkNeverSkips
    SessionsAgree
SYMMETRY MCSymmetry
CHECK_DEADLOCK FALSE
