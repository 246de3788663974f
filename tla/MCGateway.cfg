CONSTANTS
    alice = alice
    bob = bob
    phone = phone
    desk = desk
    ka = ka
    i1 = i1
    i2 = i2
    c1 = c1
    Person = {alice, bob}
    Device = {phone, desk}
    Conversation = {c1}
    ClientMessageId = {i1, i2}
    MaxSequence = 2
    Connection = {ka, kb1, kb2}
    NoConnection = NoConnection
    PendingLimit = 1
    MaximumQueuedOutput = 2
    MaximumConnections = 2
    StoreFails = TRUE
    GroupsChange = FALSE
    OwnerOf <- MCOwnerOf
    DeviceOf <- MCDeviceOf
    FramesOf <- MCFramesOf
SPECIFICATION GatewaySpec
INVARIANTS
    OneSessionPerPerson
    AcknowledgedIsStored
    PushesComeInSequence
    RoutedReceiptsAreRecorded
PROPERTIES
    UsesStoreAsSpecified
SYMMETRY MCSymmetry
CHECK_DEADLOCK FALSE
