CONSTANTS
    alice = alice
    bob = bob
    phone = phone
    laptop = laptop
    desk = desk
    Person = {alice, bob}
    Device = {phone, laptop, desk}
    Conversation = {c1, c2}
    ClientMessageId = {i1}
    MaxSequence = 2
    OwnerOf <- MCOwnerOf
    GatewayProcess = {g1, g2}
SYMMETRY Alike
SPECIFICATION MCSpec
INVARIANTS
    TypeOK
    SequencesAreDense
    OneMessagePerKey
    ReceiptsFollowWatermarks
PROPERTIES
    SubmissionsAreCalls
    ImplementsConversationLog
CHECK_DEADLOCK FALSE
