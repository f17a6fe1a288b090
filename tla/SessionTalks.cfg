SPECIFICATION SessionSpec
CONSTANTS
    BlockSize = 2
    MaxEvents = 2
    SessionEnvironment = {"oldKey", "refuse", "odd", "fail", "disconnectRaises", "cutOff"}
    RightKey = RightKey
    OldKey = OldKey
    Nonce = Nonce
    Challenge = Challenge
    OurChallenge = OurChallenge
    Payload = Payload
    Activate = Activate
INVARIANTS
    SessionTypeOK
    Reassembled
    Understood
    ResultIsReal
PROPERTIES
    ConversationFollowed
