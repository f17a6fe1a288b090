SPECIFICATION SessionSpec
CONSTANTS
    BlockSize = 2
    MaxEvents = 2
    SessionEnvironment = {"refuse", "fail", "cutOff"}
    RightKey = RightKey
    OldKey = OldKey
    Nonce = Nonce
    Challenge = Challenge
    OurChallenge = OurChallenge
    Payload = Payload
    Activate = Activate
INVARIANTS
    DisconnectedOnErrors
