SPECIFICATION Spec
CONSTANTS
    Senders = {"worker"}
    Messages <- OneSender
    Payload <- Sizes
    WordRange = 32
    HeaderSize = 2
    Room = 5
INVARIANTS TypeOK FramesAsSent StatesAsSent
