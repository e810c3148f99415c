SPECIFICATION Spec
CONSTANTS
    Senders = {"worker", "main"}
    Messages <- TwoSenders
    Payload <- Sizes
    WordRange = 32
    HeaderSize = 2
    Room = 3
INVARIANTS FramesAsSent
CHECK_DEADLOCK FALSE
