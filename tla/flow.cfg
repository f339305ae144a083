\* Four events of two conversations, in and out of order
SPECIFICATION Spec
CONSTANTS
    Endpoints = {1, 2}
    Protocols = {"TCP"}
    FlagSets = {{}, {"S"}, {"S", "A"}, {"A"}, {"R"}, {"F", "A"}}
    Times = {0, 4, 9, 20}
    Started = 0
    IdleTimeout = 5
    ActiveTimeout = 10
    CleanupPeriod = 2
    RingSize = 1
    None = None
    Inputs <- Conversations
    MaxEvents = 4
INVARIANTS
    OneFlowPerConversation
    EachPacketCounted
    CutForReason
    ExpiryPrompt
    TcpStateFromPackets
CHECK_DEADLOCK FALSE
