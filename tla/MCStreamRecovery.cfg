SPECIFICATION FairSpec
CONSTANTS
    TcpClients = {tcp}
    WebSocketClients = {}
    NoClient = none
    NoPath = nullptr
    FieldCount = 3
    AisCapacity = 0
    Path <- MCPath
    Joint = {}
    Required = {}
    Source <- MCSource
    MemberCount <- MCMemberCount
    Size <- MCSize
    JsonCapacity = 3
    MaxBatchValues = 2
    ClockField = 1
    AisField = 0
    QueueCapacity = 2
    MaxChangesPerTick = 1
    FrameOverhead = 1
    HelloSize = 1
    QueueLimit = 5
    StallTimeout = 2
    ClockModulus = 5
    CounterMax = 100
    MaxExpired = 0
    MaxUpdates = 1
    MaxEvents = 3
INVARIANTS StalledIsClosed
PROPERTIES OnlyStalledClosed CatchesUp
