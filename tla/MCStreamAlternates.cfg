SPECIFICATION Spec
CONSTANTS
    TcpClients = {tcp}
    WebSocketClients = {}
    NoClient = none
    NoPath = nullptr
    FieldCount = 3
    AisCapacity = 0
    Path <- MCPath
    Joint = {}
    Required = {}
    Source <- MCSource
    MemberCount <- MCMemberCount
    Size <- MCSize
    JsonCapacity = 2
    MaxBatchValues = 2
    ClockField = 1
    AisField = 0
    QueueCapacity = 2
    MaxChangesPerTick = 2
    FrameOverhead = 1
    HelloSize = 1
    QueueLimit = 4
    StallTimeout = 0
    ClockModulus = 1
    CounterMax = 0
    MaxExpired = 0
    MaxUpdates = 2
    MaxEvents = 2
INVARIANTS FreshestSent
