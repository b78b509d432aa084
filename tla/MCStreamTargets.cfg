SPECIFICATION Spec
CONSTANTS
    TcpClients = {}
    WebSocketClients = {ws}
    NoClient = none
    NoPath = nullptr
    FieldCount = 3
    AisCapacity = 1
    Path <- MCPath
    Joint = {"position"}
    Required = {2}
    Source <- MCSource
    MemberCount <- MCMemberCount
    Size <- MCSize
    JsonCapacity = 2
    MaxBatchValues = 2
    ClockField = 1
    AisField = 0
    QueueCapacity = 3
    MaxChangesPerTick = 1
    FrameOverhead = 1
    HelloSize = 1
    QueueLimit = 4
    StallTimeout = 0
    ClockModulus = 1
    CounterMax = 0
    MaxExpired = 0
    MaxUpdates = 2
    MaxEvents = 2
INVARIANTS TargetsCaughtUp
