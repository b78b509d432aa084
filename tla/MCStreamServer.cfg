SPECIFICATION Spec
CONSTANTS
    TcpClients = {tcp}
    WebSocketClients = {}
    NoClient = none
    NoPath = nullptr
    FieldCount = 3
    AisCapacity = 1
    Path <- MCPath
    Joint = {}
    Required = {}
    Source <- MCSource
    MemberCount <- MCMemberCount
    Size <- MCSize
    JsonCapacity = 3
    MaxBatchValues = 2
    ClockField = 1
    AisField = 0
    QueueCapacity = 2
    MaxChangesPerTick = 2
    FrameOverhead = 1
    HelloSize = 1
    QueueLimit = 5
    StallTimeout = 0
    ClockModulus = 1
    CounterMax = 0
    MaxExpired = 1
    MaxUpdates = 3
    MaxEvents = 3
INVARIANTS
    StreamBounded
    NoLostUpdate
PROPERTIES
    CursorAdvances
