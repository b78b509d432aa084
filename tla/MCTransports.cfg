SPECIFICATION TransportSpec
SYMMETRY Symmetry
CONSTANTS
    MaxCallbacks = 2
    Generations = 8
    NoTask = nullptr
    Periods = {1}
    Delays = {1}
    DisablesOneShots = FALSE
    MaxRegistrations = 4
    MaxNow = 2
    Fields = {depth, speed}
    Sources = {gpsA, gpsB}
    Sequences = {1, 2}
    Capacity = 3
    NoChange = NoChange
    MaxPushes = 6
    WsAddresses = {a1, a2, a3}
    WsSlots = 2
    WsClientLimit = 1
    WsHeldResponses = 1
    OverHighPolls = 2
    ChunkSize = 2
    MaxMessageSize = 6
    PayloadLengths = {0, 1, 5}
    MaxWsFrames = 3
    ControlSize = 1
    MaxInFlight = 2
    LineAddresses = {a1, a2, a3}
    LineSlots = 2
    LineClientLimit = 2
    LineBufferSize = 2
    LineEnd = 0
    NoAddress = nullptr
    MaxAccepts = 3
    UbxMaxPayload = 2
    UbxPayloads <- MCPayloads
    UbxStray = {181}
    MaxUbxSent = 3
    StDatagrams <- MCDatagrams
    StGapTimeout = 1
    MaxStDatagrams = 4
    GpsdRecordLimit = 3
    GpsdLengths = {0, 2, 3, 5}
    MaxGpsdRecords = 3
    JsonValues <- MCValues
    NotNumbers <- MCNotNumbers
    JsonBufferSize = 40
INVARIANTS
    SlotsInStep
    CallableOutlivesCall
    QueueInv
    WsConsistent
    WfHeardAsSaid
    LineConsistent
    UbxFrames
    StRealigned
    GpsdConsistent
    JsonBoundaries
PROPERTIES
    ImplementsCoalescingQueue
    PushesAsGiven
CHECK_DEADLOCK FALSE
