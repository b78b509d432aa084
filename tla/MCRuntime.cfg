SPECIFICATION RuntimeSpec
CONSTANTS
    Tasks = {t1, t2, t3, t4}
    NoTask = nullptr
    Periods = {1}
    Delays = {1}
    MaxTasks = 3
    AddsInCallbacks = FALSE
    MaxNow = 2
    LvTasks = {t1, t2}
    NullTask = nullptr
    LvPeriods = {2}
    LvDelays = {1}
    LvMaxNow = 4
    GpsdConnectors = {g}
    ByteConnectors = {b}
    EventSlots = 3
    InitialDelay = 2
    MaximumDelay = 5
    MaxFlaps = 2
    MaxFaults = 1
    CountedFailures = 4
    LeafCount = 4
    LongLeaves = {3}
    RoomLimit = 3
    RestTimeout = 1
    MaxModelSteps = 2
INVARIANTS
    LoopsSound
    CrConsistent
    RestOneDocument
PROPERTIES
    ImplementsScheduler
    LvImplementsScheduler
    DueTasksRun
    CrReconnects
    RestEnds
CHECK_DEADLOCK FALSE
