SPECIFICATION ModelSpec
CONSTANTS
    lat = lat
    lon = lon
    speed = speed
    mode = mode
    Fields = {lat, lon, speed, mode}
    Path <- MCPath
    Joint = {"position"}
    Kept = {lat, lon, speed}
    AutopilotFields = {mode}
    Sources = {gpsA, gpsB}
    NoSource = none
    NoPath = nullptr
    Sentences <- MCSentences
    Blankable = {speed}
    QueueCapacity = 3
    NoChange = NoChange
    TableCapacity = 2
    MaxChangesPerTick = 3
    MaxSentences = 6
    MaxInputs = 3
INVARIANTS
    DeltaShowsNewest
    DeltaAgreesWithView
    ModelConsistent
    MultiSourceExactly
    DeltaOwnValue
PROPERTIES
    OldestReplaced
