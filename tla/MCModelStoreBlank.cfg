SPECIFICATION Spec
CONSTANTS
    lat = lat
    lon = lon
    speed = speed
    mode = mode
    Fields = {lat, lon, speed, mode}
    Path <- MCPath
    Joint = {"position"}
    Kept = {lat, lon, speed}
    AutopilotFields = {mode}
    Sources = {gpsA, gpsB}
    NoSource = none
    NoPath = nullptr
    Sentences <- MCSentences
    Blankable = {speed}
    QueueCapacity = 4
    NoChange = NoChange
    TableCapacity = 3
    MaxChangesPerTick = 3
    MaxSentences = 3
INVARIANT EntryIsOwn
