CONSTANTS
    s1 = s1
    s2 = s2
    s3 = s3
    Mmsis = {s1, s2, s3}
    NoMmsi = NoMmsi
    TargetCapacity = 2
    MaxAisMessages = 4
    MessageKeys = {s1, s2, s3}
    NoKey = NoKey
    MultipartSlots = 2
    TextCapacity = 2
    StaleTimeout = 2
    MaxTotal = 3
    MaxFragments = 4
    d1 = d1
    d2 = d2
    DscSenders = {d1, d2}
    NoSender = NoSender
    DscSentences <- MCDscSentences
    CallCapacity = 2
    DseTimeout = 1
    DuplicateWindow = 3
    MaxDscSentences = 4
    Broadcasts <- MCBroadcasts
    HistoryCapacity = 2
    MaxMsiSentences = 5
    GnssTalkers = {"GP", "GL"}
    GroupSize = 2
    MaxGsvTotal = 3
    MaxGsv = 4
SPECIFICATION Spec
SYMMETRY Symmetry
INVARIANTS
    AisTable
    MultipartSound
    DscSound
    SafetySound
    SkyOneCycle
PROPERTIES
    KeptWhileRoom
CHECK_DEADLOCK FALSE
