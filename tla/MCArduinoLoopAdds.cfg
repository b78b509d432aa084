SPECIFICATION Spec
CONSTANTS
    Tasks = {t1, t2, t3}
    NoTask = nullptr
    Periods = {2}
    Delays = {0, 2}
    MaxTasks = 3
    AddsInCallbacks = TRUE
    MaxNow = 3
PROPERTY OneShotRuns
