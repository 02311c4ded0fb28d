CONSTANTS
    MaxSessions = 2
    Format = {f1, f2}
    NoFormat = NoFormat
    Limit = 2
    MaxSample = 2
SPECIFICATION AudioSpec
INVARIANTS
    CallbacksReachSession
    ResourcesOutliveUse
    EndsForAReason
    SoundIsOfNow
PROPERTIES
    StopIsFinal
    SessionEnds
