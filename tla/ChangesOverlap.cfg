SPECIFICATION Spec
CONSTANTS
    Tracks = {1, 2, 3, 4}
    Music = {1, 2, 3, 4}
    NoTrack = 0
    Rate = 2
    Second = 2
    FlushWindowMs = 1
    MinTailMs = 1
    SanityWindowMs = 2
    LateMetadataMs = 2
    Overlapping = TRUE
    Duration = 3
    Crossfade = 2
    MaxWritten = 4
    MaxClears = 3
PROPERTY ManualNeverNatural
