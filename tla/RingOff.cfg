SPECIFICATION Spec
CONSTANTS
    songA = songA
    songB = songB
    Tracks = {songA, songB}
    Music = {songA, songB}
    NoTrack = NoTrack
    Rate = 1
    Second = 1
    FlushWindowMs = 1
    MinTailMs = 1
    SanityWindowMs = 1
    LateMetadataMs = 1
    Capacity = 20
    OutFrames = 2
    MinLeadMs = 1
    ArmCapMs = 6
    MaxZeroDropMs = 2
    ProbeMs = 1
    AheadMs = 1
    BehindMs = 3
    Crossfades = {0}
    BufferSizes = {1}
    PlayStates = {TRUE}
    Depth = 2
    Durations = {0, 3}
    Positions = {0}
    MaxWritten = 6
    MaxClears = 0
INVARIANT OffPlaysEverything
