SPECIFICATION Spec
CONSTANTS
    songA = songA
    songB = songB
    Tracks = {songA, songB}
    Music = {songA, songB}
    NoTrack = NoTrack
    Rate = 1
    Second = 1
    FlushWindowMs = 1
    MinTailMs = 1
    SanityWindowMs = 1
    LateMetadataMs = 1
    Capacity = 6
    OutFrames = 1
    MinLeadMs = 1
    ArmCapMs = 20
    MaxZeroDropMs = 2
    ProbeMs = 0
    AheadMs = 2
    BehindMs = 3
    Crossfades = {0, 2}
    BufferSizes = {1}
    PlayStates = {TRUE}
    Depth = 1
    Durations = {0, 4}
    Positions = {0}
    MaxWritten = 7
    MaxClears = 0
INVARIANTS TypeOK NoReplay FadeAligned NoOverflowWithoutClear
PROPERTIES ReadMonotone FillLosesNothing ReanchorKeepsGain Implements
