SPECIFICATION DeliveringSpec
CONSTANTS
    songA = songA
    songB = songB
    Tracks = {songA, songB}
    Music = {songA, songB}
    NoTrack = NoTrack
    Rate = 1
    Second = 1
    FlushWindowMs = 0
    MinTailMs = 1
    SanityWindowMs = 1
    LateMetadataMs = 0
    Capacity = 20
    OutFrames = 1
    MinLeadMs = 0
    ArmCapMs = 6
    MaxZeroDropMs = 1
    ProbeMs = 1
    AheadMs = 1
    BehindMs = 3
    Crossfades = {0, 2}
    BufferSizes = {1}
    PlayStates = {TRUE}
    Depth = 2
    Durations = {0}
    Positions = {0}
    MaxWritten = 4
    MaxClears = 1
PROPERTIES FlushResolves AckProgress FadesEnd DeliveryCompletes
