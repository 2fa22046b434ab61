SPECIFICATION StorageSpec
CONSTANTS
    songA = songA
    songB = songB
    Garbage = Garbage
    Tracks = {songA, songB}
    Music = {songA, songB}
    NoTrack = NoTrack
    Rate = 1
    Second = 1
    FlushWindowMs = 1
    MinTailMs = 1
    SanityWindowMs = 1
    LateMetadataMs = 1
    Capacity = 3
    OutFrames = 2
    MinLeadMs = 1
    ArmCapMs = 6
    MaxZeroDropMs = 1
    ProbeMs = 1
    AheadMs = 1
    BehindMs = 3
    Crossfades = {2}
    BufferSizes = {2}
    PlayStates = {TRUE, FALSE}
    Depth = 2
    Durations = {0,3}
    Positions = {0}
    MaxWritten = 6
    MaxClears = 1
INVARIANTS StorageInv ReadsWhatWasWritten
PROPERTIES FlushedAudioIsLeft Implements
