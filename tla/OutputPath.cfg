\* The output buffers going round, refusals, cuts, fades and the debug dump.
\* Deadlock is off: a behaviour ends with the player closed, or at MaxFills.
SPECIFICATION FairSpec
CONSTANTS
    OutBuffers = 3
    BufferFrames = 2
    HistoryFrames = 3
    TailFrames = 5
    Silence = 0
    MaxFills = 6
    MaxBoundaries = 3
INVARIANT TypeOK
INVARIANT NeverRefillQueued
INVARIANT PlayedInOrder
INVARIANT DumpHolds
INVARIANT FadeStartsDumped
INVARIANT OneDumpPerStart
PROPERTY OutputGoesOn
CHECK_DEADLOCK FALSE
