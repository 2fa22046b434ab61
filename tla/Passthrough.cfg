SPECIFICATION FairPlayerSpec
CONSTANTS
    Depth = 3
    Width = 16
INVARIANTS ExactWithoutClear NoPhantomBuffers PlayerInv CallbackHasItsPipeline NothingLeftOpen RealizedCanPlay
PROPERTY DestroyReturns
CHECK_DEADLOCK FALSE
