SPECIFICATION Spec
CONSTANTS
    Target = 1
    Hard = 2
    MaxBody = 3
    MaxPasses = 3
    MaxTightenings = 1
    MaxRefits = 1
    Retained = 1
    MaxAttempts = 3
    ChannelSize = 2
    Batches <- MCBatches
    MaxParallel = 2
    ReviewModes <- MCReviewModes
    MaxTurns = 2
    MaxRetries = 1
    MaxNotices = 1
    MaxBatch = 3
    Configs <- MCConfigs
INVARIANTS
    RecordedIsPublished
    TurnBudget
PROPERTIES
    CheckpointAgrees
    ImplementsConversation
    OneAttemptShown
    EffectAuthorized
    CancelledRunEnds
