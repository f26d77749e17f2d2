SPECIFICATION Spec
CONSTANTS
    Chunks <- MCChunks
    Segs <- MCSegs
    CrashAt = {"preparing", "round", "ended", "begin", "retry", "closing"}
    MaxRuns = 2
    MaxCrashes = 1
    ReviewCasts <- MCReviewCasts
    ChunkTexts <- MCChunkTexts
    RequestRetries = 1
    CutDepth = 2
    LateDepth = 1
    Folders <- MCFolders
    Extracts <- MCExtracts
    Fold <- MCFold
    Srcs <- MCSpellings
    Dsts <- MCDsts
    Infos <- MCInfos
    Rejected <- MCRejected
    StopMax = 1
    CrashMax = 1
    StartMax = 2
    BatchRows = {1, 2}
    Voices <- MCVoices
    ValidActs = {"keep", "modify"}
    ContinueMax = 2
    UnreadableRetries = 1
    SendRetries = 1
    PieceMax = 1
INVARIANTS
    CompletedMeansTranslated NothingIsLost ReviewIsComplete TermsAreKept AnswersAreHeard
PROPERTIES
    RetriesObey RoundsEnd
\* a task that has been run MaxRuns times stops
CHECK_DEADLOCK FALSE
