SPECIFICATION Spec
CONSTANTS
    Jobs = {"j1", "j2", "j3"}
    SegsOf <- MCSegsOf
    Reviewed = TRUE
    Casts <- MCCasts
    ReviewMax = 2
    Overlap = FALSE
    Paths <- MCPaths
    Folded <- MCFolded
    Book <- MCBook
    Ids = {"x", "y", "z"}
    UndoDepth = 2
    Courses <- MCCourses
    ToolIds <- MCToolIds
    ToolCasts <- MCToolCasts
    MergeJobs <- MCMergeJobs
    Ways <- MCWays
    OthersMax = 1
    Texts <- MCTexts
    Within <- MCWithin
    TocEdits = 3
    Symbols = {"a", "b", "c"}
    SlotTexts <- MCSlotTexts
    RuleLists <- MCRuleLists
    SlotGroups <- MCSlotGroups
    Profiles = {"m1", "m2"}
    Prompts = {"p1"}
    Presets = {"w"}
    DefaultPrompt = "zh"
    NoId = "none"
    Bodies <- MCBodies
    StoreCasts <- MCStoreCasts
    FirstLang = "ko"
    OtherLang = "ja"
    LogSubtasks = {"s1"}
    LogJobs = {"j1"}
    LineSize <- MCLineSize
    LogCasts <- MCLogCasts
    MaxBytes = 5
    TrimBytes = 4
    TailBytes = 3
    TailLines = 2
    PageLimit = 2
    TryMax = 2
INVARIANTS
    RequestsAreTrue BookIsSound  FilesAreTrue StoresAreSound LogTellsTheTruth
PROPERTIES
    EditsSurvive AnswersAreReused ThreadsEnd SavesAreTrue
\* a behaviour whose requests are used up stops
CHECK_DEADLOCK FALSE
