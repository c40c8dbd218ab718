SPECIFICATION SharedSpec
CONSTANTS
    NoAccount = NoAccount
    NoTask = NoTask
    UpdateTask = UpdateTask
    NoState = NoState
    NoInteraction = NoInteraction
    OTHERTASKS <- Contexts
    IDS = {1}
    MAX_U64 = 1
    MaxWrites = 3
    MaxCommits = 2
    MaxRequests = 1
    TEXTS = {1, 2, 3}
    MAX_PROMPT = 2
    MAX_RESPONSE = 1
    RENT = 2
    LAMPORTS = {0, 3}
    MaxContexts = 2
    MaxAsked = 2
    MaxFunds = 5
INVARIANTS TypeOK GptTypeOK PromptsMatch
PROPERTIES RegisterSpec BaseNeverGoesBack ComesBack StaleTasksInert
CHECK_DEADLOCK FALSE
