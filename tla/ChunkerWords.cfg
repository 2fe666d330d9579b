SPECIFICATION Spec
CONSTANTS
    Words = {}
    JudgedRuns = {}
    Generations = {}
    Answers = {}
    Rates = {}
    Cells = {}
    Databases = {}
    Queries = {}
    Rankings = {}
    Characters = {"a", "b", " ", "newline", "."}
    Texts <- MCTexts
    Windows <- MCWindows
    Datasets = {}
    Workloads = {}
    Plans = {}
    Experiments = {}
    MaxText = 5
    MaxSessions = 0
INVARIANT RecursiveFindsItsPieces
CHECK_DEADLOCK FALSE
