SPECIFICATION Spec
CONSTANTS
    Words <- MCWords
    JudgedRuns <- MCJudgedRuns
    Generations <- MCGenerations
    Answers <- MCAnswers
    Rates <- MCRates
    Cells <- MCCells
    Databases <- MCDatabases
    Queries <- MCQueries
    Rankings <- MCRankings
    Characters = {"a", "b", " ", "newline", "."}
    Texts <- MCTexts
    Windows <- MCWindows
    Datasets <- MCDatasets
    Workloads <- MCWorkloads
    Plans <- MCPlans
    Experiments <- MCExperiments
    MaxText = 5
    MaxSessions = 11
INVARIANTS
    TokensAndCostAddUp
    StoredAnswerIsSound
    SkippedJudgeFindsNoMiss
    DisturbedAsReported
    FixedWindows
    RecursivePieces
    NeverBlends
    StrictIsEnforced
    RankingIsTrue
    SummaryAddsUp
    ReductionIsHonest
    PlanFillsTheGroups
    MissingLeadsToTier
CHECK_DEADLOCK FALSE
