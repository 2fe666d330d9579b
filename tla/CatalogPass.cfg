SPECIFICATION Spec
CONSTANTS
    Requests = {r1, r2}
    Seeder = seeder
    SeedRuns = 2
    Labels = {"user", "rag"}
    Values = {1, 2}
    Faults = {"crash", "db"}
SYMMETRY Interchangeable
VIEW View
INVARIANTS
    TypeOK
    ValidUnlessRaced
    ProcessedHasChunks
    FileUntilDeleted
    NoLostFiles
    SeedIdempotent
PROPERTIES
    LosesOnlyLate
CHECK_DEADLOCK FALSE
