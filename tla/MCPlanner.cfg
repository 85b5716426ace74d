SPECIFICATION Spec
CONSTANTS
    WidthOf <- MCWidthOf
    IndexesOf <- MCIndexesOf
    Queries <- MCQueries
    Sessions <- MCSessions
    Contents <- MCContents
    Statistics <- MCStatistics
    CacheSize = 2
INVARIANTS TypeOK AnswerKept Executable
CHECK_DEADLOCK FALSE
