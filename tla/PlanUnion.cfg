SPECIFICATION Spec
CONSTANTS
    WidthOf <- MCWidthOf
    IndexesOf <- MCIndexesOf
    Queries <- MCQueries
    Sessions <- UnionSessions
    Contents <- MCContents
    Statistics <- MCStatistics
    CacheSize = 2
INVARIANTS AnswerKept
CHECK_DEADLOCK FALSE
