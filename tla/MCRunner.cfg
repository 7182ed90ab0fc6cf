CONSTANTS
    Kinds = {"local", "container"}
    Requests = {q1}
    MaxRetries = 1
    Lines = {m1, m2, other}
    Messages = {m1, m2}
    MaxLines = 3
    OutputLimit = 2
    MissingIsFailure = TRUE
SPECIFICATION FairRunnerSpec
INVARIANTS
    StoppedRunHasNoResult
    ResultIsLastMessage
    NothingLeftBehind
PROPERTIES
    EveryRunEnds
CHECK_DEADLOCK FALSE
