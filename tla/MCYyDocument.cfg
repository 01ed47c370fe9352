SPECIFICATION WSpec
CONSTANTS
    Jobs <- MCJobs
    HdrLen = 4
    Strings <- MCStrings
    NumberBytes = {1, 24}
INVARIANTS ReadsText ErrorPlace ReadsBack
PROPERTIES InBounds Terminates
CHECK_DEADLOCK FALSE
