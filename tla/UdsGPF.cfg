SPECIFICATION HistorySpec
CONSTANTS
    SEC_TIMER = 1
    LOAD_BLOCK_NUMBER = 4
    SEC_ACCESS_FAILED_CNT_MAX = 3
    Requests <- UnlockAndLoad
    StackAreas <- OneArea
    ReadResults = {TRUE, FALSE}
PROPERTIES FailedReadEndsLoad
