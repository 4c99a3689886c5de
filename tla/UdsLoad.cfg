SPECIFICATION FairHistorySpec
CONSTANTS
    SEC_TIMER = 1
    LOAD_BLOCK_NUMBER = 3
    SEC_ACCESS_FAILED_CNT_MAX = 1
    Requests <- LockAndLoad
    StackAreas <- OneArea
    ReadResults <- Reliable
INVARIANTS LoadNeedsUnlock LoadAccounting CompletedMeansAllRead
PROPERTY LockoutEnds
