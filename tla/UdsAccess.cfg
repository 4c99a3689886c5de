SPECIFICATION HistorySpec
CONSTANTS
    SEC_TIMER = 3
    LOAD_BLOCK_NUMBER = 4
    SEC_ACCESS_FAILED_CNT_MAX = 3
    Requests <- AccessAndSession
    StackAreas <- OneArea
    ReadResults <- Reliable
INVARIANTS TypeOK WrongKeysLock
PROPERTIES UnlockEarned LockoutHonoured
