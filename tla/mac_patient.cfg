SPECIFICATION FairSpec
CONSTANTS
    BACKOFF_TIME_1 = 1
    BACKOFF_TIME_2 = 1
    BACKOFF_TIME_3 = 1
    BACKOFF_BUDGET_1 = 1
    BACKOFF_BUDGET_2 = 1
    BACKOFF_BUDGET_3 = 0
    Airtimes = {1}
    FCNT16 = 8
    FCNT32 = 16
    MAX_FCNT_GAP = 4
    Payloads = {p1, p2}
    Frames <- MC_FewFrames
    RETX = 2
    MaxFcnt = 2
    NoFrame = NoFrame
    Disturbances = {}
INVARIANT
    TimeoutOnlyInWindow
    ExchangeInv
    RestIffAnswered
    WakeupPending
PROPERTY
    ExchangeAdvances
    OneFramePerFcnt
    ConfirmMatchesRequest
    JoinConfirmOwed
    ImplementsService
    ImplementsClassA
    ImplementsFairService
    JoinAnswered
