SPECIFICATION Spec
CONSTANTS
    BACKOFF_TIME_1 = 1
    BACKOFF_TIME_2 = 1
    BACKOFF_TIME_3 = 1
    BACKOFF_BUDGET_1 = 0
    BACKOFF_BUDGET_2 = 0
    BACKOFF_BUDGET_3 = 0
    Airtimes = {1}
    FCNT16 = 8
    FCNT32 = 16
    MAX_FCNT_GAP = 4
    Payloads = {p1}
    Frames <- MC_FewFrames
    RETX = 1
    MaxFcnt = 1
    NoFrame = NoFrame
    Disturbances = {"overlapping_requests", "reset_in_flight", "foreign_frames"}
INVARIANT
    TypeOK
    RadioFollowsState
    LinkCheckDue
PROPERTY
    FcntDownMonotone
