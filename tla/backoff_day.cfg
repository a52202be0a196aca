SPECIFICATION Spec
CONSTANTS
    BACKOFF_TIME_1 = 1
    BACKOFF_TIME_2 = 10
    BACKOFF_TIME_3 = 24
    BACKOFF_BUDGET_1 = 6
    BACKOFF_BUDGET_2 = 5
    BACKOFF_BUDGET_3 = 3
    Airtimes = {1, 2, 5}
    MaxHour = 86
INVARIANT
    BudgetAddsUp
    OverrunOnce
    StateOnTime
PROPERTY
    FollowsCalendar
CHECK_DEADLOCK FALSE
