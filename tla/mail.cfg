\* One message a webhook announces: a scheduled flush and the one its enqueue starts overlap,
\* processes die, answers are lost on the way, and three attempts are allowed.
SPECIFICATION LiveSpec
CONSTANTS
    m1 = m1
    f1 = f1
    Message = {m1}
    Redelivered = {m1}
    Cron = {f1}
    CronLimit = 2
    MaxAttempts = 3
    Answer = {"accepted", "refused", "failed", "lost"}
    DeliveryBound = 3
    CrashBound = 2
    NoMessage = NoMessage
INVARIANTS TypeOK PatienceKept AcceptedOnce
PROPERTIES RowsOnlyAdvance ConfirmedIsQueued EveryMessageEnds
CHECK_DEADLOCK FALSE
