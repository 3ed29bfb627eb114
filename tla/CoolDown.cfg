SPECIFICATION Spec
CONSTANTS
    Expiry = 3
    MaxTime = 4
    RetryAfter = 2
    Slack = 0
    OtherTab = {}
INVARIANT HonoursRetryAfter
CHECK_DEADLOCK FALSE
