SPECIFICATION FairSpec
CONSTANTS
    Expiry = 3
    MaxTime = 4
    RetryAfter = 2
    Slack = 1
    OtherTab = {"confirm", "release"}
INVARIANTS
    OneActionAtATime
    ConfirmButtonRecovers
PROPERTY CountdownEnds
CHECK_DEADLOCK FALSE
