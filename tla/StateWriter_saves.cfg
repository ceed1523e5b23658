CONSTANTS
    Capacity = 2
    Throttle = 2
    MaxSaves = 4
    MaxFaults = 2
SPECIFICATION FairSpec
INVARIANT NewestNotForgotten ReplyMeansStored AckedIsDurable
PROPERTY BlockingSaveReturns MailboxDrains
CHECK_DEADLOCK FALSE
