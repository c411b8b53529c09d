SPECIFICATION FairSpec
CONSTANTS
    Size <- MCSize
    tickGap = 2
    Timeouts = {1, 3, 9, 13, 25, 41}
    Intervals = {5, 9}
    MaxLag = 1
    MaxLate = 20
    MaxRuns = 2
INVARIANT OnTime
INVARIANT NoSelfLock
PROPERTY RunsAgain
