SPECIFICATION FairSpec
CONSTANTS
    Requests = {q1, q2}
    Slots = {s1, s2}
    Backlog = {b1}
INVARIANTS PoolOutlivesTasks StopCutsOnlySlowRequests CleanStopLeavesNothingActive OnlyAPortClashAbandons
PROPERTIES LastWaitEnds SignalStops
CHECK_DEADLOCK FALSE
