\* One video and two poll loops that never stop polling; two videos, LIMIT 1 and one
\* loop; three requests of images; every fault.
SPECIFICATION MediaSpec
CONSTANTS
    w1 = w1   v1 = v1  v2 = v2 
    Workers = {w1, w2}
    Videos = {v1}
    Lease = 1  Stale = 3  Attempts = 2  Batch = 1
    LastArrival = 0  MaxTime = 5
    Faults <- FaultKinds
    Calls <- ThreeTaps
    Users = {fan}  Bots = {botA, botB}  Tonight = botA
    HardCap = 1  Fallback = 1  Polls = 1  MaxDay = 2
INVARIANTS TypeOK HonestCompletion FinishExclusive AtMostOneJob
INVARIANTS CollagesAreSound
PROPERTIES ImplementsContract NobodyWaitsForEver
CHECK_DEADLOCK FALSE
