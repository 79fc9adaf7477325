\* The only fault is a worker that dies; the stale window is never reached.
SPECIFICATION Spec
CONSTANTS
    Workers = {w1, w2}
    Videos = {v1}
    Lease = 1  Stale = 9  Attempts = 1  Batch = 1
    LastArrival = 0  MaxTime = 3
    Faults = {"crash"}
INVARIANTS DraftedIsNotFailed
