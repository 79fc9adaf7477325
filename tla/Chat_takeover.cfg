\* The AI's reply to a message sent during a takeover.
SPECIFICATION Spec
CONSTANTS
    Calls = {1, 2, 3}  Sweepers = {w1}  Keys = {k1}
    Timeout = 0  LastWord = 1  MaxTime = 2
INVARIANT NoReplyInTakeover
CHECK_DEADLOCK FALSE
