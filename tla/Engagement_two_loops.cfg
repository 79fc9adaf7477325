\* Two of the processes that run the loop.
SPECIFICATION Spec
CONSTANTS
    Loops = {l1, l2}  Editors = {}  Gates <- Systems
    NudgeSoon = 0  NudgeLater = 1  NudgeUntil = 3  Day = 3  Week = 9  Base = 2
    MaxCount = 5
INVARIANT NudgesCapped
