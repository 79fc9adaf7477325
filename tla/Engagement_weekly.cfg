\* A conversation set to weekly; only the welcome-backs are on.
SPECIFICATION FairSpec
CONSTANTS
    Loops = {l1}  Editors = {}  Gates = {"proactive"}
    NudgeSoon = 0  NudgeLater = 1  NudgeUntil = 3  Day = 3  Week = 9  Base = 2
    MaxCount = 5
PROPERTY WeeklyIsServed
