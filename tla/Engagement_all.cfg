\* One engagement loop with every system on; three calls of the chat and one sweep; three
\* bots, one request, one ranker and one fault in the feed.
SPECIFICATION LoopsSpec
CONSTANTS
    Calls = {1, 2, 3}  Sweepers = {procA}  Keys = {}  Timeout = 0  LastWord = 1  MaxTime = 2
    Loops = {l1}  Editors = {e1}  Gates = {"proactive", "skill_proactive", "nudge"}
    NudgeSoon = 0  NudgeLater = 1  NudgeUntil = 2  Day = 2  Week = 6  Base = 2
    MaxCount = 5
    newest = newest  middle = middle  oldest = oldest
    Bots = {newest, middle, oldest}  Newest <- ByAge  Order <- Shuffled  Rankings <- ByScore
    Requests = {1}  Rankers = {1}  Limit = 1  SoftLimit = 2
    Changes = 1  Faults = 1  SkillTopN = 1  PrefixLen = 2  MaxDominant = 1  Unit = 4
INVARIANTS LoopsTypeOK   NothingShownTwice FeedIsFair
  
\* The calls of the chat are finite.
CHECK_DEADLOCK FALSE
