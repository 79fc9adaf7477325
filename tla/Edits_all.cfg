\* A card and three more calls that edit the Soul File; three requests, two starting
\* processes and one edit at the limiter, three calls and one edit at the breaker; four
\* calls of the wizard, and four about a name; two processes labelling, mailing and
\* watching the cost.
SPECIFICATION EditSpec
CONSTANTS
    Parts = {"soul", "limiter", "wizard", "catalogue", "labels", "trending", "digest", "alerts",
             "ideas", "breaker"}
    Procs = {procA, procB}  Calls = {1, 2, 3, 4}  Days = 2
    Offered = {1}  Sessions = {coach}  Sections = {voice}
    Questions = {"who", "tone"}  BotNames = {"meera", "tara", "asha"}  Taken = {"asha"}
    Names = {1, 2, 3, 4, 5}  Creators = {"ann", "bob"}
    Bots <- TwoBots  Overrides = 2  Sweeps = 2
    Requests = {1, 2}  Ttl = 2  Slow = 2  LastTick = 5
    Writers = {procA, procB, force}  Batch = 2
    Reqs = {1, 2, 3}  Puts = {put1}  Limits = {1, 2}  Default <- LowLimits
    Minutes = 2  Outages = TRUE
    Loops = {procA, procB}  Forces = {force}  Keep = 1
    Window <- UnevenWindows  Delay = 1  Restarts = 1  MaxTime = 3
    LlmCalls = {1, 2, 3}  Streams = {3}  Users = {"user"}  UserOf <- OneUser
    Patches = {patch1}  Hour = 2  ConfigTtl = 2  CostTtl = 1
    HourCap = 1  UserCap = 9  BreakerFaults = {"redis", "db", "sql"}
INVARIANTS EditTypeOK ChangesAreAudited  WizardIsSound CatalogueIsSound
INVARIANTS ChangesShow OperatorsToldOnce 
PROPERTIES AppliedStays MarksStay 
\* Calls, requests and edits are finite.
CHECK_DEADLOCK FALSE
