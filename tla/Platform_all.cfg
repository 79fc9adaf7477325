\* Two edits of the pins; three calls at a limited provider with one slot; the watchdog's
\* engine and two loops; every fault but a lost reply of Docker's.
SPECIFICATION PlatformSpec
CONSTANTS
    Procs = {procA, procB}  Pins = {pin}  Handlers = {"admin"}  MaxEdits = 2
    RoutingFaults = {"redis", "restart", "select"}
    Calls = {1, 2, 3}  Streams = {2}  Backed = {1}  Cap <- OneSlot
    Limited = {"primary"}  Token = 2  Capacity = 3  MaxWait = 2  Timeout = 2
    RetryAfter = 1  MaxRetries = 1  Span = 3
    Threads = {"dns", "drift"}  Services = {"patroni", "sentinel"}  Watches <- SharedWatches
    Allowlisted = {"patroni", "sentinel"}  MaxPerHour = 2  MaxGlobalPerHour = 3
    Window = 1  MaxTime = 2  HealFaults = {"refused"}
    DriftAfter = 1  MaxAge = 1  MayVanish = TRUE  DriftFaults = {"list", "tasks"}
    LeaderAfter = 1  LastPoll = 12  Unreachable = TRUE
INVARIANTS PlatformTypeOK QuietMeansAgreed  
PROPERTIES EpisodesAreTold PlatformDelivers
\* The calls and edits of a behaviour are finite.
CHECK_DEADLOCK FALSE
