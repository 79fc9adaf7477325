\* Four calls of any kind in one conversation, two processes sweeping; two people, a bot
\* and three messages in the inbox; two slots of memory; one phone and two processes;
\* three exchanges of two tickets; three calls about one skill; replies of six letters.
SPECIFICATION SocialSpec
CONSTANTS
    Calls = {1, 2, 3, 4}  Sweepers = {w1, w2}  Keys = {k1}
    Timeout = 0  LastWord = 1  MaxTime = 2
    Users = {ann, bob}  Bot = bot  Owner = owner  Opens = {1, 2}  MaxMail = 3
    Mints = {1, 2}  Exchanges = {3, 4, 5}  Ttl = 2  LastTick = 4
    Slots = {1, 2}  Values = {"biryani", "pulao", "cricket"}  Near <- Chain
    Messages = {1, 2}  MaxFacts = 2  Passes = {1, 2}
    Facts = {"biryani", "cricket"}  Searches <- TwoSearches
    TopK = 1  Depth = 5  Repeat = 3  Turns = {1, 2}
    Hosts = {p1, p2}  Phones = {phone}  Events = {1, 2}  Outages = 2  Days = 4
    Edits = {1, 2, 3}  Fields = {topic, pace}  Required = {topic}
    OpenTag <- ThreeLetters  CloseTag = 4  Other = 5  MaxToken = 2  MaxText = 6
INVARIANTS SocialTypeOK HistoryIsSound OneLeftPerTakeover  NothingRepeated
INVARIANTS MarkersStayHidden StreaksAreEarned
PROPERTIES  SkillStays
\* The calls of a behaviour are finite.
CHECK_DEADLOCK FALSE
