SPECIFICATION PagesSpec
CONSTANTS
    Pages = {"settings", "models", "debug", "files", "chat", "output", "agents", "layout"}
    MaxEdits = 3
    MaxRequests = 2
    MaxOpens = 2
    Others = TRUE
    Formats = {"openai", "anthropic"}
    Urls = {"o", "a"}
    DefaultUrl <- Url
    FirstFormat = "openai"
    Names = {"m", "n"}
    MaxAdds = 2
    MaxTurns = 2
    Levels = {"", "error"}
    AllLevels = ""
    MaxLines = 1
    MaxTouches = 5
    Dirs = {1, 2}
    Files = {"a", "b"}
    MaxActs = 4
    MaxFetches = 2
    Answered = "in order"
    Workflows = {1, 2}
    Nodes = {"planner"}
    MaxStreams = 2
    MaxSelects = 1
    MaxNotes = 6
    MayStop = TRUE
    Failing = {"chat", "stream", "get"}
    PlanNodes = {"x"}
    AllNodes = ""
    MaxMoves = 5
    Agents = {"x", "y"}
    AllAgents = ""
    MaxPieces = 4
    Cards = {"a", "b", "c"}
    First = "a"
    Graphs <- Plans
    MaxRow = 3
INVARIANTS
    OwnMessages
    TurnKept
    ListedThere
    OneNudge
    AllInOrder
    Layered
PROPERTIES
    NeverBack
    LogsFollow
    PanelSettles
    ChatSettles
CHECK_DEADLOCK FALSE
