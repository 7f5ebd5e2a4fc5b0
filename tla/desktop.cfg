\* Two plugin directories, two plugins of one name that are archived within
\* a second; a file with two entries, one of them odd; a window, a call and
\* a process to show.
SPECIFICATION DesktopSpec
CONSTANTS
    Dirs = {home, chosen}
    DefaultDir = home
    NoDir = NoDir
    Legacy = {oldName}
    Contents = {a, b}
    NoContent = NoContent
    OldFiles = {was}
    NewFiles = {entry, util}
    MaxStamp = 0
    Agents = {"codex", "claude"}
    Entries = {e1, e2}
    OddEntries = {e2}
    ours = ours
    MaxSecond = 1
    Windows = {w1}
    Operations = {o1}
    LoggedOnly = {}
    Processes = {p1}
    NoEntry = NoEntry
    RecentLogs = 1
    RecentRows = 1
    PrintedLogs = 1
    ListedLogs = 2
CHECK_DEADLOCK FALSE
INVARIANTS
    UserPluginsSurvive
    ConfigSurvives
PROPERTIES
    FinishedJobsAreComplete
    LoaderComesLast
    
