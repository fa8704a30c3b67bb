\* Sources, notes, scoring, the dispatch agent and what is on disk, side by side.
SPECIFICATION Spec
CONSTANTS
    Process = {p1, p2}
    Files <- TwoFiles
    Title = {x1, x2}
    MaxIds = 2
    MaxEdits = 1
    MaxWrites = 3
    MaxCalls = 2
    Item = {x1, x2}
    Page = 1
    MaxTime = 2
    TaskLists <- ThreeLists
    MaxTries = 3
    MaxBody = 5
    MaxId = 5
    MaxRuns = 2
    MaxNotes = 2
    Server = {p1, p2}
    Agent = {x1, x2}
    Request = {r1}
    Ready = {y1, y2}
    Body = {b1, b2}
    User = {p1, p2}
    Secret = {x1, x2}
    SecretValue = {v1}
    Phrase = {y1, y2}
    Installed = {"age", "file"}
    Installer = {p1, p2}
    Skill = {one, two}
    Bundled = {one}
    Checked = {one}
    Version = {new}
    Operator = {p1, p2}
    MaxBackups = 1
    MaxClock = 1
    Journaler = {p1, p2}
    Collector = {"github"}
    Interval = 1
    MaxSeconds = 2
    MaxBytes = 3
    MaxBackupFiles = 2
    Lengths = {1, 2, 4}
    MaxLines = 6
    Opener = {p1, p2}
    Newest = 2
SYMMETRY Same
INVARIANTS SourcesReportEverything CallsActOnce ConversionsAreRight SecretsAreKept RestartsLoseNothing
PROPERTIES LinesSurvive NotesAreTrue EveryoneIsJudged SkillsAreKept SettingsAreKept
CHECK_DEADLOCK FALSE
