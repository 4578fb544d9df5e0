SPECIFICATION MCSpec
CONSTANTS
    Files = {plugin, core}
    Plugin = plugin
    Helpers = {h1, h2}
    MaxVersion = 3
    MaxSessions = 2
    MaxEdition = 3
    MaxStarts = 3
    Browsers = {b}
    Installs = {i, j}
    App = app
    Threads = {t1}
    Panel = panel
    MaxOps = 2
    MaxTokens = 2
    Tracks = {x, y}
    PageSize = 1
    MaxEdits = 2
    MaxAsks = 3
    None = None
SYMMETRY Symmetry
INVARIANTS  HolderKnown ToldOrWoken InstallWhole  MarkerCommits AcceptedUnlessStitched
PROPERTIES NeverOlder
CHECK_DEADLOCK FALSE
