SPECIFICATION MCSpec
CONSTANTS
    None = None
    Nobody = None
    Absent = None
    ann = ann
    bob = bob
    c1 = c1
    c2 = c2
    Users <- MCUsers
    Writers <- MCWriters
    Contexts <- MCContexts
    Jobs <- MCJobs
    RuleLists <- MCRuleLists
    Viewers <- MCViewers
    MaxMoves = 5
    People <- MCUsers
    Places <- MCPlaces
    Pulls <- MCPulls
    MaxPosts = 4
    Viewer = ann
    Asks <- MCAsks
    Items <- MCItems
    Known <- MCKnown
    Split <- MCSplit
    main = main
    own = own
    yml = yml
    new = new
    Files <- MCFiles
    WORKFLOW_DIRECTORIES <- MCDirectories
    Main = main
    RECENT = 2
    MAX_LIMIT = 3
    MAX_RUN_PAGES = 3
    SIZE = 2
    RunQueries <- MCRunQueries
    MaxStarts = 2
INVARIANTS
    VerdictTruthful
    HeadNeverMistaken
    AutoMergeOffered
    ThreadsWhole
    ClosesOnMerge
    SearchMeansIt
    RunsListed
    RunsNamed
CHECK_DEADLOCK FALSE
