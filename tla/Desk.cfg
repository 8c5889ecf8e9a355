SPECIFICATION DeskSpec
CONSTANTS
    u1 = u1  u2 = u2  p1 = p1  p2 = p2  p3 = p3
    t1 = t1  t2 = t2  k1 = k1  k2 = k2  k3 = k3  s1 = s1  s2 = s2
    Threshold = 4
    KeepRecent = 2
    RecentLimit = 3
    Summarizers = {"deterministic"}
    MaxTurns = 12
    MaxMessages = 3
    WithoutId = {2, 3}
    Users = {u1, u2}
    Operators = {u2}
    Approvers = {u1}
    Places = {p1, p2, p3}
    Sessions <- DeskSessions
    Purpose <- DeskPurpose
    Disabled = {p2}
    HasLLM = TRUE
    MaxTickets = 2
    Channels = {"wecom", "feishu", "api"}
    ChannelUsers = {"zhang", "li", "ou_zhang", "wang"}
    Conversations = {"ou_zhang", "api-wang", "repair", "op", "approval", "oc_op", "oc_req"}
    Seed <- DeskSeed
    Spoken <- DeskSpoken
    Staff <- DeskStaff
    Bindable <- DeskBindable
    Registered <- DeskRegistered
    MaxReports = 1
    MaxAgentSteps = 3
    MaxToolCalls = 2
    ProviderNames <- DeskProviders
    MaxRetries = 1
    DbThreads = {t1, t2}
    MigrationFiles = 2
    Rerunnable = {1}
    MaxDepth = 2
    MaxStatements = 2
    CommitMayFail = FALSE
    Calls = {k1, k2, k3}
    KindOf <- DeskKinds
    WarmUpMayFail = TRUE
    LegacyThreads = {t1, t2}
    Posts <- DeskPosts
    EventsOf <- DeskEvents
    MaxCallbacks = 4
    Senders = {s1, s2}
    NetworkEnabled = TRUE
    MaxTokens = 2
    MaxPosts = 2
INVARIANTS
    DeskTypeOK
    ContextTellsHistory
    OwnCaseOnly
    PrivateToOwner
    
    InternalToStaff
    RunStaysInBounds
    TableIsWhatWasTold
    MigrationsInOrder
    EachMessageOnce
    ResultTellsOutcome
PROPERTIES
    ReportNotOnClosed
    ImplementsIntake
    ImplementsUnits
    StreamEnds
CHECK_DEADLOCK FALSE
