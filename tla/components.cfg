CONSTANTS
    CheckedParts = {"invoker", "forced", "ulsr", "hibernate", "dialog", "mode", "settings", "wakeup", "tokens",
        "library", "cover", "sources", "listeners", "callbacks", "proximity", "life", "hdi", "auth", "notice",
        "saver", "script", "scriptEvent", "input"}
    Clients = {k1, k2}
    AppIds = {p, a}
    Params = {lock, send}
    Default = {lock}
    ForceCallers = {"t1", "t2"}
    Interrupters = {"i1"}
    MaxForceCalls = 3
    Tellers = {"n1"}
    HibernateThreads = {"n1"}
    INIT_LONG_PRESS_RETRY = 3
    MaxDialogTasks = 3
    ModeSwitches = {"s1", "s2"}
    Readable = {"s1"}
    Values = {0, 1}
    Policy <- ModePolicy
    Users = {"u1", "u2"}
    OffTimes = {30, 60}
    DEFAULT_DISPLAY_OFF_TIME_MS = 30
    SettingChanges = { {"double", "account"}, {"off", "call", "overlap"}, {"ac", "account"}, {"ac", "supply"},
        {"ac", "call"} }
    MaxSettingUpdates = 2
    ConfigOn = {"powerkey", "touchscreen", "lid"}
    Click = 2
    MaxWakeupSubscriptions = 3
    MaxWakeupUpdates = 2
    BlockTypes = {"LID"}
    Locks = {"l1", "l2"}
    CONNECT_RETRY_COUNT = 2
    MaxServiceStarts = 2
    LidTasks = {"l1", "l2"}
    MaxScreens = 1
    MaxCoverEvents = 3
    Builds = {"charging", "plain", "watch"}
    Texts <- SourceTexts
    SourceConfig <- SourceFile
    MaxSourceSubscriptions = 8
    MaxSourceUpdates = 2
    LockClients = {"k1"}
    LockDisplays = {"d1", "d2"}
    MaxLocks = 1
    MaxListenerCalls = 1
    MaxSensorTasks = 1
    MaxCover = 1
    MaxLives = 4
    MaxHdiStarts = 2
    MaxManagers = 2
    MaxRetries = 2
    AuthCallers = {"c1", "c2"}
    NoticeClients = {"c1"}
    NoticeTimes = {2, 3}
    RemainTimes = {0, 1}
    SaverTimes = {0, 2, 3}
    SaverOffTime <- SupplyOffTime
    MIN_DISPLAY_OFF_TIME_MS = 1
    MaxSaverEvents = 2
    MaxSaverUpdates = 1
    ScriptPromises = {"c1"}
    MaxRefs = 3
    MaxScriptEvents = 2
    Inputs = {"remoteKey"}
    MaxInputTasks = 1

SPECIFICATION GroupSpec
INVARIANTS
    TypesOK InterruptedIsNotSuspended HigherPriorityFirst HibernateIsAnswered DialogCanBeShown
    UserValueIsRestored SwitchesFollowUser OffTimeFollowsSetting MonitorsFollowSettings
    DeadClientsHoldNothing LocksAreRecovered ClientReconnects InternalScreenFollowsCover
    MonitorsFollowSources ListenersAreCurrent ToldWhileRegistered ScreenOffOnlyWhileClose
    DisplayKnowsCover CallbackFollowsHdi PreBrightIsTimed NoticePrecedesDim InputIsHeard
    SaverFollowsSettings
PROPERTY ImplementsClaims
CHECK_DEADLOCK FALSE
