\* Each part by itself: bounded requests, logs, clocks and releases may stop one.
SPECIFICATION DashboardSpec
CONSTANTS
    Plugins = {"plugin"}
    Jobs = {j1, j2}
    MaxVersion = 2
    MaxMc = 2
    KeepBackups = 1
    MaxRequests = 3
    AuthStates = {a1, a2}
    Sessions = {d1, d2}
    Releases = 3
    Processes = {w1, w2}
    Staff = {admin, helper}
    Admins = {admin}
    Players = {alice, bob}
    Ids = {r1, r2}
    MaxLog = 2
    Helpers = {carol}
    Permissions = {"remove", "prune"}
    Capabilities = {"prune"}
    HiddenRevokes = {"remove"}
    Presets <- MCPresets
    Nobody = Nobody
    ProfileIds = {sample, live, other}
    SampleProfile = sample
    LiveProfile = live
    Folders = {f1, f2}
    SampleFolder = sampleFolder
    NoServer = NoServer
    Viewers = {viewer}
    MaxLogged = 3
    Noise = {2}
    Untimed = {1}
    ReadTimes = {1, 2}
    BufferSize = 2
    RecentSize = 2
    QueueSize = 1
    SentSize = 2
INVARIANTS
    DashboardTypeOK
    TrackingExact
    ScriptLaunchesTracked
    StateAuthorisesOnce
    AppliedIsInstalled
    ConfigFollowsAdministrator
    ScheduledRunsUnderLock
    OneActive
    DemotionRestores
    EveryLineOnce
    NoLineSkipped
PROPERTIES
    EndedSessionsStay
    KeptWhileRunning
