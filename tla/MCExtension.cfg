SPECIFICATION ExtensionSpec
CONSTANTS
    s1 = s1
    j1 = j1
    j2 = j2
    t1 = t1
    v1 = v1
    v2 = v2
    a = a
    k1 = k1
    k2 = k2
    p1 = p1
    sp = sp
    dot = dot
    pa = pa
    r1 = r1
    o1 = o1
    o2 = o2
    Studios = {s1}
    LetterJobs = {j1, j2}
    Texts <- MCTexts
    MaxLetters = 1
    MaxVersions = 2
    MaxPendingSaves = 2
    MaxEditSteps = 1
    PageTabs = {t1}
    PageVacancies = {v1, v2}
    MaxNavigations = 1
    MaxRefreshes = 2
    MaxResets = 1
    Cards = {a}
    PageVacancy = a
    BadgeStatuses = {"saved", "new"}
    MaxElements = 2
    MaxRenders = 3
    MaxChanges = 1
    Tracked = {v1}
    TaskIds = {k1, k2}
    Profiles = {p1}
    MoveTargets = {"applied", "saved"}
    DailyLimit = 1
    MaxHistory = 3
    MaxTasks = 2
    MaxSwitches = 1
    PairingPages = {sp, dot}
    SettingsPage = sp
    MaxTokens = 2
    MaxOpsSwitches = 1
    ProfileIds = {pa, pb}
    ResumeIds = {r1, r2}
    Nothing = Nothing
    MaxClicks = 2
    OptionsPages = {o1, o2}
    MaxPresses = 3
    Readers = {dot}
    MaxLocalChanges = 1
    MaxToggles = 1
    MaxImports = 2
INVARIANTS
    FinalKeepsConstraints
    StaleAnswersAreDropped
    AppliedWasDeclared
    ForgottenStaysForgotten
    ReferencesResolve
    OpsFollowsImport
    ResetLeavesNothing
PROPERTY
    BadgesNeverGoBack
CHECK_DEADLOCK FALSE
