SPECIFICATION FairSpec
CONSTANTS
    i1 = i1  i2 = i2  s1 = s1  t1 = t1  e1 = e1  c1 = c1  c2 = c2
    Ids = {i1}
    Stagings = {s1}
    Targets = {t1}
    Ephemerals = {}
    Calls = {c1}
    StagingOf <- MCStagingOf
    IdsOf <- MCIdsOf
    Reconciler = Reconciler
    Faults = {"crash", "kill", "term", "save", "remove", "rmall", "start", "detach", "bind"}
    Writers = {}
    DaemonLifetime = "auto"
    Legacy <- OneLegacy
    NoId = NoId
    NoPath = NoPath
PROPERTIES
    MountedComesBack
    CallsReturn
    NothingLeftBehind
