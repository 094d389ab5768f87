SPECIFICATION FairSpec
CONSTANTS
    i1 = i1  i2 = i2  s1 = s1  t1 = t1  e1 = e1  c1 = c1  c2 = c2
    Ids = {i1}
    Stagings = {s1}
    Targets = {t1}
    Ephemerals = {e1}
    Calls = {c1}
    StagingOf <- MCStagingOf
    IdsOf <- MCIdsOf
    Reconciler = Reconciler
    Faults = {"kill", "rmall", "args", "start", "detach", "stop", "timeout", "drain"}
    Writers = {t1}
    DaemonLifetime = "systemd"
    Legacy <- NoLegacy
    NoId = NoId
    NoPath = NoPath
PROPERTIES
    DeadMountsComeBack
    BindsComeBack
    CallsReturn
    NothingLeftBehind
