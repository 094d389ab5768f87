SPECIFICATION Spec
CONSTANTS
    i1 = i1  s1 = s1  t1 = t1  e1 = e1  c1 = c1
    Ids = {i1}
    Stagings = {s1}
    Targets = {t1}
    Ephemerals = {e1}
    Calls = {c1}
    StagingOf <- MCStagingOf
    IdsOf <- MCIdsOf
    Reconciler = Reconciler
    Faults = {"crash", "kill", "term", "hang", "umount", "load", "save", "remove", "rmall", "args", "start", "detach", "bind"}
    Writers = {}
    DaemonLifetime = "systemd"
    Legacy <- NoLegacy
    NoId = NoId
    NoPath = NoPath
VIEW WithoutTold
INVARIANTS
    TypeOK
    MutualExclusion
    StateStays
    LastUserUnmounts
    KnownRclones
PROPERTIES
    KeepsSharedMounts
