SPECIFICATION KubeletSpec
CONSTANTS
    i1 = i1  i2 = i2  s1 = s1  t1 = t1  e1 = e1  c1 = c1  c2 = c2
    Ids = {i1}
    Stagings = {}
    Targets = {}
    Ephemerals = {e1}
    Calls = {c1, c2}
    StagingOf <- MCStagingOf
    IdsOf <- MCIdsOf
    Reconciler = Reconciler
    Faults = {"timeout"}
    Writers = {}
    DaemonLifetime = "systemd"
    Legacy <- NoLegacy
    NoId = NoId
    NoPath = NoPath
INVARIANTS
    UnpublishedIsBare
