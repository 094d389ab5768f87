SPECIFICATION KubeletSpec
CONSTANTS
    i1 = i1  i2 = i2  s1 = s1  t1 = t1  e1 = e1  c1 = c1  c2 = c2
    Ids = {i1}
    Stagings = {s1}
    Targets = {t1}
    Ephemerals = {e1}
    Calls = {c1, c2}
    StagingOf <- MCStagingOf
    IdsOf <- MCIdsOf
    Reconciler = Reconciler
    Faults = {"kill", "term", "hang", "umount", "args", "start", "detach", "bind"}
    Writers = {t1}
    DaemonLifetime = "systemd"
    Legacy <- NoLegacy
    NoId = NoId
    NoPath = NoPath
SYMMETRY CallSymmetry
INVARIANTS
    StagedIsRecorded
    PublishedIsRecorded
    UnpublishedIsBare
    PodsKeepTheirMount
    OnlyGoneReplaced
    UploadsAwaited
