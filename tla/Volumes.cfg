SPECIFICATION MCSpec
CONSTANTS
    MaxLength = 4
    MaxVolumes = 2
    MaxUsers = 2
    Characters <- MCCharacters
    Patterns <- MCPatterns
    PVCs <- MCPVCs
    RemotePath <- MCRemotePath
    StagedPatterns <- MCStagedPatterns
    Providers <- MCProviders
    backends = {"s3", "google cloud storage", "crypt"}
    Denied = {"profile"}
    KubernetesKeys <- MCKubernetesKeys
    FlagName <- MCFlagName
    OptionName <- MCOptionName
    BackendFlag <- MCBackendFlag
    RemoteNames = {"r", "c", "d", "s3", "gcs", "google cloud storage", "crypt", "local"}
    WrappedRemote <- MCWrappedRemote
    HostOf <- MCHostOf
    HostsOf <- MCHostsOf
    StaticVolumes <- MCStaticVolumes
    PodVolumes <- MCPodVolumes
    Secrets <- MCSecrets
    StartedWith <- MCStartedWith
INVARIANTS
    VolumesTypeOK
    NamespaceIsolation
    StaysUnderRemotePath
    OwnArguments
    ContextWins
    PodsBringCredentials
    OnlyAllowed
    NoWrapCycles
    MountedUnderRemotePath
CHECK_DEADLOCK FALSE
