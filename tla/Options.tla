------------------------------ MODULE Options ------------------------------
(***************************************************************************)
(* From a volume to the rclone that serves it (nodeserver.go, options.go,  *)
(* rclone.go): volume context and Secret are merged, checked against the   *)
(* allow-list, and become the arguments of rclone and the name of its      *)
(* mount.                                                                  *)
(*                                                                         *)
(* Texts are names; the tables below say what the code reads in them.  A   *)
(* map of the code is a function, a path a sequence of characters, and     *)
(* configData a sequence of lines.                                         *)
(***************************************************************************)
EXTENDS Naturals, Sequences, FiniteSets, FiniteSetsExt, TLC

CONSTANTS
    Providers,        \* what rclone supports: [prefix, options] of a backend
    backends,         \* the backends csi-rclone supports
    Denied,           \* the option names that deny matches
    KubernetesKeys,   \* keys with a "/"
    FlagName,         \* the rclone flag a key spells
    OptionName,       \* the backend option a key of configData spells
    BackendFlag,      \* the prefix and the option a flag is made of
    RemoteNames,      \* what remoteName matches
    WrappedRemote,    \* [inline, name] of a value name:path or :type:path
    HostOf,           \* the host of a URL or a host:port
    HostsOf           \* the hosts an entry of --allowed-endpoints stands for

VARIABLE settings    \* the flags the plugin was started with

Settings == [ReuseMounts : BOOLEAN, UnrestrictedOptions : BOOLEAN,
             AllowedBackends : SUBSET (DOMAIN Providers \cup {Providers[b].prefix : b \in backends}),
             AllowedEndpoints : SUBSET DOMAIN HostsOf]

-----------------------------------------------------------------------------
(* The allow-list *)

(* Of the mount and VFS flags, those that the model tells apart. *)
mountFlags == {"umask", "vfs-cache-mode", "dir-cache-time", "allow-other"}

wrapperOptions == {"remote"}

(* The keys of a volume that are no flags. *)
VolumeKeys == {"remote", "remotePath", "remotePathSuffix", "configData"}

(* rclone tells the supported backends from all others by type and by      *)
(* prefix, and no flag of a mount is one of a supported backend or says    *)
(* what a backend wraps.  A key is one of Kubernetes, one of the volume or *)
(* a flag.                                                                 *)
ASSUME OptionsAssumption ==
    /\ backends \subseteq DOMAIN Providers
    /\ \A b \in backends : \A c \in DOMAIN Providers :
          {b, Providers[b].prefix} \cap {c, Providers[c].prefix} # {} => b = c
    /\ \A name \in mountFlags \cap DOMAIN BackendFlag :
          /\ \A b \in backends : BackendFlag[name].prefix # Providers[b].prefix
          /\ BackendFlag[name].option \notin wrapperOptions
    /\ KubernetesKeys \cap (VolumeKeys \cup DOMAIN FlagName) = {}
    /\ VolumeKeys \cap DOMAIN FlagName = {}

endpointOptions ==
    {"endpoint", "url", "host", "auth", "storage_url", "download_url", "sas_url", "tenant_url"}

(* Mutant: the generator denies nothing. *)
SchemasOfAll ==
    [b \in backends |-> [prefix |-> Providers[b].prefix, options |-> Providers[b].options]]

(* gen-options: the options of the supported backends that are not denied. *)
backendSchemas ==
    [b \in backends |-> [prefix |-> Providers[b].prefix, options |-> Providers[b].options \ Denied]]

(* By config type or by flag prefix; empty if it is not allowed. *)
backendOf(backend) ==
    {backendSchemas[b] : b \in {c \in backends :
        LET names == {c, backendSchemas[c].prefix} IN
        /\ backend \in names
        /\ settings.AllowedBackends = {} \/ settings.AllowedBackends \cap names # {}}}

validateEndpoint(value) ==
    \/ settings.AllowedEndpoints = {}
    \/ \E allowed \in settings.AllowedEndpoints : HostOf[value] \in HostsOf[allowed]

(* section["type"], which is empty for a section without one. *)
BackendType(section) == IF "type" \in DOMAIN section THEN section["type"] ELSE ""

(* Mutant: a remote may wrap one that wraps. *)
WrappedRemoteOfAnyType(value, sections) ==
    /\ value \in DOMAIN WrappedRemote
    /\ LET name == WrappedRemote[value].name IN
       /\ name \in RemoteNames
       /\ WrappedRemote[value].inline \/ name \in DOMAIN sections
       /\ backendOf(IF WrappedRemote[value].inline THEN name ELSE BackendType(sections[name])) # {}

(* A remote of configData or :type:, which does not wrap another. *)
validateWrappedRemote(value, sections) ==
    /\ value \in DOMAIN WrappedRemote
    /\ LET name == WrappedRemote[value].name IN
       /\ name \in RemoteNames
       /\ WrappedRemote[value].inline \/ name \in DOMAIN sections
       /\ \E schema \in backendOf(IF WrappedRemote[value].inline THEN name
                                  ELSE BackendType(sections[name])) :
             schema.options \cap wrapperOptions = {}

validateOption(schema, option, value, sections) ==
    /\ option \in schema.options
    /\ option \in wrapperOptions => validateWrappedRemote(value, sections)
    /\ option \in endpointOptions \ wrapperOptions => validateEndpoint(value)

validateFlag(key, value, sections) ==
    LET name == FlagName[key] IN
    \/ name \in mountFlags
    \/ /\ name \in DOMAIN BackendFlag
       /\ \E b \in backends : \E schema \in backendOf(b) :
             /\ schema.prefix = BackendFlag[name].prefix
             /\ validateOption(schema, BackendFlag[name].option, value, sections)

-----------------------------------------------------------------------------
(* configData: lines [sort, text, value, brackets], of the sort "header",  *)
(* "option", "comment" or "junk".  The text of a header is its name, and   *)
(* brackets are the names n for which the line has "[n]": that of a header *)
(* unless there are blanks around it, and what a comment or a value says.  *)

LinesOf(configData, sort) == {k \in DOMAIN configData : configData[k].sort = sort}

(* The lines of the section that begins with line h. *)
SectionLines(configData, h) ==
    {k \in LinesOf(configData, "option") :
        h < k /\ \A g \in LinesOf(configData, "header") : g <= h \/ k < g}

(* What parseConfig refuses: lines it cannot read, options before the      *)
(* first section, invalid names and sections that occur twice.             *)
WellFormedConfig(configData) ==
    LET headers == LinesOf(configData, "header") IN
    /\ LinesOf(configData, "junk") = {}
    /\ \A k \in LinesOf(configData, "option") : \E h \in headers : h < k
    /\ \A h \in headers : configData[h].text \in RemoteNames
    /\ \A g, h \in headers : configData[g].text = configData[h].text => g = h

(* The sections by name; the last value of a key counts. *)
parseConfig(configData) ==
    LET headers == LinesOf(configData, "header") IN
    [name \in {configData[h].text : h \in headers} |->
        LET lines == SectionLines(configData, CHOOSE h \in headers : configData[h].text = name)
        IN  [key \in {configData[k].text : k \in lines} |->
                configData[Max({k \in lines : configData[k].text = key})].value]]

validateOptions(a) ==
    settings.UnrestrictedOptions \/
    LET sections == parseConfig(a.configData) IN
    /\ WellFormedConfig(a.configData)
    /\ \A name \in DOMAIN sections :
          \E schema \in backendOf(BackendType(sections[name])) :
             \A key \in DOMAIN sections[name] \ {"type", "description"} :
                validateOption(schema, OptionName[key], sections[name][key], sections)
    /\ a.remote \in RemoteNames
    /\ a.remote \in DOMAIN sections \/ backendOf(a.remote) # {}
    /\ \A key \in DOMAIN a.flags : validateFlag(key, a.flags[key], sections)

-----------------------------------------------------------------------------
(* The arguments of a volume *)

Get(map, key, default) == IF key \in DOMAIN map THEN map[key] ELSE default

(* Mutant: the Secret overrides the volume. *)
MergedSecretFirst(context, secret) ==
    secret @@ [key \in DOMAIN context \ KubernetesKeys |-> context[key]]

(* The Secret holds the defaults. *)
Merged(context, secret) ==
    LET given == DOMAIN context \ KubernetesKeys
    IN  [key \in given \cup DOMAIN secret |-> IF key \in given THEN context[key] ELSE secret[key]]

validateFlags(flags) == {"remote", "remotePath"} \subseteq DOMAIN flags

(* The arguments of rclone, and none if they are refused. *)
extractFlags(context, secret, readOnly) ==
    LET all == Merged(context, secret)
        a   == [remote     |-> all["remote"],
                remotePath |-> all["remotePath"] \o Get(all, "remotePathSuffix", <<>>),
                configData |-> Get(all, "configData", <<>>),
                flags      |-> [key \in DOMAIN all \ VolumeKeys |-> all[key]],
                readOnly   |-> readOnly]
    IN  IF validateFlags(all) /\ validateOptions(a) THEN {a} ELSE {}

(* capability: [mode, mountFlags] *)
isReadOnly(capability) ==
    \/ capability.mode \in {"SINGLE_NODE_READER_ONLY", "MULTI_NODE_READER_ONLY"}
    \/ "ro" \in capability.mountFlags

(* Mutant: the hash leaves out the path. *)
MountIDOfRemote(volumeID, a) ==
    IF settings.ReuseMounts THEN <<a.remote, a.configData, a.flags, a.readOnly>> ELSE <<volumeID>>

(* A hash of all arguments is as good as the arguments. *)
mountID(volumeID, a) ==
    IF settings.ReuseMounts
    THEN <<a.remote, a.remotePath, a.configData, a.flags, a.readOnly>> ELSE <<volumeID>>

-----------------------------------------------------------------------------
(* The rclone of a mount *)

defaultFlags == "vfs-cache-mode" :> "writes" @@ "dir-cache-time" :> "5s" @@ "allow-other" :> "true"

(* The variable of a key: keys have the same one exactly if they spell the *)
(* same flag.                                                              *)
flagToEnvName(key) == FlagName[key]

(* The values rclone may find in the variable of a flag: the last one that *)
(* is set, and the flags of the volume are set after the defaults, in the  *)
(* order of a Go map.                                                      *)
Environment(a, name) ==
    LET given == {key \in DOMAIN a.flags : flagToEnvName(key) = name}
    IN  IF given # {} THEN {a.flags[key] : key \in given}
        ELSE {defaultFlags[key] : key \in DOMAIN defaultFlags \cap {name}}

(* remoteWithPath: a section if "[remote]" occurs anywhere in configData,  *)
(* or else the backend.                                                    *)
Root(a) ==
    IF \E k \in DOMAIN a.configData : a.remote \in a.configData[k].brackets
    THEN <<"section", a.remote>> ELSE <<"backend", a.remote>>

=============================================================================
