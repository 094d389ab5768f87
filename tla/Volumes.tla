------------------------------ MODULE Volumes ------------------------------
(***************************************************************************)
(* Controller and Options together: volumes are provisioned, written down  *)
(* by an administrator or brought by a pod, and the node plugin mounts     *)
(* them, those with equal arguments by one rclone.  RcloneNode says how a  *)
(* mount is shared and repaired; here it is there or not.                  *)
(***************************************************************************)
EXTENDS Controller, Options

CONSTANTS
    StaticVolumes,    \* PersistentVolumes that an administrator wrote
    PodVolumes,       \* ephemeral volumes
    Secrets,          \* what a call may find in rclone-secret, which may change
                      \* between any two of them
    StartedWith,      \* the settings the plugin may be started with
    StagedPatterns,   \* bound: the pathPatterns whose volumes are mounted
    MaxUsers          \* bound: the volumes that are mounted at a time, and
                      \* the mounts

VARIABLE mounts    \* the mounts of the node: [id, args, users]

allVars == <<class, volumes, settings, mounts>>

NoSecret == [key \in {} |-> ""]

(* Only CreateVolume provisions, and remotePath is text. *)
ASSUME VolumesAssumption ==
    /\ \A volume \in StaticVolumes \cup PodVolumes : volume.kind \in {"static", "ephemeral"}
    /\ \A s \in Secrets : Get(s, "remotePath", <<>>) \in Seq(Characters)

VolumesTypeOK ==
    /\ TypeOK
    /\ settings \in Settings
    /\ \A m \in mounts : \A user \in m.users : user.secret \in Secrets \cup {NoSecret}

-----------------------------------------------------------------------------

(* The PersistentVolume of a volume that CreateVolume answered, and the    *)
(* namespace of its claim.                                                 *)
Provisioned(v) ==
    [kind |-> "provisioned", namespace |-> v.namespace, secrets |-> NoSecret,
     capability |-> [mode |-> "MULTI_NODE_MULTI_WRITER", mountFlags |-> {}],
     context |-> [key \in {"storage.kubernetes.io/csiProvisionerIdentity"}
                            \cup (IF v.remotePathSuffix = <<>> THEN {} ELSE {"remotePathSuffix"})
                            \cup (IF v.umask = "none" THEN {} ELSE {"umask"}) |->
                    CASE key = "remotePathSuffix" -> v.remotePathSuffix
                      [] key = "umask"            -> v.umask
                      [] OTHER                    -> ""]]

(* rclone-secret is not applied. *)
ephemeralArgs(volume) ==
    extractFlags(volume.context, volume.secrets, isReadOnly(volume.capability))

(* Mutant: rclone-secret completes what a pod brings. *)
ArgumentsWithDefaults(volume, s) ==
    extractFlags(volume.context, volume.secrets @@ s, isReadOnly(volume.capability))

(* NodeStageVolume, and NodePublishVolume of an ephemeral volume.  s is    *)
(* what getSecret returned.                                                *)
ArgumentsOf(volume, s) ==
    IF volume.kind = "ephemeral" THEN ephemeralArgs(volume)
    ELSE extractFlags(volume.context, s, isReadOnly(volume.capability))

Users == UNION {m.users : m \in mounts}

(* What a call may read of rclone-secret.  An error is not told from a     *)
(* Secret that does not exist: the volume is mounted without, unless it is *)
(* incomplete then.                                                        *)
getSecret == Secrets \cup {NoSecret}

(* rclone exits if it does not know the remote it is given. *)
RcloneStarts(a) ==
    LET root == Root(a) IN
    IF root[1] = "section" THEN root[2] \in DOMAIN parseConfig(a.configData)
    ELSE \E b \in DOMAIN Providers : root[2] \in {b, Providers[b].prefix}

(* acquire, a mount that is not there: mountRclone.  Nobody uses it yet.   *)
Mount(id, a) ==
    /\ Cardinality(mounts) < MaxUsers
    /\ \A m \in mounts : m.id # id
    /\ RcloneStarts(a)
    /\ mounts' = mounts \cup {[id |-> id, args |-> a, users |-> {}]}

(* acquire, a mount that is there: the user is recorded.  This ends the    *)
(* call that has mounted it or, if that failed or the plugin stopped       *)
(* before, a later one, which has read the Secret anew.                    *)
Join(id, user) ==
    \E m \in mounts :
        /\ m.id = id
        /\ mounts' = (mounts \ {m}) \cup {[m EXCEPT !.users = @ \cup {user}]}

(* lockMountOf finds a volume that is mounted, and nothing is done. *)
Attach(volume) ==
    /\ Cardinality(Users) < MaxUsers
    /\ \A user \in Users : user.volume # volume
    /\ \E s \in getSecret : \E a \in ArgumentsOf(volume, s) :
          LET id == mountID(volume, a)
          IN  Mount(id, a) \/ Join(id, [volume |-> volume, secret |-> s])
    /\ UNCHANGED <<class, volumes, settings>>

(* reconcile: a mount that nobody uses is unmounted. *)
Reconcile(m) ==
    /\ m.users = {}
    /\ mounts' = mounts \ {m}
    /\ UNCHANGED <<class, volumes, settings>>

Detach(m, user) ==
    LET rest == m.users \ {user} IN
    /\ mounts' = (mounts \ {m}) \cup IF rest = {} THEN {} ELSE {[m EXCEPT !.users = rest]}
    /\ UNCHANGED <<class, volumes, settings>>

-----------------------------------------------------------------------------

Provision ==
    /\ Next
    /\ UNCHANGED <<settings, mounts>>

Known == {Provisioned(v) : v \in volumes} \cup StaticVolumes \cup PodVolumes

Serve ==
    /\ class.pathPattern \in StagedPatterns
    /\ \/ \E volume \in Known : Attach(volume)
       \/ \E m \in mounts : Reconcile(m) \/ \E user \in m.users : Detach(m, user)

VolumesInit ==
    /\ Init
    /\ settings \in StartedWith
    /\ mounts = {}

VolumesNext == Provision \/ Serve

VolumesSpec == VolumesInit /\ [][VolumesNext]_allVars

-----------------------------------------------------------------------------
(* What rclone makes of its arguments: the remotes it opens, each with the *)
(* options of its section and those of the environment                     *)

PrefixesOf(type) == {Providers[b].prefix : b \in {c \in DOMAIN Providers :
                                                    type \in {c, Providers[c].prefix}}}

TypeAt(a, n) == IF n[1] = "section" THEN BackendType(parseConfig(a.configData)[n[2]]) ELSE n[2]

OptionsAt(a, n) ==
    (IF n[1] # "section" THEN {}
     ELSE LET section == parseConfig(a.configData)[n[2]]
          IN  {<<OptionName[key], section[key]>> : key \in DOMAIN section \ {"type", "description"}})
    \cup
    {<<BackendFlag[FlagName[key]].option, a.flags[key]>> :
        key \in {k \in DOMAIN a.flags : /\ FlagName[k] \in DOMAIN BackendFlag
                                        /\ BackendFlag[FlagName[k]].prefix \in PrefixesOf(TypeAt(a, n))}}

(* A value that is neither name:path nor :type:path is a local path. *)
PointsTo(a, value) ==
    IF value \notin DOMAIN WrappedRemote THEN <<"backend", "local">>
    ELSE LET w == WrappedRemote[value]
         IN  IF w.inline \/ w.name \notin DOMAIN parseConfig(a.configData)
             THEN <<"backend", w.name>> ELSE <<"section", w.name>>

Wrapped(a, n) == {PointsTo(a, o[2]) : o \in {x \in OptionsAt(a, n) : x[1] \in wrapperOptions}}

(* The remotes there are: the mounted one, the sections, and what a value  *)
(* may point to.                                                           *)
RemotesOf(a) ==
    LET sections == parseConfig(a.configData)
        values   == Range(a.flags) \cup UNION {Range(sections[name]) : name \in DOMAIN sections}
    IN  {Root(a)} \cup ({"section"} \X DOMAIN sections) \cup {PointsTo(a, v) : v \in values}

(* Everything that is reached from the remotes in start by wrapping: what  *)
(* is in every set that holds them and whatever its remotes wrap.          *)
Reached(a, start) ==
    LET remotes == RemotesOf(a)
        wraps   == [n \in remotes |-> Wrapped(a, n)]
        closed  == {known \in SUBSET remotes :
                      start \subseteq known /\ \A n \in known : wraps[n] \subseteq known}
    IN  {n \in remotes : \A known \in closed : n \in known}

Opened(a) == Reached(a, {Root(a)})

-----------------------------------------------------------------------------
(* Properties *)

(* The Secrets that give the arguments of m to a user: with ReuseMounts    *)
(* the one that its call has read, without also that of an earlier call.   *)
StartedWithSecret(m, user) ==
    {s \in getSecret : /\ m.args \in ArgumentsOf(user.volume, s)
                       /\ settings.ReuseMounts => s = user.secret}

(* Volumes share an rclone only if it is exactly the one each of them      *)
(* would have got alone, whatever Secret was in force when they were       *)
(* mounted and whether it could be read, and although a call may find the  *)
(* mount of one that failed.  Without ReuseMounts a volume has an rclone   *)
(* of its own, at worst with a Secret that has changed since (mountID,     *)
(* acquire).                                                               *)
OwnArguments ==
    \A m \in mounts : \A user \in m.users : StartedWithSecret(m, user) # {}

(* "Keys in volumeAttributes override those in rclone-secret", and the     *)
(* defaults of mount: rclone finds what the volume asked for.              *)
ContextWins ==
    \A m \in mounts : \A user \in m.users :
        LET context == user.volume.context IN
        /\ m.args.remote = Get(context, "remote", m.args.remote)
        /\ \A key \in DOMAIN context \cap DOMAIN FlagName :
              Environment(m.args, FlagName[key]) = {context[key]}

(* "rclone-secret is not applied": an rclone that serves a pod's own       *)
(* volume has no flag, and no remote, that the pod did not bring.          *)
PodsBringCredentials ==
    \A m \in mounts : \A user \in m.users :
        LET v == user.volume IN
        v.kind = "ephemeral" =>
            /\ DOMAIN m.args.flags \subseteq DOMAIN v.context \cup DOMAIN v.secrets
            /\ m.args.remote \in {Get(v.context, "remote", ""), Get(v.secrets, "remote", "")}

(* A supported and allowed backend, with no denied option and only allowed *)
(* hosts.                                                                  *)
Allowed(a, n) ==
    /\ \E b \in backends :
          LET names == {b, Providers[b].prefix} IN
          /\ TypeAt(a, n) \in names
          /\ settings.AllowedBackends = {} \/ settings.AllowedBackends \cap names # {}
    /\ \A o \in OptionsAt(a, n) :
          /\ o[1] \notin Denied
          /\ o[1] \in endpointOptions /\ settings.AllowedEndpoints # {}
                => HostOf[o[2]] \in UNION {HostsOf[e] : e \in settings.AllowedEndpoints}

(* mount takes the remote for what validateOptions has checked.  It does   *)
(* not if the header of its section has blanks inside the brackets.        *)
ReadAlike(a) == Root(a)[1] = "section" <=> a.remote \in DOMAIN parseConfig(a.configData)

(* Whatever is wrapped or set by whom, rclone opens only what is allowed,  *)
(* if mount and validateOptions agree about which remote is mounted.       *)
OnlyAllowed ==
    ~settings.UnrestrictedOptions =>
        \A m \in mounts : ReadAlike(m.args) => \A n \in Opened(m.args) : Allowed(m.args, n)

(* "Backends and options [...] are refused" and AllowedBackends "restricts *)
(* backendSchemas further": the same of every mount.                       *)
AlwaysAllowed ==
    ~settings.UnrestrictedOptions =>
        \A m \in mounts : \A n \in Opened(m.args) : Allowed(m.args, n)

(* "Wrapping a wrapper allows cycles, which hang the mount": no remote     *)
(* that rclone opens wraps itself, over however many others                *)
(* (validateWrappedRemote).                                                *)
NoWrapCycles ==
    ~settings.UnrestrictedOptions =>
        \A m \in mounts : \A n \in Opened(m.args) : n \notin Reached(m.args, Wrapped(m.args, n))

OneRemotePath == \A s, t \in Secrets : Get(s, "remotePath", <<>>) = Get(t, "remotePath", <<>>)

(* Volumes that CreateVolume made are mounted inside remotePath, whichever *)
(* rclone-secret their rclone was started with, and unless that changes    *)
(* never a volume of another namespace with them (extractFlags).           *)
MountedUnderRemotePath ==
    \A m \in mounts : \A user \in m.users :
        user.volume.kind = "provisioned" =>
            /\ \A s \in StartedWithSecret(m, user) :
                  IsPrefix(Resolve(s["remotePath"]), Resolve(m.args.remotePath))
            /\ ~class.sharedRemote /\ OneRemotePath =>
                  \A other \in m.users : other.volume.kind = "provisioned" =>
                      other.volume.namespace = user.volume.namespace

=============================================================================
