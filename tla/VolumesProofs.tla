--------------------------- MODULE VolumesProofs ---------------------------
(***************************************************************************)
(* Proofs about Volumes, for every volume, Secret and setting: what is     *)
(* shared is shared rightly, and what the allow-list accepts opens only    *)
(* what is allowed, below remotePath.                                      *)
(***************************************************************************)
EXTENDS Volumes, ControllerProofs

-----------------------------------------------------------------------------
(* The arguments of a volume *)

(* The arguments are the five fields that mountID hashes, and they are     *)
(* validated (extractFlags).                                               *)
LEMMA ArgumentsAreFields ==
    ASSUME NEW context, NEW secret, NEW readOnly, NEW a \in extractFlags(context, secret, readOnly)
    PROVE  /\ a = [remote |-> a.remote, remotePath |-> a.remotePath, configData |-> a.configData,
                   flags |-> a.flags, readOnly |-> a.readOnly]
           /\ validateOptions(a)
<1> DEFINE all == Merged(context, secret)
           r   == [remote     |-> all["remote"],
                   remotePath |-> all["remotePath"] \o Get(all, "remotePathSuffix", <<>>),
                   configData |-> Get(all, "configData", <<>>),
                   flags      |-> [key \in DOMAIN all \ VolumeKeys |-> all[key]],
                   readOnly   |-> readOnly]
<1>1. a = r /\ validateOptions(r)
  BY DEF extractFlags
<1>2. r = [remote |-> r.remote, remotePath |-> r.remotePath, configData |-> r.configData,
           flags |-> r.flags, readOnly |-> r.readOnly]
  OBVIOUS
<1> QED
  BY <1>1, <1>2

(* Nothing that is computed from the settings changes while they do not. *)
LEMMA SettingsDecide ==
    ASSUME settings' = settings, NEW volume, NEW s, NEW a
    PROVE  /\ ArgumentsOf(volume, s)' = ArgumentsOf(volume, s)
           /\ mountID(volume, a)' = mountID(volume, a)
<1>1. \A b : backendOf(b)' = backendOf(b)
  BY DEF backendOf, backendSchemas
<1>2. \A value : validateEndpoint(value)' = validateEndpoint(value)
  BY DEF validateEndpoint
<1>3. \A value, sections :
         validateWrappedRemote(value, sections)' = validateWrappedRemote(value, sections)
  BY <1>1 DEF validateWrappedRemote
<1>4. \A schema, option, value, sections :
         validateOption(schema, option, value, sections)' = validateOption(schema, option, value, sections)
  BY <1>2, <1>3 DEF validateOption
<1>5. \A key, value, sections :
         validateFlag(key, value, sections)' = validateFlag(key, value, sections)
  BY <1>1, <1>4 DEF validateFlag
<1>6. \A args : validateOptions(args)' = validateOptions(args)
  BY <1>1, <1>4, <1>5 DEF validateOptions
<1>7. \A context, secret, readOnly :
         extractFlags(context, secret, readOnly)' = extractFlags(context, secret, readOnly)
  BY <1>6 DEF extractFlags
<1>8. ArgumentsOf(volume, s)' = ArgumentsOf(volume, s)
  BY <1>7 DEF ArgumentsOf, ephemeralArgs
<1>9. mountID(volume, a)' = mountID(volume, a)
  BY DEF mountID
<1> QED
  BY <1>8, <1>9

-----------------------------------------------------------------------------
(* Who shares a mount *)

(* A volume that may be mounted: one that was written down, or the volume  *)
(* of a PVC, which CreateVolume gave no other keys.                        *)
Mountable(volume) ==
    \/ volume \in StaticVolumes \cup PodVolumes
    \/ /\ volume.kind = "provisioned"
       /\ DOMAIN volume.context \subseteq
             {"storage.kubernetes.io/csiProvisionerIdentity", "remotePathSuffix", "umask"}

(* A user of a mount has the id that it asked for, and arguments that it   *)
(* asks for with some rclone-secret.                                       *)
Served(m, user) ==
    /\ user.secret \in getSecret
    /\ Mountable(user.volume)
    /\ StartedWithSecret(m, user) # {}
    /\ m.id = mountID(user.volume, m.args)

(* A mount was started for a volume and a Secret. *)
Started(m) ==
    /\ RcloneStarts(m.args)
    /\ \E volume : \E s \in getSecret :
          /\ Mountable(volume)
          /\ m.args \in ArgumentsOf(volume, s)
          /\ m.id = mountID(volume, m.args)

(* A mount, which may have no user yet, serves all it has. *)
Serving(m) ==
    /\ m = [id |-> m.id, args |-> m.args, users |-> m.users]
    /\ Started(m)
    /\ \A user \in m.users : Served(m, user)

(* The inductive invariant: OwnArguments alone says nothing of a mount     *)
(* that nobody uses yet, and not that the id of a mount is the one its     *)
(* arguments have, by which acquire finds it.                              *)
VolumesInv ==
    /\ TypeOK
    /\ settings \in StartedWith
    /\ \A m \in mounts : Serving(m)

(* While the settings stay, who was served is served. *)
LEMMA ServedStays ==
    ASSUME settings' = settings, NEW m
    PROVE  Serving(m) => Serving(m)'
<1>1. \A volume, s : /\ ArgumentsOf(volume, s)' = ArgumentsOf(volume, s)
                     /\ mountID(volume, m.args)' = mountID(volume, m.args)
  BY SettingsDecide
<1>2. ASSUME NEW user, Served(m, user)
      PROVE  Served(m, user)'
  BY <1>1, <1>2 DEF Served, StartedWithSecret, getSecret, Mountable
<1>3. Started(m) => Started(m)'
  BY <1>1 DEF Started, RcloneStarts, Root, getSecret, Mountable
<1> QED
  BY <1>2, <1>3 DEF Serving

(* Arguments are the fields that mountID hashes. *)
LEMMA ArgumentsAreHashed ==
    ASSUME NEW volume, NEW s, NEW a \in ArgumentsOf(volume, s)
    PROVE  a = [remote |-> a.remote, remotePath |-> a.remotePath, configData |-> a.configData,
                flags |-> a.flags, readOnly |-> a.readOnly]
BY ArgumentsAreFields DEF ArgumentsOf, ephemeralArgs

(* A volume that comes to a mount is served by it, whoever that mount was  *)
(* started for: by id it has the same arguments or is the same volume.     *)
LEMMA JoinServes ==
    ASSUME NEW m, Serving(m), NEW volume, Mountable(volume),
           NEW s \in getSecret, NEW a \in ArgumentsOf(volume, s), m.id = mountID(volume, a)
    PROVE  Served(m, [volume |-> volume, secret |-> s])
<1> DEFINE user == [volume |-> volume, secret |-> s]
<1>0. PICK w : \E t \in getSecret : m.args \in ArgumentsOf(w, t) /\ m.id = mountID(w, m.args)
  BY DEF Serving, Started
<1>1. PICK t \in getSecret : m.args \in ArgumentsOf(w, t) /\ m.id = mountID(w, m.args)
  BY <1>0
<1>2. user.volume = volume /\ user.secret = s
  OBVIOUS
<1> HIDE DEF user
<1>3. CASE settings.ReuseMounts
  <2>1. m.args = a
    <3> DEFINE b == m.args
    <3>1. a = [remote |-> a.remote, remotePath |-> a.remotePath, configData |-> a.configData,
               flags |-> a.flags, readOnly |-> a.readOnly]
      BY ArgumentsAreHashed
    <3>2. b = [remote |-> b.remote, remotePath |-> b.remotePath, configData |-> b.configData,
               flags |-> b.flags, readOnly |-> b.readOnly]
      BY <1>1, ArgumentsAreHashed
    <3>3. /\ a.remote = b.remote /\ a.remotePath = b.remotePath /\ a.configData = b.configData
          /\ a.flags = b.flags /\ a.readOnly = b.readOnly
      BY <1>1, <1>3 DEF mountID
    <3> HIDE DEF b
    <3> QED
      BY <3>1, <3>2, <3>3 DEF b
  <2>2. s \in StartedWithSecret(m, user)
    BY <1>2, <2>1 DEF StartedWithSecret
  <2> QED
    BY <1>2, <2>1, <2>2 DEF Served, user
<1>4. CASE ~settings.ReuseMounts
  <2>1. m.id = <<w>> /\ m.id = <<volume>>
    BY <1>1, <1>4 DEF mountID
  <2>2. w = volume
    BY <2>1
  <2>3. t \in StartedWithSecret(m, user)
    BY <1>1, <1>2, <1>4, <2>2 DEF StartedWithSecret
  <2> QED
    BY <1>1, <1>2, <2>2, <2>3 DEF Served, user
<1> QED
  BY <1>3, <1>4

(* A mount with other users serves those it served. *)
LEMMA OthersServed ==
    ASSUME NEW m, Serving(m), NEW users, \A user \in users : Served(m, user)
    PROVE  Serving([m EXCEPT !.users = users])
<1> DEFINE n == [m EXCEPT !.users = users]
<1>1. n.id = m.id /\ n.args = m.args /\ n.users = users
      /\ n = [id |-> n.id, args |-> n.args, users |-> n.users]
  BY DEF Serving
<1> HIDE DEF n
<1> QED
  BY <1>1 DEF Serving, Started, Served, StartedWithSecret, n

(* A mount that is started, and one that a volume comes to, serve          *)
(* (acquire).                                                              *)
LEMMA AttachServes ==
    ASSUME VolumesInv, NEW volume, Mountable(volume), Attach(volume)
    PROVE  VolumesInv'
<1>1. settings' = settings /\ class' = class /\ volumes' = volumes
  BY DEF Attach
<1>0. PICK s \in getSecret : \E a \in ArgumentsOf(volume, s) :
         LET id == mountID(volume, a)
         IN  Mount(id, a) \/ Join(id, [volume |-> volume, secret |-> s])
  BY DEF Attach
<1>2. PICK a \in ArgumentsOf(volume, s) :
         LET id == mountID(volume, a)
         IN  Mount(id, a) \/ Join(id, [volume |-> volume, secret |-> s])
  BY <1>0
<1> DEFINE id   == mountID(volume, a)
           user == [volume |-> volume, secret |-> s]
<1>3. CASE Mount(id, a)
  <2> DEFINE new == [id |-> id, args |-> a, users |-> {}]
  <2>1. new.id = mountID(volume, a) /\ new.args = a /\ new.users = {}
        /\ new = [id |-> new.id, args |-> new.args, users |-> new.users]
    OBVIOUS
  <2>2. mounts' = mounts \cup {new} /\ RcloneStarts(a)
    BY <1>3 DEF Mount
  <2> HIDE DEF new
  <2>3. Serving(new)
    BY <1>2, <2>1, <2>2 DEF Serving, Started
  <2> QED
    BY <1>1, <2>2, <2>3, ServedStays DEF VolumesInv, TypeOK
<1>4. CASE Join(id, user)
  <2>1. PICK m \in mounts :
           /\ m.id = id
           /\ mounts' = (mounts \ {m}) \cup {[m EXCEPT !.users = @ \cup {user}]}
    BY <1>4 DEF Join
  <2>2. Serving(m)
    BY DEF VolumesInv
  <2>3. Served(m, user)
    BY <2>1, <2>2, JoinServes
  <2> HIDE DEF user
  <2>4. \A u \in m.users \cup {user} : Served(m, u)
    BY <2>2, <2>3 DEF Serving
  <2>5. Serving([m EXCEPT !.users = m.users \cup {user}])
    BY <2>2, <2>4, OthersServed
  <2> QED
    BY <1>1, <2>1, <2>5, ServedStays DEF VolumesInv, TypeOK
<1> QED
  BY <1>2, <1>3, <1>4

(* What CreateVolume made may be mounted. *)
LEMMA ProvisionedMountable ==
    ASSUME NEW v
    PROVE  Mountable(Provisioned(v))
<1>1. /\ Provisioned(v).kind = "provisioned"
      /\ DOMAIN Provisioned(v).context =
           {"storage.kubernetes.io/csiProvisionerIdentity"}
              \cup (IF v.remotePathSuffix = <<>> THEN {} ELSE {"remotePathSuffix"})
              \cup (IF v.umask = "none" THEN {} ELSE {"umask"})
  BY DEF Provisioned
<1> QED
  BY <1>1 DEF Mountable

(* Every step keeps the invariant.  CreateVolume checks the umask. *)
LEMMA VolumesStep ==
    ASSUME VolumesInv, [VolumesNext]_allVars
    PROVE  VolumesInv'
<1>1. CASE Provision
  <2>1. settings' = settings /\ mounts' = mounts
    BY <1>1 DEF Provision
  <2>2. \A m \in mounts' : Serving(m)'
    BY <2>1, ServedStays DEF VolumesInv
  <2>3. CASE \E pvc \in PVCs : CreateVolume(pvc)
    <3>1. PICK pvc \in PVCs : CreateVolume(pvc)
      BY <2>3
    <3> DEFINE umask == IF pvc.name = <<>> THEN "none" ELSE pvc.umask
    <3>2. umask \in {"none", "octal"}
      BY <3>1 DEF CreateVolume, UmaskValid
    <3>3. PICK suffix : volumes' = volumes \cup
             {[namespace |-> pvc.namespace, umask |-> umask, remotePathSuffix |-> suffix]}
      BY <3>1 DEF CreateVolume
    <3> HIDE DEF umask
    <3>4. \A v \in volumes' : DOMAIN v = {"namespace", "remotePathSuffix", "umask"}
                              /\ v.umask \in {"none", "octal"}
      BY <3>2, <3>3 DEF VolumesInv, TypeOK
    <3> QED
      BY <2>1, <2>2, <3>1, <3>4 DEF CreateVolume, VolumesInv, TypeOK
  <2>4. CASE \E v \in volumes : DeleteVolume(v)
    BY <2>1, <2>2, <2>4 DEF DeleteVolume, VolumesInv, TypeOK
  <2> QED
    BY <1>1, <2>3, <2>4 DEF Provision, Next
<1>2. ASSUME NEW volume \in Known, Attach(volume)
      PROVE  VolumesInv'
  <2>1. Mountable(volume)
    <3>1. \A v \in volumes : Mountable(Provisioned(v))
      BY ProvisionedMountable
    <3>2. \A v \in StaticVolumes \cup PodVolumes : Mountable(v)
      BY DEF Mountable
    <3> QED
      BY <3>1, <3>2, Zenon DEF Known
  <2> QED
    BY <1>2, <2>1, AttachServes
<1>3. ASSUME NEW m \in mounts, Reconcile(m)
      PROVE  VolumesInv'
  BY <1>3, ServedStays DEF Reconcile, VolumesInv, TypeOK
<1>4. ASSUME NEW m \in mounts, NEW user \in m.users, Detach(m, user)
      PROVE  VolumesInv'
  <2> DEFINE rest == m.users \ {user}
             left == [m EXCEPT !.users = rest]
  <2>1. settings' = settings /\ class' = class /\ volumes' = volumes
    BY <1>4 DEF Detach
  <2>2. \A n \in mounts' : n \in mounts \/ n = left
    BY <1>4 DEF Detach
  <2>3. Serving(left)
    BY OthersServed DEF VolumesInv, Serving
  <2> QED
    BY <2>1, <2>2, <2>3, ServedStays DEF VolumesInv, TypeOK
<1>5. CASE UNCHANGED allVars
  BY <1>5, ServedStays DEF allVars, VolumesInv, TypeOK
<1> QED
  BY <1>1, <1>2, <1>3, <1>4, <1>5 DEF VolumesNext, Serve

(* No volume is mounted when the plugin starts. *)
LEMMA VolumesBegin == VolumesInit => VolumesInv
  BY DEF VolumesInit, Init, VolumesInv, TypeOK

(* The invariant holds throughout. *)
LEMMA VolumesInvariant == VolumesSpec => []VolumesInv
<1>1. VolumesInv /\ [VolumesNext]_allVars => VolumesInv'
  BY VolumesStep
<1> QED
  BY <1>1, VolumesBegin, PTL DEF VolumesSpec

(* The types of volumes, settings and mounts, whatever the plugin is       *)
(* started with (CreateVolume, getSecret).                                 *)
THEOREM VolumesTypeCorrect ==
    ASSUME StartedWith \subseteq Settings
    PROVE  VolumesSpec => []VolumesTypeOK
<1>1. VolumesInv => VolumesTypeOK
  BY DEF VolumesInv, VolumesTypeOK, Serving, Served, getSecret
<1> QED
  BY <1>1, VolumesInvariant, PTL

(* Volumes share an rclone only if it is exactly the one each of them      *)
(* would have got alone, also one that a failed call left behind; without  *)
(* ReuseMounts a volume has an rclone of its own, at worst with a Secret   *)
(* that has changed since (mountID, acquire).                              *)
THEOREM SharersAgree == VolumesSpec => []OwnArguments
<1>1. VolumesInv => OwnArguments
  BY DEF VolumesInv, OwnArguments, Serving, Served
<1> QED
  BY <1>1, VolumesInvariant, PTL

-----------------------------------------------------------------------------
(* What the arguments are made of *)

(* The remote and the flags come from the context and, where it does not   *)
(* say, from the Secret.                                                   *)
MergedFrom(a, context, secret) ==
    LET given == DOMAIN context \ KubernetesKeys IN
    /\ "remote" \in given \cup DOMAIN secret
    /\ a.remote = IF "remote" \in given THEN context["remote"] ELSE secret["remote"]
    /\ DOMAIN a.flags = (given \cup DOMAIN secret) \ VolumeKeys
    /\ \A key \in DOMAIN a.flags :
          a.flags[key] = IF key \in given THEN context[key] ELSE secret[key]

(* What extractFlags accepts is merged. *)
LEMMA ArgumentsMerge ==
    ASSUME NEW context, NEW secret, NEW capability,
           NEW a \in extractFlags(context, secret, isReadOnly(capability))
    PROVE  MergedFrom(a, context, secret)
<1> DEFINE given == DOMAIN context \ KubernetesKeys
           all   == Merged(context, secret)
<1>1. all = [key \in given \cup DOMAIN secret |-> IF key \in given THEN context[key] ELSE secret[key]]
  BY DEF Merged
<1>2. validateFlags(all) /\ a.remote = all["remote"]
      /\ a.flags = [key \in DOMAIN all \ VolumeKeys |-> all[key]]
  BY DEF extractFlags
<1> HIDE DEF all
<1> QED
  BY <1>1, <1>2 DEF validateFlags, MergedFrom

(* An rclone that serves a pod's own volume has no flag, and no remote,    *)
(* that the pod did not bring (ephemeralArgs).                             *)
THEOREM PodsBringTheirs == VolumesSpec => []PodsBringCredentials
<1>1. VolumesInv => PodsBringCredentials
  <2> SUFFICES ASSUME VolumesInv, NEW m \in mounts, NEW user \in m.users,
                      user.volume.kind = "ephemeral"
               PROVE  LET v == user.volume IN
                      /\ DOMAIN m.args.flags \subseteq DOMAIN v.context \cup DOMAIN v.secrets
                      /\ m.args.remote \in {Get(v.context, "remote", ""), Get(v.secrets, "remote", "")}
    BY DEF PodsBringCredentials
  <2> DEFINE v == user.volume
  <2>1. m.args \in extractFlags(v.context, v.secrets, isReadOnly(v.capability))
    BY DEF VolumesInv, Serving, Served, StartedWithSecret, ArgumentsOf, ephemeralArgs
  <2>2. MergedFrom(m.args, v.context, v.secrets)
    BY <2>1, ArgumentsMerge, Zenon
  <2> QED
    BY <2>2 DEF Get, MergedFrom
<1> QED
  BY <1>1, VolumesInvariant, PTL

(* Context and Secret spell every flag in one way: which of two spellings  *)
(* counts is the order of a Go map.                                        *)
OneSpelling(context, secret) ==
    LET keys == ((DOMAIN context \ KubernetesKeys) \cup DOMAIN secret) \ VolumeKeys IN
    /\ keys \subseteq DOMAIN FlagName
    /\ \A j, k \in keys : FlagName[j] = FlagName[k] => j = k

(* rclone finds what the volume asked for: its remote, and its flags over  *)
(* those of the Secret and the defaults of mount, if no two keys spell the *)
(* same flag (extractFlags, mount).                                        *)
THEOREM VolumesDecide ==
    ASSUME \A volume \in StaticVolumes \cup PodVolumes : \A s \in getSecret :
              OneSpelling(volume.context, IF volume.kind = "ephemeral" THEN volume.secrets ELSE s),
           \A s \in getSecret : OneSpelling([key \in {"umask"} |-> ""], s),
           "umask" \in DOMAIN FlagName,
           "storage.kubernetes.io/csiProvisionerIdentity" \in KubernetesKeys
    PROVE  VolumesSpec => []ContextWins
<1>1. ASSUME VolumesInv, NEW m \in mounts, NEW user \in m.users
      PROVE  LET context == user.volume.context IN
             /\ m.args.remote = Get(context, "remote", m.args.remote)
             /\ \A key \in DOMAIN context \cap DOMAIN FlagName :
                   Environment(m.args, FlagName[key]) = {context[key]}
  <2>0. Served(m, user)
    BY <1>1 DEF VolumesInv, Serving
  <2> DEFINE volume == user.volume
             context == volume.context
             given == DOMAIN context \ KubernetesKeys
  <2>1. PICK s \in getSecret : m.args \in ArgumentsOf(volume, s)
    BY <2>0 DEF Served, StartedWithSecret
  <2> DEFINE secret == IF volume.kind = "ephemeral" THEN volume.secrets ELSE s
  <2>2. m.args \in extractFlags(context, secret, isReadOnly(volume.capability))
    BY <2>1 DEF ArgumentsOf, ephemeralArgs
  <2>3. MergedFrom(m.args, context, secret)
    BY <2>2, ArgumentsMerge, Zenon
  <2>4. LET keys == (given \cup DOMAIN secret) \ VolumeKeys IN
        /\ keys \subseteq DOMAIN FlagName
        /\ \A j, k \in keys : FlagName[j] = FlagName[k] => j = k
    <3>1. CASE volume \in StaticVolumes \cup PodVolumes
      <4>1. OneSpelling(context, secret)
        BY <2>1, <3>1
      <4> QED
        BY <4>1 DEF OneSpelling
    <3>2. CASE /\ volume.kind = "provisioned"
               /\ DOMAIN context \subseteq
                    {"storage.kubernetes.io/csiProvisionerIdentity", "remotePathSuffix", "umask"}
      <4>1. OneSpelling([key \in {"umask"} |-> ""], secret)
        BY <2>1, <3>2
      <4>2. "umask" \notin KubernetesKeys \cup VolumeKeys
        BY OptionsAssumption
      <4>3. given \ VolumeKeys \subseteq {"umask"}
        BY <3>2 DEF VolumeKeys
      <4>4. LET keys == {"umask"} \cup (DOMAIN secret \ VolumeKeys) IN
            /\ keys \subseteq DOMAIN FlagName
            /\ \A j, k \in keys : FlagName[j] = FlagName[k] => j = k
        <5>1. DOMAIN [key \in {"umask"} |-> ""] = {"umask"}
          OBVIOUS
        <5>2. (({"umask"} \ KubernetesKeys) \cup DOMAIN secret) \ VolumeKeys
                 = {"umask"} \cup (DOMAIN secret \ VolumeKeys)
          BY <4>2
        <5> HIDE DEF secret
        <5> QED
          BY <4>1, <5>1, <5>2, Zenon DEF OneSpelling
      <4> HIDE DEF context, secret, given
      <4> QED
        BY <4>3, <4>4
    <3> QED
      BY <2>0, <3>1, <3>2 DEF Served, Mountable
  <2>5. ASSUME NEW key \in DOMAIN context \cap DOMAIN FlagName
        PROVE  Environment(m.args, FlagName[key]) = {context[key]}
    <3>1. key \in given \ VolumeKeys
      BY OptionsAssumption
    <3> HIDE DEF context, secret
    <3>2. key \in DOMAIN m.args.flags /\ m.args.flags[key] = context[key]
      BY <2>3, <3>1 DEF MergedFrom
    <3>3. \A k \in DOMAIN m.args.flags : FlagName[k] = FlagName[key] => k = key
      BY <2>3, <2>4, <3>1 DEF MergedFrom
    <3> QED
      BY <3>2, <3>3 DEF Environment, flagToEnvName
  <2>6. m.args.remote = Get(context, "remote", m.args.remote)
    BY <2>3, OptionsAssumption DEF Get, MergedFrom, VolumeKeys
  <2> QED
    BY <2>5, <2>6
<1>2. VolumesInv => ContextWins
  BY <1>1 DEF ContextWins
<1> QED
  BY <1>2, VolumesInvariant, PTL

-----------------------------------------------------------------------------
(* What rclone opens *)

(* A backend that backendOf accepts is a supported and allowed one, and    *)
(* rclone takes no other for it.                                           *)
LEMMA BackendIsKnown ==
    ASSUME NEW type, NEW schema \in backendOf(type)
    PROVE  \E b \in backends :
              /\ schema = [prefix |-> Providers[b].prefix, options |-> Providers[b].options \ Denied]
              /\ type \in {b, Providers[b].prefix}
              /\ settings.AllowedBackends = {}
                    \/ settings.AllowedBackends \cap {b, Providers[b].prefix} # {}
              /\ PrefixesOf(type) = {Providers[b].prefix}
<1>1. PICK b \in backends :
         /\ schema = backendSchemas[b]
         /\ type \in {b, backendSchemas[b].prefix}
         /\ settings.AllowedBackends = {}
               \/ settings.AllowedBackends \cap {b, backendSchemas[b].prefix} # {}
  BY DEF backendOf
<1>2. backendSchemas[b] = [prefix |-> Providers[b].prefix, options |-> Providers[b].options \ Denied]
      /\ backendSchemas[b].prefix = Providers[b].prefix
  BY DEF backendSchemas
<1>3. \A c \in DOMAIN Providers : type \in {c, Providers[c].prefix} => c = b
  BY <1>1, <1>2, OptionsAssumption
<1>4. PrefixesOf(type) = {Providers[b].prefix}
  BY <1>1, <1>2, <1>3, OptionsAssumption DEF PrefixesOf
<1> QED
  BY <1>1, <1>2, <1>4

(* A type has one schema. *)
LEMMA OneSchema ==
    ASSUME NEW type, NEW s \in backendOf(type), NEW t \in backendOf(type)
    PROVE  s = t
<1>1. PICK b \in backends :
         /\ s = [prefix |-> Providers[b].prefix, options |-> Providers[b].options \ Denied]
         /\ type \in {b, Providers[b].prefix}
  BY BackendIsKnown
<1>2. PICK c \in backends :
         /\ t = [prefix |-> Providers[c].prefix, options |-> Providers[c].options \ Denied]
         /\ type \in {c, Providers[c].prefix}
  BY BackendIsKnown
<1>3. b = c
  BY <1>1, <1>2, OptionsAssumption
<1> QED
  BY <1>1, <1>2, <1>3

(* A remote that there is: a section of configData, or a backend. *)
There(a, n) ==
    \/ n = <<"section", n[2]>> /\ n[2] \in DOMAIN parseConfig(a.configData)
    \/ n = <<"backend", n[2]>>

(* A remote whose type is supported and allowed. *)
Checked(a, n) == There(a, n) /\ backendOf(TypeAt(a, n)) # {}

(* Every option of a checked remote was checked, whether configData or a   *)
(* flag sets it (validateOptions, validateFlag).                           *)
LEMMA OptionsChecked ==
    ASSUME NEW a, validateOptions(a), ~settings.UnrestrictedOptions,
           NEW n, Checked(a, n), NEW o \in OptionsAt(a, n)
    PROVE  \E schema \in backendOf(TypeAt(a, n)) :
              validateOption(schema, o[1], o[2], parseConfig(a.configData))
<1> DEFINE sections == parseConfig(a.configData)
           section  == sections[n[2]]
<1>1. CASE /\ n[1] = "section"
           /\ o \in {<<OptionName[key], section[key]>> : key \in DOMAIN section \ {"type", "description"}}
  <2>1. n[2] \in DOMAIN sections /\ TypeAt(a, n) = BackendType(section)
    BY <1>1 DEF Checked, There, TypeAt
  <2>2. \E schema \in backendOf(BackendType(section)) :
           \A key \in DOMAIN section \ {"type", "description"} :
              validateOption(schema, OptionName[key], section[key], sections)
    BY <2>1 DEF validateOptions
  <2>3. PICK key \in DOMAIN section \ {"type", "description"} : o = <<OptionName[key], section[key]>>
    BY <1>1
  <2>4. o[1] = OptionName[key] /\ o[2] = section[key]
    BY <2>3
  <2> QED
    BY <2>1, <2>2, <2>4, Zenon
<1>2. CASE o \in {<<BackendFlag[FlagName[key]].option, a.flags[key]>> :
                key \in {k \in DOMAIN a.flags :
                           /\ FlagName[k] \in DOMAIN BackendFlag
                           /\ BackendFlag[FlagName[k]].prefix \in PrefixesOf(TypeAt(a, n))}}
  <2>1. PICK key \in DOMAIN a.flags :
           /\ FlagName[key] \in DOMAIN BackendFlag
           /\ BackendFlag[FlagName[key]].prefix \in PrefixesOf(TypeAt(a, n))
           /\ o = <<BackendFlag[FlagName[key]].option, a.flags[key]>>
    BY <1>2
  <2> DEFINE flag == BackendFlag[FlagName[key]]
  <2>2. PICK b \in backends :
           /\ [prefix |-> Providers[b].prefix, options |-> Providers[b].options \ Denied]
                 \in backendOf(TypeAt(a, n))
           /\ PrefixesOf(TypeAt(a, n)) = {Providers[b].prefix}
    <3>1. PICK schema : schema \in backendOf(TypeAt(a, n))
      BY DEF Checked
    <3>2. PICK b \in backends :
             /\ schema = [prefix |-> Providers[b].prefix, options |-> Providers[b].options \ Denied]
             /\ PrefixesOf(TypeAt(a, n)) = {Providers[b].prefix}
      BY <3>1, BackendIsKnown, Zenon
    <3> QED
      BY <3>1, <3>2
  <2>3. FlagName[key] \notin mountFlags
    BY <2>1, <2>2, OptionsAssumption
  <2>4. validateFlag(key, a.flags[key], sections)
    BY DEF validateOptions
  <2>5. PICK b2 \in backends, schema \in UNION {backendOf(c) : c \in backends} :
           /\ schema \in backendOf(b2)
           /\ schema.prefix = flag.prefix
           /\ validateOption(schema, flag.option, a.flags[key], sections)
    BY <2>3, <2>4 DEF validateFlag
  <2>6. PICK c \in backends :
           schema = [prefix |-> Providers[c].prefix, options |-> Providers[c].options \ Denied]
    BY <2>5, BackendIsKnown
  <2>7. b = c
    BY <2>1, <2>2, <2>5, <2>6, OptionsAssumption, ZenonT(40)
  <2> QED
    BY <2>1, <2>2, <2>5, <2>6, <2>7
<1> QED
  BY <1>1, <1>2 DEF OptionsAt

(* A remote that does not wrap another. *)
Leaf(a, n) ==
    \E schema \in backendOf(TypeAt(a, n)) : schema.options \cap wrapperOptions = {}

(* What a remote is told to wrap was checked, whether configData or a flag *)
(* says so, also where the remote was not (validateOptions, validateFlag). *)
LEMMA WrappingChecked ==
    ASSUME NEW a, validateOptions(a), ~settings.UnrestrictedOptions,
           NEW n, There(a, n), NEW o \in OptionsAt(a, n), o[1] \in wrapperOptions
    PROVE  validateWrappedRemote(o[2], parseConfig(a.configData))
<1> DEFINE sections == parseConfig(a.configData)
           section  == sections[n[2]]
<1>1. CASE /\ n[1] = "section"
           /\ o \in {<<OptionName[key], section[key]>> : key \in DOMAIN section \ {"type", "description"}}
  <2>1. n[2] \in DOMAIN sections
    BY <1>1 DEF There
  <2>2. PICK schema \in backendOf(BackendType(section)) :
           \A key \in DOMAIN section \ {"type", "description"} :
              validateOption(schema, OptionName[key], section[key], sections)
    BY <2>1 DEF validateOptions
  <2>3. PICK key \in DOMAIN section \ {"type", "description"} : o = <<OptionName[key], section[key]>>
    BY <1>1
  <2>4. o[1] = OptionName[key] /\ o[2] = section[key]
    BY <2>3
  <2>5. validateOption(schema, o[1], o[2], sections)
    BY <2>2, <2>4
  <2> QED
    BY <2>5 DEF validateOption
<1>2. CASE o \in {<<BackendFlag[FlagName[key]].option, a.flags[key]>> :
                key \in {k \in DOMAIN a.flags :
                           /\ FlagName[k] \in DOMAIN BackendFlag
                           /\ BackendFlag[FlagName[k]].prefix \in PrefixesOf(TypeAt(a, n))}}
  <2>1. PICK key \in DOMAIN a.flags :
           /\ FlagName[key] \in DOMAIN BackendFlag
           /\ o = <<BackendFlag[FlagName[key]].option, a.flags[key]>>
    BY <1>2
  <2>2. o[1] = BackendFlag[FlagName[key]].option /\ o[2] = a.flags[key]
    BY <2>1
  <2>3. FlagName[key] \notin mountFlags
    BY <2>1, <2>2, OptionsAssumption
  <2>4. validateFlag(key, a.flags[key], sections)
    BY DEF validateOptions
  <2>5. \E b \in backends : \E schema \in backendOf(b) : validateOption(schema, o[1], o[2], sections)
    BY <2>2, <2>3, <2>4 DEF validateFlag
  <2> QED
    BY <2>5 DEF validateOption
<1> QED
  BY <1>1, <1>2 DEF OptionsAt

(* What a remote wraps is checked, and does not wrap                       *)
(* (validateWrappedRemote).                                                *)
LEMMA WrappedChecked ==
    ASSUME NEW a, validateOptions(a), ~settings.UnrestrictedOptions,
           NEW n, There(a, n), NEW w \in Wrapped(a, n)
    PROVE  Checked(a, w) /\ Leaf(a, w)
<1> DEFINE sections == parseConfig(a.configData)
<1>1. PICK o \in OptionsAt(a, n) : o[1] \in wrapperOptions /\ w = PointsTo(a, o[2])
  BY DEF Wrapped
<1> DEFINE value  == o[2]
           target == WrappedRemote[value]
<1>2. validateWrappedRemote(value, sections)
  BY <1>1, WrappingChecked
<1>3. PICK schema \in backendOf(IF target.inline THEN target.name ELSE BackendType(sections[target.name])) :
         schema.options \cap wrapperOptions = {}
  BY <1>2 DEF validateWrappedRemote
<1>4. value \in DOMAIN WrappedRemote /\ (target.inline \/ target.name \in DOMAIN sections)
  BY <1>2 DEF validateWrappedRemote
<1>5. CASE target.inline
  <2>1. w = <<"backend", target.name>>
    BY <1>1, <1>4, <1>5 DEF PointsTo
  <2>2. TypeAt(a, w) = target.name
    BY <2>1 DEF TypeAt
  <2> QED
    BY <1>3, <1>5, <2>1, <2>2 DEF Checked, There, Leaf
<1>6. CASE ~target.inline
  <2>1. w = <<"section", target.name>>
    BY <1>1, <1>4, <1>6 DEF PointsTo
  <2>2. TypeAt(a, w) = BackendType(sections[target.name])
    BY <2>1 DEF TypeAt
  <2> QED
    BY <1>3, <1>4, <1>6, <2>1, <2>2 DEF Checked, There, Leaf
<1> QED
  BY <1>5, <1>6

(* A remote that does not wrap another has no option that would. *)
LEMMA LeafWrapsNothing ==
    ASSUME NEW a, validateOptions(a), ~settings.UnrestrictedOptions,
           NEW n, Checked(a, n), Leaf(a, n)
    PROVE  Wrapped(a, n) = {}
<1>1. ASSUME NEW o \in OptionsAt(a, n), o[1] \in wrapperOptions
      PROVE  FALSE
  <2>1. PICK s \in backendOf(TypeAt(a, n)) : o[1] \in s.options
    BY OptionsChecked DEF validateOption
  <2>2. PICK t \in backendOf(TypeAt(a, n)) : t.options \cap wrapperOptions = {}
    BY DEF Leaf
  <2>3. s = t
    BY OneSchema
  <2> QED
    BY <1>1, <2>1, <2>2, <2>3
<1> QED
  BY <1>1 DEF Wrapped

(* The remote that is mounted is there if rclone starts. *)
LEMMA RootThere ==
    ASSUME NEW a, RcloneStarts(a)
    PROVE  There(a, Root(a))
BY DEF RcloneStarts, Root, There

(* The remote that is mounted is the one that was checked, if mount and    *)
(* validateOptions read it alike (validateOptions).                        *)
LEMMA RootChecked ==
    ASSUME NEW a, validateOptions(a), ~settings.UnrestrictedOptions, ReadAlike(a)
    PROVE  Checked(a, Root(a))
<1> DEFINE sections == parseConfig(a.configData)
<1>1. Root(a) \in {<<"section", a.remote>>, <<"backend", a.remote>>}
  BY DEF Root
<1>2. CASE a.remote \in DOMAIN sections
  <2>1. Root(a) = <<"section", a.remote>>
    BY <1>1, <1>2 DEF ReadAlike
  <2>2. TypeAt(a, Root(a)) = BackendType(sections[a.remote])
    BY <2>1 DEF TypeAt
  <2>3. backendOf(BackendType(sections[a.remote])) # {}
    BY <1>2 DEF validateOptions
  <2> QED
    BY <1>2, <2>1, <2>2, <2>3 DEF Checked, There
<1>3. CASE a.remote \notin DOMAIN sections
  <2>1. Root(a) = <<"backend", a.remote>>
    BY <1>1, <1>3 DEF ReadAlike
  <2>2. TypeAt(a, Root(a)) = a.remote
    BY <2>1 DEF TypeAt
  <2>3. backendOf(a.remote) # {}
    BY <1>3 DEF validateOptions
  <2> QED
    BY <2>1, <2>2, <2>3 DEF Checked, There
<1> QED
  BY <1>2, <1>3

(* What a remote wraps is one of the remotes there are. *)
LEMMA WrappedIsRemote ==
    ASSUME NEW a, NEW n, There(a, n)
    PROVE  Wrapped(a, n) \subseteq RemotesOf(a)
<1> SUFFICES ASSUME NEW w \in Wrapped(a, n) PROVE w \in RemotesOf(a)
  OBVIOUS
<1> DEFINE sections == parseConfig(a.configData)
           section  == sections[n[2]]
<1>1. PICK o \in OptionsAt(a, n) : w = PointsTo(a, o[2])
  BY DEF Wrapped
<1>2. CASE /\ n[1] = "section"
           /\ o \in {<<OptionName[key], section[key]>> : key \in DOMAIN section \ {"type", "description"}}
  <2>1. n[2] \in DOMAIN sections
    BY <1>2 DEF There
  <2>2. PICK key \in DOMAIN section : o = <<OptionName[key], section[key]>>
    BY <1>2
  <2>3. o[2] \in Range(section)
    BY <2>2 DEF Range
  <2> QED
    BY <1>1, <2>1, <2>3 DEF RemotesOf
<1>3. CASE \E key \in DOMAIN a.flags : o = <<BackendFlag[FlagName[key]].option, a.flags[key]>>
  <2>1. o[2] \in Range(a.flags)
    BY <1>3 DEF Range
  <2> QED
    BY <1>1, <2>1 DEF RemotesOf
<1> QED
  BY <1>2, <1>3 DEF OptionsAt

(* What is reached is in every set that holds where it starts and what its *)
(* remotes wrap.                                                           *)
LEMMA ReachedWithin ==
    ASSUME NEW a, NEW start, NEW known \in SUBSET RemotesOf(a),
           start \subseteq known, \A n \in known : Wrapped(a, n) \subseteq known
    PROVE  Reached(a, start) \subseteq known
BY DEF Reached

(* Whatever rclone opens is there. *)
LEMMA OpenedThere ==
    ASSUME NEW a, validateOptions(a), ~settings.UnrestrictedOptions, RcloneStarts(a),
           NEW n \in Opened(a)
    PROVE  There(a, n)
<1> DEFINE known == {r \in RemotesOf(a) : There(a, r)}
<1>1. {Root(a)} \subseteq known
  BY RootThere DEF RemotesOf
<1>2. \A r \in known : Wrapped(a, r) \subseteq known
  BY WrappedChecked, WrappedIsRemote DEF Checked
<1>3. Reached(a, {Root(a)}) \subseteq known
  BY <1>1, <1>2, ReachedWithin
<1> QED
  BY <1>3 DEF Opened

(* Whatever rclone opens is checked, if what it mounts is. *)
LEMMA OpenedChecked ==
    ASSUME NEW a, validateOptions(a), ~settings.UnrestrictedOptions, ReadAlike(a),
           NEW n \in Opened(a)
    PROVE  Checked(a, n)
<1> DEFINE known == {r \in RemotesOf(a) : Checked(a, r)}
<1>1. {Root(a)} \subseteq known
  BY RootChecked DEF RemotesOf
<1>2. \A r \in known : Wrapped(a, r) \subseteq known
  BY WrappedChecked, WrappedIsRemote DEF Checked
<1>3. Reached(a, {Root(a)}) \subseteq known
  BY <1>1, <1>2, ReachedWithin
<1> QED
  BY <1>3 DEF Opened

(* Every mount has arguments that validateOptions accepted, and rclone did *)
(* start with them.                                                        *)
LEMMA MountsValidated ==
    ASSUME VolumesInv, NEW m \in mounts
    PROVE  validateOptions(m.args) /\ RcloneStarts(m.args)
<1>0. RcloneStarts(m.args)
  BY DEF VolumesInv, Serving, Started
<1>1. PICK volume : \E s \in getSecret : m.args \in ArgumentsOf(volume, s)
  BY DEF VolumesInv, Serving, Started
<1> QED
  BY <1>0, <1>1, ArgumentsAreFields DEF ArgumentsOf, ephemeralArgs

(* Whatever is wrapped or set by whom, rclone opens only supported and     *)
(* allowed backends, with no denied option and only allowed hosts, where   *)
(* mount and validateOptions agree about which remote is mounted           *)
(* (validateOptions).                                                      *)
THEOREM AllowListHolds == VolumesSpec => []OnlyAllowed
<1>1. ASSUME VolumesInv, ~settings.UnrestrictedOptions, NEW m \in mounts, ReadAlike(m.args),
             NEW n \in Opened(m.args)
      PROVE  Allowed(m.args, n)
  <2>1. validateOptions(m.args) /\ Checked(m.args, n)
    BY <1>1, MountsValidated, OpenedChecked
  <2>2. \E b \in backends :
           LET names == {b, Providers[b].prefix} IN
           /\ TypeAt(m.args, n) \in names
           /\ settings.AllowedBackends = {} \/ settings.AllowedBackends \cap names # {}
    <3>1. PICK schema : schema \in backendOf(TypeAt(m.args, n))
      BY <2>1 DEF Checked
    <3> QED
      BY <3>1, BackendIsKnown, Zenon
  <2>3. ASSUME NEW o \in OptionsAt(m.args, n)
        PROVE  /\ o[1] \notin Denied
               /\ o[1] \in endpointOptions /\ settings.AllowedEndpoints # {}
                     => HostOf[o[2]] \in UNION {HostsOf[e] : e \in settings.AllowedEndpoints}
    <3>1. PICK schema \in backendOf(TypeAt(m.args, n)) :
             validateOption(schema, o[1], o[2], parseConfig(m.args.configData))
      BY <1>1, <2>1, OptionsChecked
    <3>2. \E b \in backends : schema.options = Providers[b].options \ Denied
      <4>1. PICK b \in backends :
               schema = [prefix |-> Providers[b].prefix, options |-> Providers[b].options \ Denied]
        BY BackendIsKnown
      <4> QED
        BY <4>1
    <3>3. o[1] \notin Denied
      BY <3>1, <3>2 DEF validateOption
    <3>4. endpointOptions \cap wrapperOptions = {}
      BY DEF endpointOptions, wrapperOptions
    <3>5. o[1] \in endpointOptions => validateEndpoint(o[2])
      BY <3>1, <3>4 DEF validateOption
    <3> QED
      BY <3>3, <3>5 DEF validateEndpoint
  <2> QED
    BY <2>2, <2>3 DEF Allowed
<1>2. VolumesInv => OnlyAllowed
  BY <1>1 DEF OnlyAllowed
<1> QED
  BY <1>2, VolumesInvariant, PTL

(* "Wrapping a wrapper allows cycles, which hang the mount": no remote     *)
(* that rclone opens wraps itself, over however many others, also where    *)
(* mount and validateOptions disagree about which one is mounted           *)
(* (validateWrappedRemote).                                                *)
THEOREM NoCycles == VolumesSpec => []NoWrapCycles
<1>1. ASSUME VolumesInv, ~settings.UnrestrictedOptions, NEW m \in mounts, NEW n \in Opened(m.args)
      PROVE  n \notin Reached(m.args, Wrapped(m.args, n))
  <2> DEFINE a == m.args
             wrapped == Wrapped(a, n)
  <2>1. validateOptions(a) /\ There(a, n)
    BY <1>1, MountsValidated, OpenedThere
  <2>2. wrapped \subseteq RemotesOf(a)
    BY <2>1, WrappedIsRemote
  <2>3. \A w \in wrapped : Wrapped(a, w) = {}
    BY <1>1, <2>1, WrappedChecked, LeafWrapsNothing
  <2>4. Reached(a, wrapped) \subseteq wrapped
    BY <2>2, <2>3, ReachedWithin
  <2> QED
    BY <2>3, <2>4
<1>2. VolumesInv => NoWrapCycles
  BY <1>1 DEF NoWrapCycles
<1> QED
  BY <1>2, VolumesInvariant, PTL

-----------------------------------------------------------------------------
(* Where volumes are mounted *)

(* Mounting leaves the volumes to the controller. *)
LEMMA ServesOnly ==
    ASSUME Serve
    PROVE  class' = class /\ volumes' = volumes
BY DEF Serve, Attach, Reconcile, Detach

(* Controller and node together provision as the controller alone does. *)
THEOREM VolumesProvision == VolumesSpec => Spec
<1>1. VolumesInit => Init
  BY DEF VolumesInit
<1>2. [VolumesNext]_allVars => [Next]_vars
  <2>1. Provision => Next
    BY DEF Provision
  <2>2. Serve => UNCHANGED vars
    BY ServesOnly DEF vars
  <2>3. UNCHANGED allVars => UNCHANGED vars
    BY DEF allVars, vars
  <2>4. QED
    BY <2>1, <2>2, <2>3 DEF VolumesNext
<1>3. QED
  BY <1>1, <1>2, PTL DEF VolumesSpec, Spec

(* A volume that has been provisioned, though it may be deleted since. *)
WasMade(volume) == volume.kind = "provisioned" => \E v : Made(class, v) /\ volume = Provisioned(v)

(* The inductive invariant: whatever is mounted as provisioned is one that *)
(* CreateVolume made, under the class there is.                            *)
ProvisionedInv ==
    /\ MadeInv
    /\ \A m \in mounts : \A user \in m.users : WasMade(user.volume)

(* The class does not change, nor does what was made. *)
LEMMA WasMadeStays ==
    ASSUME class' = class, NEW volume
    PROVE  WasMade(volume)' <=> WasMade(volume)
BY DEF WasMade, Made, MadeFor

(* Attach adds the user it mounts for, and no other. *)
LEMMA AttachUsers ==
    ASSUME VolumesInv, NEW volume, Attach(volume), NEW m \in mounts', NEW user \in m.users
    PROVE  user.volume = volume \/ \E n \in mounts : user \in n.users
<1>0. PICK s \in getSecret : \E a \in ArgumentsOf(volume, s) :
         LET id == mountID(volume, a)
         IN  Mount(id, a) \/ Join(id, [volume |-> volume, secret |-> s])
  BY DEF Attach
<1>1. PICK a \in ArgumentsOf(volume, s) :
         LET id == mountID(volume, a)
         IN  Mount(id, a) \/ Join(id, [volume |-> volume, secret |-> s])
  BY <1>0
<1> DEFINE id  == mountID(volume, a)
           new == [volume |-> volume, secret |-> s]
<1>2. CASE Mount(id, a)
  <2>1. m \in mounts \/ m = [id |-> id, args |-> a, users |-> {}]
    BY <1>2 DEF Mount
  <2> QED
    BY <2>1
<1>3. CASE Join(id, new)
  <2>1. PICK n \in mounts : mounts' = (mounts \ {n}) \cup {[n EXCEPT !.users = @ \cup {new}]}
    BY <1>3 DEF Join
  <2>2. [n EXCEPT !.users = @ \cup {new}].users = n.users \cup {new}
    <3>1. n = [id |-> n.id, args |-> n.args, users |-> n.users]
      BY DEF VolumesInv, Serving
    <3> QED
      BY <3>1
  <2>3. new.volume = volume
    OBVIOUS
  <2> HIDE DEF new
  <2> QED
    BY <2>1, <2>2, <2>3
<1> QED
  BY <1>1, <1>2, <1>3

(* Detach takes a user away, and adds none. *)
LEMMA DetachUsers ==
    ASSUME VolumesInv, NEW l \in mounts, NEW gone \in l.users, Detach(l, gone),
           NEW m \in mounts', NEW user \in m.users
    PROVE  \E n \in mounts : user \in n.users
<1> DEFINE left == [l EXCEPT !.users = l.users \ {gone}]
<1>1. m \in mounts \/ m = left
  BY DEF Detach
<1>2. left.users = l.users \ {gone}
  <2>1. l = [id |-> l.id, args |-> l.args, users |-> l.users]
    BY DEF VolumesInv, Serving
  <2> QED
    BY <2>1
<1> HIDE DEF left
<1> QED
  BY <1>1, <1>2

(* Every step keeps the invariant. *)
LEMMA ProvisionedStep ==
    ASSUME VolumesInv, ProvisionedInv, [VolumesNext]_allVars
    PROVE  ProvisionedInv'
<1>1. Next \/ UNCHANGED vars
  BY ServesOnly DEF VolumesNext, Provision, allVars, vars
<1>2. class' = class
  BY <1>1 DEF Next, CreateVolume, DeleteVolume, vars
<1>3. MadeInv'
  BY <1>1, MadeStep DEF ProvisionedInv
<1>4. ASSUME NEW m \in mounts', NEW user \in m.users PROVE WasMade(user.volume)
  <2>1. ASSUME NEW n \in mounts, user \in n.users PROVE WasMade(user.volume)
    BY <2>1 DEF ProvisionedInv
  <2>2. CASE mounts' = mounts
    BY <2>1, <2>2
  <2>3. ASSUME NEW volume \in Known, Attach(volume) PROVE WasMade(user.volume)
    <3>1. user.volume = volume \/ \E n \in mounts : user \in n.users
      BY <2>3, AttachUsers, Zenon
    <3>2. ASSUME NEW v \in volumes, volume = Provisioned(v) PROVE WasMade(volume)
      BY <3>2, Zenon DEF ProvisionedInv, MadeInv, WasMade
    <3>3. ASSUME volume \in StaticVolumes \cup PodVolumes PROVE WasMade(volume)
      BY <3>3, VolumesAssumption DEF WasMade
    <3> QED
      BY <2>1, <3>1, <3>2, <3>3, Zenon DEF Known
  <2>4. ASSUME NEW n \in mounts, Reconcile(n) PROVE WasMade(user.volume)
    BY <2>1, <2>4 DEF Reconcile
  <2>5. ASSUME NEW l \in mounts, NEW gone \in l.users, Detach(l, gone) PROVE WasMade(user.volume)
    BY <2>1, <2>5, DetachUsers, Zenon
  <2> QED
    BY <2>2, <2>3, <2>4, <2>5, Zenon DEF VolumesNext, Provision, Serve, allVars
<1> QED
  BY <1>2, <1>3, <1>4, WasMadeStays, Zenon DEF ProvisionedInv

(* The invariant holds throughout. *)
LEMMA ProvisionedInvariant == VolumesSpec => []ProvisionedInv
<1>1. VolumesInit => ProvisionedInv
  BY MadeBegin DEF VolumesInit, ProvisionedInv
<1>2. VolumesInv /\ ProvisionedInv /\ [VolumesNext]_allVars => ProvisionedInv'
  BY ProvisionedStep
<1> QED
  BY <1>1, <1>2, VolumesInvariant, PTL DEF VolumesSpec

(* What CreateVolume made a suffix of is text. *)
LEMMA MadeText ==
    ASSUME NEW c \in Classes, NEW v, Made(c, v)
    PROVE  v.remotePathSuffix \in Text
<1>1. PICK pvc \in PVCs : v.remotePathSuffix = Slashed(SuffixOf(pvc, c.pathPattern))
  BY Zenon DEF Made, MadeFor
<1>2. SuffixOf(pvc, c.pathPattern) \in Text
  BY SuffixIsText, Zenon
<1>3. \A x \in Text : <<"/">> \o x \in Text
  BY TextAppends, Texts, Zenon
<1> QED
  BY <1>1, <1>2, <1>3, Zenon DEF Slashed

(* The path of a provisioned volume is that of rclone-secret and its       *)
(* suffix (extractFlags).                                                  *)
LEMMA ProvisionedPath ==
    ASSUME NEW v, NEW s \in getSecret, \A t \in Secrets : "remotePathSuffix" \notin DOMAIN t,
           NEW a \in ArgumentsOf(Provisioned(v), s)
    PROVE  /\ s \in Secrets /\ "remotePath" \in DOMAIN s
           /\ a.remotePath = s["remotePath"] \o v.remotePathSuffix
<1> DEFINE context == Provisioned(v).context
           given == DOMAIN context \ KubernetesKeys
           all == Merged(context, s)
<1>1. /\ DOMAIN context = {"storage.kubernetes.io/csiProvisionerIdentity"}
                            \cup (IF v.remotePathSuffix = <<>> THEN {} ELSE {"remotePathSuffix"})
                            \cup (IF v.umask = "none" THEN {} ELSE {"umask"})
      /\ "remotePathSuffix" \in DOMAIN context => context["remotePathSuffix"] = v.remotePathSuffix
      /\ Provisioned(v).kind = "provisioned"
  BY DEF Provisioned
<1>2. a \in extractFlags(context, s, isReadOnly(Provisioned(v).capability))
  BY <1>1 DEF ArgumentsOf
<1> HIDE DEF context
<1>3. /\ {"remote", "remotePath"} \subseteq DOMAIN all
      /\ a.remotePath = all["remotePath"] \o Get(all, "remotePathSuffix", <<>>)
  BY <1>2 DEF extractFlags, validateFlags
<1>4. /\ DOMAIN all = given \cup DOMAIN s
      /\ \A key \in DOMAIN all : all[key] = IF key \in given THEN context[key] ELSE s[key]
  BY DEF Merged
<1> HIDE DEF all
<1>5. "remotePath" \notin given
  BY <1>1
<1>6. "remotePath" \in DOMAIN s /\ all["remotePath"] = s["remotePath"]
  BY <1>3, <1>4, <1>5
<1>7. s \in Secrets
  BY <1>6 DEF getSecret, NoSecret
<1>8. "remotePathSuffix" \notin DOMAIN s
  BY <1>7
<1>9. "remotePathSuffix" \in given <=> v.remotePathSuffix # <<>>
  BY <1>1, OptionsAssumption DEF VolumeKeys
<1>10. Get(all, "remotePathSuffix", <<>>) = v.remotePathSuffix
  BY <1>1, <1>4, <1>8, <1>9 DEF Get
<1> QED
  BY <1>3, <1>6, <1>7, <1>10

(* A provisioned volume is that of its namespace. *)
LEMMA ProvisionedFor ==
    ASSUME NEW v
    PROVE  Provisioned(v).namespace = v.namespace
BY DEF Provisioned

(* A path is a prefix of itself. *)
LEMMA PrefixOfSame ==
    ASSUME NEW x \in Text
    PROVE  IsPrefix(Resolve(x), Resolve(x))
<1> DEFINE d == Resolve(x)
<1>1. d \in Seq(Text)
  BY SplitFolds, DirectoryFolds, Zenon DEF Resolve, Paths
<1> HIDE DEF d
<1>2. d \o <<>> = d /\ <<>> \in Seq(Text)
  BY <1>1
<1>3. IsPrefix(d, d \o <<>>)
  BY <1>1, <1>2, PrefixOfMore, Zenon
<1> QED
  BY <1>2, <1>3, Zenon DEF d

(* Volumes that CreateVolume made are mounted inside remotePath, and one   *)
(* rclone serves those of one namespace, unless the class shares its       *)
(* remote: for every pathPattern, every PVC and every rclone-secret that   *)
(* brings no suffix of its own (extractFlags, mountID).                    *)
THEOREM MountsStayInside ==
    ASSUME \A s \in Secrets : "remotePathSuffix" \notin DOMAIN s
    PROVE  VolumesSpec => []MountedUnderRemotePath
<1>1. ASSUME VolumesInv, ProvisionedInv, NEW m \in mounts, NEW user \in m.users,
             user.volume.kind = "provisioned"
      PROVE  \E v : /\ Made(class, v) /\ user.volume = Provisioned(v)
                    /\ \A s \in StartedWithSecret(m, user) :
                          /\ s \in Secrets
                          /\ s["remotePath"] = Get(s, "remotePath", <<>>)
                          /\ s["remotePath"] \in Text
                          /\ m.args.remotePath = s["remotePath"] \o v.remotePathSuffix
  <2>1. PICK v : Made(class, v) /\ user.volume = Provisioned(v)
    BY <1>1, Zenon DEF ProvisionedInv, WasMade
  <2>2. ASSUME NEW s \in StartedWithSecret(m, user)
        PROVE  /\ s \in Secrets
               /\ s["remotePath"] = Get(s, "remotePath", <<>>)
               /\ s["remotePath"] \in Text
               /\ m.args.remotePath = s["remotePath"] \o v.remotePathSuffix
    <3>1. s \in getSecret /\ m.args \in ArgumentsOf(Provisioned(v), s)
      BY <2>1 DEF StartedWithSecret
    <3>2. /\ s \in Secrets /\ "remotePath" \in DOMAIN s
          /\ m.args.remotePath = s["remotePath"] \o v.remotePathSuffix
      BY <3>1, ProvisionedPath, Zenon
    <3>3. s["remotePath"] = Get(s, "remotePath", <<>>)
      BY <3>2 DEF Get
    <3>4. Get(s, "remotePath", <<>>) \in Text
      BY <3>2, VolumesAssumption, Zenon DEF Text
    <3> QED
      BY <3>2, <3>3, <3>4, Zenon
  <2> QED
    BY <2>1, <2>2, Zenon
<1>2. ASSUME VolumesInv, ProvisionedInv PROVE MountedUnderRemotePath
  <2>1. class \in Classes
    BY <1>2 DEF ProvisionedInv, MadeInv
  <2>2. ASSUME NEW m \in mounts, NEW user \in m.users, user.volume.kind = "provisioned",
               NEW s \in StartedWithSecret(m, user)
        PROVE  IsPrefix(Resolve(s["remotePath"]), Resolve(m.args.remotePath))
    <3>1. PICK v : /\ Made(class, v) /\ s["remotePath"] \in Text
                   /\ m.args.remotePath = s["remotePath"] \o v.remotePathSuffix
      BY <1>1, <1>2, <2>2, Zenon
    <3> QED
      BY <2>1, <3>1, MadeInside, Zenon
  <2>3. ASSUME ~class.sharedRemote, OneRemotePath, NEW m \in mounts,
               NEW user \in m.users, user.volume.kind = "provisioned",
               NEW other \in m.users, other.volume.kind = "provisioned"
        PROVE  other.volume.namespace = user.volume.namespace
    <3>1. PICK s : s \in StartedWithSecret(m, user)
      BY <1>2, <2>3 DEF VolumesInv, Serving, Served
    <3>2. PICK v : /\ Made(class, v) /\ user.volume = Provisioned(v) /\ s \in Secrets
                   /\ s["remotePath"] = Get(s, "remotePath", <<>>)
                   /\ s["remotePath"] \in Text
                   /\ m.args.remotePath = s["remotePath"] \o v.remotePathSuffix
      BY <1>1, <1>2, <2>3, <3>1, Zenon
    <3>3. PICK t : t \in StartedWithSecret(m, other)
      BY <1>2, <2>3 DEF VolumesInv, Serving, Served
    <3>4. PICK w : /\ Made(class, w) /\ other.volume = Provisioned(w) /\ t \in Secrets
                   /\ t["remotePath"] = Get(t, "remotePath", <<>>)
                   /\ t["remotePath"] \in Text
                   /\ m.args.remotePath = t["remotePath"] \o w.remotePathSuffix
      BY <1>1, <1>2, <2>3, <3>3, Zenon
    <3> DEFINE root == s["remotePath"]
    <3>5. root \in Text /\ root \o v.remotePathSuffix = root \o w.remotePathSuffix
      <4>1. s["remotePath"] = t["remotePath"]
        BY <2>3, <3>2, <3>4 DEF OneRemotePath
      <4> QED
        BY <3>2, <3>4, <4>1, Zenon
    <3>6. user.volume.namespace = v.namespace /\ other.volume.namespace = w.namespace
      BY <3>2, <3>4, ProvisionedFor, Zenon
    <3> HIDE DEF root
    <3>7. root \o v.remotePathSuffix \in Text
      BY <2>1, <3>2, <3>5, MadeText, Texts, Zenon
    <3>8. IsPrefix(Resolve(root \o v.remotePathSuffix), Resolve(root \o w.remotePathSuffix))
      BY <3>5, <3>7, PrefixOfSame, Zenon
    <3>9. v.namespace = w.namespace
      BY <2>1, <2>3, <3>2, <3>4, <3>5, <3>8, MadeApart, Zenon
    <3> QED
      BY <3>6, <3>9, Zenon
  <2> QED
    BY <2>2, <2>3, Zenon DEF MountedUnderRemotePath
<1>3. VolumesInv /\ ProvisionedInv => MountedUnderRemotePath
  BY <1>2
<1> QED
  BY <1>3, VolumesInvariant, ProvisionedInvariant, PTL

=============================================================================
