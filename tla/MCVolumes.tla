----------------------------- MODULE MCVolumes -----------------------------
(* Every short pathPattern; for one of them also volumes that are mounted. *)
EXTENDS Volumes

CONSTANT MaxLength

-----------------------------------------------------------------------------
(* Provisioning: two namespaces, one a prefix of the other *)

MCCharacters == {"a", ".", "/"} \cup Placeholders

MCPatterns == UNION {[1..n -> MCCharacters] : n \in 0..MaxLength}

(* What an owner may write: nothing, text, a way up, a placeholder. *)
Annotations ==
    {<<>>, <<"a">>, <<"a", "a">>, <<".">>, <<".", ".", "/", "a", "a">>, <<"${.PVC.namespace}">>}

MCPVCs ==
    [namespace : {<<"a">>, <<"a", "a">>}, name : {<<"a">>},
     annotation : Annotations, umask : {"octal"}]
    \cup [namespace : {<<"a">>}, name : {<<>>, <<"a">>}, annotation : {<<>>}, umask : {"bad"}]

MCRemotePath == <<"/", "a">>

MCStagedPatterns == {<<"${.PVC.namespace}", "/", "${.PVC.name}">>}

-----------------------------------------------------------------------------
(* rclone: an object store, one whose prefix is not its name, a wrapper,   *)
(* and a backend that is not supported                                     *)

Provider(prefix, options) == [prefix |-> prefix, options |-> options]

MCProviders ==
    "s3" :> Provider("s3", {"region", "endpoint", "profile"})
    @@ "google cloud storage" :> Provider("gcs", {"endpoint"})
    @@ "crypt" :> Provider("crypt", {"remote", "password"})
    @@ "local" :> Provider("local", {"nounc"})

MCKubernetesKeys == {"storage.kubernetes.io/csiProvisionerIdentity", "csi.storage.k8s.io/ephemeral"}

MCFlagName ==
    "umask" :> "umask" @@ "vfs-cache-mode" :> "vfs-cache-mode" @@ "vfs_cache_mode" :> "vfs-cache-mode"
    @@ "dir-cache-time" :> "dir-cache-time" @@ "allow-other" :> "allow-other"
    @@ "config" :> "config" @@ "s3-endpoint" :> "s3-endpoint" @@ "--S3-REGION" :> "s3-region"
    @@ "s3-profile" :> "s3-profile" @@ "crypt-remote" :> "crypt-remote"

MCOptionName ==
    "region" :> "region" @@ "endpoint" :> "endpoint" @@ "profile" :> "profile"
    @@ "remote" :> "remote" @@ "password" :> "password"

MCBackendFlag ==
    "s3-endpoint" :> [prefix |-> "s3", option |-> "endpoint"]
    @@ "s3-region" :> [prefix |-> "s3", option |-> "region"]
    @@ "s3-profile" :> [prefix |-> "s3", option |-> "profile"]
    @@ "crypt-remote" :> [prefix |-> "crypt", option |-> "remote"]

MCWrappedRemote ==
    "r:x" :> [inline |-> FALSE, name |-> "r"] @@ "c:x" :> [inline |-> FALSE, name |-> "c"]
    @@ "d:x" :> [inline |-> FALSE, name |-> "d"] @@ ":s3:x" :> [inline |-> TRUE, name |-> "s3"]
    @@ ":local:x" :> [inline |-> TRUE, name |-> "local"]

MCHostOf ==
    "http://minio.example.com:9000" :> "minio.example.com"
    @@ "https://eu.storage.example.com" :> "eu.storage.example.com"
    @@ "storage.example.com" :> "storage.example.com"

MCHostsOf ==
    "minio.example.com" :> {"minio.example.com"}
    @@ ".storage.example.com" :> {"eu.storage.example.com"}

-----------------------------------------------------------------------------
(* Volumes *)

Line(sort, text, value) ==
    [sort |-> sort, text |-> text, value |-> value, brackets |-> IF sort = "header" THEN {text} ELSE {}]
Section(name, type, key, value) ==
    <<Line("header", name, ""), Line("option", "type", type), Line("option", key, value)>>

Store(name) == Section(name, "s3", "region", "eu")
Crypt(name, remote) == Section(name, "crypt", "remote", remote)

(* Remotes of configData, the first of which is mounted. *)
Configs ==
    {Store("r"), Crypt("r", "c:x") \o Store("c"), Crypt("r", "r:x"),
     Crypt("r", "c:x") \o Crypt("c", "r:x"), Crypt("r", ":local:x"), Crypt("r", "/data"),
     Crypt("r", "d:x") \o Store("c"), Store("r") \o Store("r"),
     Section("r", "local", "nounc", "true"), Section("r", "s3", "profile", "p"),
     Section("r", "gcs", "endpoint", "https://eu.storage.example.com"),
     Section("r", "s3", "endpoint", "storage.example.com"),
     Store("r") \o <<Line("junk", "", "")>>, <<Line("option", "type", "s3")>> \o Store("r"),
     Store("r") \o <<Line("comment", "", ""), Line("option", "region", "us")>>,
     <<Line("header", "r", "")>>}

(* "[ name ]", and a comment that mentions [name]. *)
Spaced(name, type) ==
    <<[Line("header", name, "") EXCEPT !.brackets = {}], Line("option", "type", type)>>
Mentioned(name) == <<[Line("comment", "", "") EXCEPT !.brackets = {name}]>>

(* Flags that go with a remote of their own. *)
Flags ==
    {"umask" :> "077", "vfs_cache_mode" :> "full", "--S3-REGION" :> "us", "s3-profile" :> "p",
     "s3-endpoint" :> "http://minio.example.com:9000", "s3-endpoint" :> "storage.example.com",
     "config" :> "/x"}

On(remote) == "remote" :> remote @@ "remotePath" :> <<"/", "a">>

Writable == [mode |-> "MULTI_NODE_MULTI_WRITER", mountFlags |-> {}]

Volume(kind, context, secrets) ==
    [kind |-> kind, context |-> context, secrets |-> secrets, capability |-> Writable]

MCStaticVolumes ==
    {Volume("static", On("r") @@ "configData" :> c, NoSecret) : c \in Configs}
    \cup {Volume("static", On("s3") @@ "configData" :> c, NoSecret) :
             c \in {Spaced("s3", "gcs"), Mentioned("s3"), Mentioned("s3") \o Spaced("s3", "gcs")}}
    \cup {Volume("static", On("s3") @@ f, NoSecret) : f \in Flags}
    \cup {Volume("static", On("crypt") @@ "crypt-remote" :> v, NoSecret) : v \in {":s3:x", "r:x", "/data"}}
    \cup {[Volume("static", On("s3"), NoSecret) EXCEPT !.capability = c] :
             c \in {Writable, [Writable EXCEPT !.mode = "MULTI_NODE_READER_ONLY"],
                    [Writable EXCEPT !.mountFlags = {"ro"}]}}
    \cup {Volume("static", NoSecret, NoSecret)}

MCPodVolumes ==
    {Volume("ephemeral", "csi.storage.k8s.io/ephemeral" :> "true" @@ On("s3"), s) :
        s \in {NoSecret, "umask" :> "022"}}
    \cup {Volume("ephemeral", "csi.storage.k8s.io/ephemeral" :> "true", NoSecret)}

(* rclone-secret spells no flag in another way than a volume does: which   *)
(* of the two counts is the order of a Go map.                             *)
MCSecrets ==
    {On("s3") @@ "umask" :> "022", On("r") @@ "configData" :> Store("r")}

Default == [ReuseMounts |-> TRUE, UnrestrictedOptions |-> FALSE,
            AllowedBackends |-> {}, AllowedEndpoints |-> {}]

MCStartedWith ==
    {Default, [Default EXCEPT !.ReuseMounts = FALSE], [Default EXCEPT !.UnrestrictedOptions = TRUE],
     [Default EXCEPT !.AllowedBackends = {"crypt", "gcs"},
                     !.AllowedEndpoints = {"minio.example.com", ".storage.example.com"}]}

(* Classes whose volumes are not mounted, or which share their remote,     *)
(* need no more than one setting.                                          *)
MCInit ==
    /\ VolumesInit
    /\ \/ settings = Default
       \/ ~class.sharedRemote /\ class.pathPattern \in StagedPatterns

(* Mounts meet only where volumes find the same one: two of them need no   *)
(* more than one setting and one that nobody uses.  Volumes that could not *)
(* be used beside the others need not be provisioned.                      *)
MCNext ==
    /\ VolumesNext
    /\ settings # Default => Cardinality(mounts') < 2
    /\ Cardinality({m \in mounts' : m.users = {}}) < 2
    /\ Cardinality(volumes')
         + Cardinality({user \in Users' : user.volume.kind # "provisioned"}) <= MaxUsers

MCSpec == MCInit /\ [][MCNext]_allVars

=============================================================================
