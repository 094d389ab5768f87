----------------------------- MODULE Controller -----------------------------
(***************************************************************************)
(* Provisioning (controller.go): CreateVolume turns the pathPattern of a   *)
(* StorageClass and the metadata of a PVC into the path of the volume on   *)
(* the remote, which the node appends to remotePath (extractFlags).  Who   *)
(* owns a PVC chooses its labels and annotations.                          *)
(*                                                                         *)
(* A string is a sequence of characters, a placeholder counting as one.    *)
(***************************************************************************)
EXTENDS Naturals, Sequences, FiniteSets, SequencesExt

CONSTANTS
    Characters,  \* what strings are made of
    Patterns,    \* values of pathPattern
    PVCs,        \* [namespace, name, annotation, umask]: the metadata of a PVC
    RemotePath,  \* remotePath, from rclone-secret
    MaxVolumes   \* the bound on the volumes that exist

VARIABLES
    class,    \* the parameters of the StorageClass
    volumes   \* the volumes that exist: whose they are, and the volume context

vars == <<class, volumes>>

Placeholders == {"${.PVC.namespace}", "${.PVC.name}", "${.PVC.annotations.x}"}

(* A namespace is a DNS label: its owner cannot write a path into it. *)
ASSUME TextAssumption ==
    /\ "/" \in Characters
    /\ Patterns \subseteq Seq(Characters)
    /\ RemotePath \in Seq(Characters)
    /\ \A pvc \in PVCs :
          /\ {pvc.namespace, pvc.name, pvc.annotation} \subseteq Seq(Characters)
          /\ pvc.namespace # <<>>
          /\ \A k \in DOMAIN pvc.namespace : pvc.namespace[k] \notin {"/", "."} \cup Placeholders

TypeOK ==
    /\ class \in [pathPattern : Patterns, sharedRemote : BOOLEAN]
    /\ \A v \in volumes : /\ DOMAIN v = {"namespace", "remotePathSuffix", "umask"}
                          /\ v.umask \in {"none", "octal"}

-----------------------------------------------------------------------------
(* Paths *)

(* strings.Split(s, "/"): the segments of the first k characters are known *)
(* from those before.                                                      *)
Split(s) ==
    LET segments[k \in 0..Len(s)] ==
            IF k = 0 THEN << <<>> >>
            ELSE LET done == segments[k - 1]
                 IN  IF s[k] = "/" THEN Append(done, <<>>)
                     ELSE Append(Front(done), Append(Last(done), s[k]))
    IN  segments[Len(s)]

(* The directory that rclone gets to along the segments of a path. *)
Directory(segments) ==
    LET path[k \in 0..Len(segments)] ==
            IF k = 0 THEN <<>>
            ELSE IF segments[k] \in {<<>>, <<".">>} THEN path[k - 1]
            ELSE IF segments[k] = <<".", ".">> THEN Front(path[k - 1])
            ELSE Append(path[k - 1], segments[k])
    IN  path[Len(segments)]

Resolve(s) == Directory(Split(s))

-----------------------------------------------------------------------------

(* strings.ReplaceAll *)
Substitute(s, old, new) ==
    LET result[k \in 0..Len(s)] ==
            IF k = 0 THEN <<>>
            ELSE result[k - 1] \o (IF s[k] = old THEN new ELSE <<s[k]>>)
    IN  result[Len(s)]

(* The placeholders of the pattern are replaced one after the other, also  *)
(* those that an earlier replacement has brought in.                       *)
stringParser(pvc, str) ==
    LET value(r) == CASE r = "${.PVC.namespace}" -> pvc.namespace
                      [] r = "${.PVC.name}"      -> pvc.name
                      [] OTHER                   -> pvc.annotation
        parsed[k \in 0..Len(str)] ==
            IF k = 0 THEN str
            ELSE IF str[k] \in Placeholders
                 THEN Substitute(parsed[k - 1], str[k], value(str[k]))
                 ELSE parsed[k - 1]
    IN  parsed[Len(str)]

(* Mutant: text may follow the namespace in its segment. *)
IsolationWithoutRest(pathPattern) ==
    \E i \in DOMAIN pathPattern :
        LET prefix == SubSeq(pathPattern, 1, i - 1)
        IN  /\ pathPattern[i] = "${.PVC.namespace}"
            /\ \A k \in DOMAIN prefix : prefix[k] \notin Placeholders
            /\ prefix # <<>> => Last(prefix) = "/"

(* The namespace is a whole segment of the pattern, with only fixed text   *)
(* before it.                                                              *)
validatePathPatternIsolation(pathPattern) ==
    \E i \in DOMAIN pathPattern :
        LET prefix == SubSeq(pathPattern, 1, i - 1)
            rest   == SubSeq(pathPattern, i + 1, Len(pathPattern))
        IN  /\ pathPattern[i] = "${.PVC.namespace}"
            /\ \A k \in DOMAIN prefix : prefix[k] \notin Placeholders
            /\ prefix # <<>> => Last(prefix) = "/"
            /\ rest # <<>> => Head(rest) = "/"

(* Mutant: only the first segment is checked. *)
SuffixStartsWell(suffix) == Head(Split(suffix)) \notin {<<".">>, <<".", ".">>}

(* Labels and annotations must not lead out of the prefix of the pattern. *)
validateRemotePathSuffix(suffix) ==
    \A k \in DOMAIN Split(suffix) : Split(suffix)[k] \notin {<<".">>, <<".", ".">>}

(* Mutant: an umask is passed on as it is. *)
UmaskUnchecked(umask) == TRUE

(* strconv.ParseUint of the annotation csi-rclone/umask, if there is one. *)
UmaskValid(umask) == umask \in {"none", "octal"}

(* The metadata of the PVC is read at the time of the call; without a PVC  *)
(* name there is none.                                                     *)
CreateVolume(pvc) ==
    LET suffix == IF pvc.name = <<>> THEN <<>> ELSE stringParser(pvc, class.pathPattern)
        umask  == IF pvc.name = <<>> THEN "none" ELSE pvc.umask
    IN
    /\ Cardinality(volumes) < MaxVolumes
    /\ class.sharedRemote \/ (validatePathPatternIsolation(class.pathPattern) /\ pvc.name # <<>>)
    /\ validateRemotePathSuffix(suffix)
    /\ UmaskValid(umask)
    /\ volumes' = volumes \cup
         {[namespace |-> pvc.namespace, umask |-> umask,
           remotePathSuffix |-> IF suffix = <<>> \/ Head(suffix) = "/" THEN suffix
                                ELSE <<"/">> \o suffix]}
    /\ UNCHANGED class

(* What is on the remote stays. *)
DeleteVolume(v) ==
    /\ volumes' = volumes \ {v}
    /\ UNCHANGED class

(* extractFlags *)
remotePath(v) == RemotePath \o v.remotePathSuffix

-----------------------------------------------------------------------------

Init ==
    /\ class \in [pathPattern : Patterns, sharedRemote : BOOLEAN]
    /\ volumes = {}

Next ==
    \/ \E pvc \in PVCs : CreateVolume(pvc)
    \/ \E v \in volumes : DeleteVolume(v)

Spec == Init /\ [][Next]_vars

-----------------------------------------------------------------------------
(* Properties *)

(* Unless the class shares its remote path, PVCs of different namespaces   *)
(* never get the same or nested directories, whatever their owners write   *)
(* into labels and annotations (validatePathPatternIsolation).             *)
NamespaceIsolation ==
    ~class.sharedRemote =>
        \A v, w \in volumes :
            v.namespace # w.namespace => ~IsPrefix(Resolve(remotePath(v)), Resolve(remotePath(w)))

(* No volume leaves remotePath, not even one of a class that is shared:    *)
(* neither by ".." segments (validateRemotePathSuffix) nor by text that is *)
(* glued to its last segment.                                              *)
StaysUnderRemotePath ==
    \A v \in volumes : IsPrefix(Resolve(RemotePath), Resolve(remotePath(v)))

=============================================================================
