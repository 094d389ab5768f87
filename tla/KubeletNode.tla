---------------------------- MODULE KubeletNode ----------------------------
(***************************************************************************)
(* RcloneNode with the calls in the order kubelet makes them, and with the *)
(* fairness that the scheduling of the plugin justifies.  What kubelet     *)
(* does with an answer is not part of the repository: it follows the order *)
(* the CSI specification prescribes, and which the handlers rely on.       *)
(***************************************************************************)
EXTENDS RcloneNode

-----------------------------------------------------------------------------
(* Kubelet *)

Awaits(path) == \E p \in Calls : proc[p].path = path /\ proc[p].awaited

TargetsOf(s) == {t \in Targets : StagingOf[t] = s}

(* A volume is staged, then published; unpublished, then unstaged.  After  *)
(* an error or a restart of the plugin the call is repeated, or undone.    *)
Allowed(op, path) ==
    /\ ~Awaits(path)
    /\ CASE op = "stage"     -> told[path] # "up"
         [] op = "unstage"   -> /\ told[path] # "none"
                                /\ \A t \in TargetsOf(path) : told[t] = "none"
         [] op = "publish"   -> /\ told[path] # "up"
                                /\ path \in Targets => told[StagingOf[path]] = "up"
         [] op = "unpublish" -> told[path] # "none"

KubeletCalls(op, path) == Allowed(op, path) /\ \E p \in Calls : Call(p, op, path)

(* Kubelet removes the staging path of a volume that it has unstaged. *)
KubeletCleans(s) ==
    /\ s \in Stagings
    /\ told[s] = "none"
    /\ KubeletRemoves(s)

KubeletNext ==
    \/ Plugin
    \/ World
    \/ Calm
    \/ \E r \in Requests : KubeletCalls(r[1], r[2])
    \/ \E s \in Stagings : KubeletCleans(s)

-----------------------------------------------------------------------------
(* Fairness: a goroutine that can run runs; a waiter gets a lock that is   *)
(* released again and again; the reconcile loop, which runs on every exit  *)
(* of an rclone and every 30 seconds, gets to every id; an rclone that can *)
(* mount, upload or has to exit does.  Kubelet owes the plugin nothing but *)
(* the removal of staging paths.                                           *)
Fairness ==
    /\ \A p \in Procs : WF_vars(Work(p))
    /\ \A p \in Calls, i \in Ids : SF_vars(Locking(p, i))
    /\ \A i \in Ids : /\ SF_vars(Reconcile(i))
                     /\ WF_vars(RcloneMounts(i)) /\ WF_vars(RcloneExits(i))
                     /\ WF_vars(RcloneUploads(i))
    /\ \A s \in Stagings : WF_vars(KubeletCleans(s))

KubeletSpec == Init /\ [][KubeletNext]_vars

FairSpec == KubeletSpec /\ Fairness

-----------------------------------------------------------------------------
(* Properties *)

(* A volume that NodeStageVolume answered for is recorded, and stays so    *)
(* until it is unstaged: NodePublishVolume finds it, reconcile repairs it. *)
StagedIsRecorded ==
    \A s \in Stagings : told[s] = "up" => \E i \in Ids : state[i].saved /\ s \in Users(i)

(* A target that NodePublishVolume answered for is recorded until it is    *)
(* unpublished, so that reconcile can bind it again.                       *)
PublishedIsRecorded ==
    \A t \in Targets \cup Ephemerals :
        told[t] = "up" => \E i \in Ids : state[i].saved /\ t \in state[i].targets

(* After NodeUnpublishVolume answered, nothing is mounted on the target,   *)
(* although reconcile may be binding it again at the same time.            *)
UnpublishedIsBare ==
    \A t \in Targets \cup Ephemerals : told[t] = "none" => fuse[t] = <<>>

(* A mount is not taken down under a target that is in use: while a call   *)
(* or a pass unmounts an id, no published target shows it.                 *)
PodsKeepTheirMount ==
    \A t \in Targets \cup Ephemerals, i \in Ids, p \in Procs :
        told[t] = "up" /\ LiveOn(i, t) /\ proc[p].id = i
            => proc[p].pc \notin {"drain", "umount", "stop", "rmstate"}

(* A staging path uses one mount, even if the arguments of its volume      *)
(* change before a call is repeated: NodeStageVolume looks for it first.   *)
OneMountPerStaging ==
    \A s \in Stagings, i, j \in Ids : Uses(i, s) /\ Uses(j, s) => i = j

Settled == faults = {}

(* "Dead mounts come back": once nothing more goes wrong, a mount with a   *)
(* user becomes live again, or its users leave.                            *)
DeadMountsComeBack ==
    \A i \in Ids : (Settled /\ state[i].saved /\ Users(i) \cap dirs # {})
                       ~> (live(Mountpoint(i)) \/ ~state[i].saved)

(* After a restart at any point and however rclone died, every mount in    *)
(* use that is recorded as Mounted comes back (reconcile, acquire).        *)
MountedComesBack ==
    \A i \in Ids : (Settled /\ state[i].saved /\ state[i].mounted /\ Users(i) \cap dirs # {})
                       ~> (live(Mountpoint(i)) \/ ~state[i].saved)

(* Every target that was published comes back. *)
BindsComeBack ==
    \A t \in Targets \cup Ephemerals : (Settled /\ told[t] = "up") ~> (live(t) \/ told[t] # "up")

(* Every call is answered, and every pass ends: no lock is held forever. *)
CallsReturn == \A p \in Procs : (Settled /\ ~At(p, "idle")) ~> At(p, "idle")

(* "Nothing is left behind when the last user goes": once every volume is  *)
(* unpublished and unstaged, every rclone and every mount of it goes.      *)
NobodyLeft == \A path \in Paths : told[path] = "none"

NothingLeftBehind ==
    (Settled /\ NobodyLeft)
        ~> \/ ~NobodyLeft
           \/ \A i \in Ids : rclone[i] = "none" /\ \A path \in Paths : ~LiveOn(i, path)

=============================================================================
