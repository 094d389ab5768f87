----------------------------- MODULE RcloneNode -----------------------------
(***************************************************************************)
(* The node plugin of csi-rclone (nodeserver.go, rclone.go, reconcile.go): *)
(* the four node calls kubelet makes, the reconcile loop that repairs      *)
(* mounts, the state files both work from, and what they see of the world: *)
(* directories, mounts, rclone processes.  A call or a pass is a process   *)
(* that takes one step per externally visible effect, so that a crash, an  *)
(* rclone that dies or another call can come between any two of them.      *)
(*                                                                         *)
(* Any call may come at any time here.  KubeletNode restricts the calls to *)
(* the order kubelet keeps and adds fairness.                              *)
(***************************************************************************)
EXTENDS Naturals, Sequences, FiniteSets

CONSTANTS
    Ids,          \* rclone mounts (mountID); an id is also its mountPath
    Stagings,     \* staging paths of persistent volumes
    Targets,      \* publish targets of persistent volumes
    Ephemerals,   \* publish targets of ephemeral volumes
    StagingOf,    \* the staging path kubelet passes along with a target
    IdsOf,        \* the ids the arguments for a path may hash to: a Secret may
                  \* change between two calls
    Calls,        \* gRPC handlers that can run at a time
    Reconciler,   \* the goroutine of supervisor.Run
    Writers,      \* publish targets whose pods write
    Faults,       \* what can go wrong
    DaemonLifetime,  \* whether rclone dies with the plugin's pod
    Legacy,       \* the staging path a 4.0.0 plugin mounted an id at
    NoId, NoPath

Paths == Ids \cup Stagings \cup Targets \cup Ephemerals
Procs == Calls \cup {Reconciler}

FaultKinds ==
    {"crash",                              \* the plugin restarts
     "timeout",                            \* kubelet gives up on a call
     "kill", "term", "hang",               \* SIGKILL, SIGTERM, rclone is stuck
     "umount",                             \* somebody unmounts the mount point
     "load", "save", "remove", "rmall",    \* state file errors
     "drain",                              \* an hour is not enough, or the rc
                                           \* server answers with an error
     "args", "start", "detach", "stop", "bind"}

ASSUME ConstantsAssumption ==
    /\ NoId \notin Paths
    /\ NoPath \notin Paths
    /\ Reconciler \notin Calls
    /\ Ids \cap (Stagings \cup Targets \cup Ephemerals) = {}
    /\ Stagings \cap (Targets \cup Ephemerals) = {}
    /\ Targets \cap Ephemerals = {}
    /\ StagingOf \in [Targets -> Stagings]
    /\ IdsOf \in [Stagings \cup Ephemerals -> (SUBSET Ids) \ {{}}]
    /\ Writers \subseteq Targets \cup Ephemerals
    /\ Faults \subseteq FaultKinds
    /\ DaemonLifetime \in {"systemd", "in-container", "auto"}
    /\ DOMAIN Legacy \subseteq Ids
    /\ \A i \in DOMAIN Legacy : Legacy[i] \in Stagings
    /\ \A i, j \in DOMAIN Legacy : Legacy[i] = Legacy[j] => i = j

VARIABLES
    state,    \* the state file of an id, and whether it exists
    dirs,     \* the directories that exist
    fuse,     \* what is mounted on a path, the top first
    rclone,   \* the rclone process of an id
    proc,     \* the handlers and the reconcile loop
    told,     \* what the last call for a path told kubelet
    faults,   \* the faults that can still happen
    uploads   \* the ids whose VFS cache holds writes that are not uploaded

vars == <<state, dirs, fuse, rclone, proc, told, faults, uploads>>

-----------------------------------------------------------------------------
(* Types *)

(* at is StagingPath, where rclone is mounted.  Args, Env and whether a    *)
(* target is read-only are left out.                                       *)
volumeState == [saved : BOOLEAN, mounted : BOOLEAN, at : Paths,
                users : SUBSET Paths, targets : SUBSET Paths]

NoState(i) == [saved |-> FALSE, mounted |-> FALSE, at |-> i, users |-> {}, targets |-> {}]

(* "plain" is a bind of a directory nothing was mounted on. *)
Entry == [id : Ids, kind : {"live", "dead", "plain"}]

Unlocked == {"idle", "find", "lockof", "args", "acquire"}
Either   == {"unbind", "rmdir"}
Locked   == {"mount", "save", "start", "mountwait", "setmounted", "adduser", "readduser",
             "remount", "stopold", "remountwait", "record", "bindcheck", "bind",
             "release", "forget", "drain", "umount", "stop", "rmstate", "gone",
             "targets", "rebind"}

(* id is the id a process has locked, left what its loop has yet to visit. *)
(* A call that kubelet no longer waits for runs on with its context        *)
(* cancelled.                                                              *)
Process == [pc : Unlocked \cup Either \cup Locked,
            op : {"none", "stage", "unstage", "publish", "unpublish", "reconcile"},
            path : Paths \cup {NoPath}, id : Ids \cup {NoId}, left : SUBSET Paths,
            awaited : BOOLEAN]

Idle == [pc |-> "idle", op |-> "none", path |-> NoPath, id |-> NoId, left |-> {},
         awaited |-> TRUE]

TypeOK ==
    /\ state \in [Ids -> volumeState]
    /\ dirs \subseteq Paths
    /\ fuse \in [Paths -> Seq(Entry)]
    /\ rclone \in [Ids -> {"none", "starting", "running", "stuck"}]
    /\ proc \in [Procs -> Process]
    /\ told \in [Paths -> {"none", "unsure", "up"}]
    /\ faults \subseteq FaultKinds
    /\ uploads \subseteq Ids

-----------------------------------------------------------------------------
(* State files *)

SaveState(i, st) == state' = [state EXCEPT ![i] = st]

Mountpoint(i) == state[i].at

(* addLegacyUser: 4.0.0 mounted at the staging path, its only user. *)
Users(i) == IF state[i].users = {} /\ Mountpoint(i) # i THEN {Mountpoint(i)} ELSE state[i].users

Uses(i, path) == state[i].saved /\ path \in Users(i) \cup state[i].targets

-----------------------------------------------------------------------------
(* Mounts *)

(* Unmount takes the top mount off a path, and does nothing on a bare one. *)
Pop(s) == IF s = <<>> THEN s ELSE Tail(s)
detach(path) == fuse' = [fuse EXCEPT ![path] = Pop(@)]

Dead(e, i) == IF e.id = i /\ e.kind = "live" THEN [e EXCEPT !.kind = "dead"] ELSE e
Kill(s, i) == [k \in 1..Len(s) |-> Dead(s[k], i)]

Own(i) == [id |-> i, kind |-> "live"]
OnTop(i, path) == fuse[path] # <<>> /\ Head(fuse[path]) = Own(i)

(* Every mount of an rclone that is gone is dead.  After a SIGTERM it has  *)
(* unmounted its own mount point first.                                    *)
Killed(i, clean) ==
    fuse' = [path \in Paths |->
                Kill(IF clean /\ path = Mountpoint(i) /\ OnTop(i, path)
                     THEN Tail(fuse[path]) ELSE fuse[path], i)]

Probe(path) ==
    IF path \notin dirs THEN "Gone"
    ELSE IF fuse[path] = <<>> \/ Head(fuse[path]).kind = "plain" THEN "Other"
    ELSE IF Head(fuse[path]).kind = "dead" THEN "Dead"
    ELSE IF rclone[Head(fuse[path]).id] = "stuck" THEN "Hung"
    ELSE "Live"

live(path) == Probe(path) = "Live"

(* A bind shows what is on top of the mount point at that moment. *)
BindTo(i, path) ==
    fuse' = [fuse EXCEPT ![path] =
                <<IF fuse[Mountpoint(i)] = <<>> THEN [id |-> i, kind |-> "plain"]
                  ELSE Head(fuse[Mountpoint(i)])>> \o @]

(* Mutant: an unmounted mount point is remounted while its rclone runs. *)
LeaveAloneHung(i) == Probe(Mountpoint(i)) = "Hung"

(* check: the mount of an rclone that still runs is left alone. *)
LeaveAlone(i) ==
    \/ Probe(Mountpoint(i)) = "Hung"
    \/ Probe(Mountpoint(i)) = "Other" /\ state[i].mounted /\ rclone[i] # "none"

-----------------------------------------------------------------------------
(* Processes *)

At(p, label) == proc[p].pc = label

(* Mutant: the reconcile loop takes no lock. *)
FreeOfCalls(i) == \A p \in Calls : proc[p].id # i

IsFree(i) == \A p \in Procs : proc[p].id # i

Become(p, r) == proc' = [proc EXCEPT ![p] = r] /\ UNCHANGED told

Step(p, label) == Become(p, [proc[p] EXCEPT !.pc = label])

(* With the lock of i held, and nothing left to look for. *)
StepLocked(p, i, label) == Become(p, [proc[p] EXCEPT !.pc = label, !.id = i, !.left = {}])

(* The reply to a call, and the deferred Unlock. *)
Return(p, ok) ==
    /\ proc' = [proc EXCEPT ![p] = Idle]
    /\ told' = IF ok /\ p # Reconciler /\ proc[p].awaited
               THEN [told EXCEPT ![proc[p].path] =
                        IF proc[p].op \in {"stage", "publish"} THEN "up" ELSE "none"]
               ELSE told

(* stopScope only warns if it fails, as it may once the call is cancelled. *)
stopScope(p) ==
    \/ /\ "stop" \in faults \/ ~proc[p].awaited
       /\ UNCHANGED <<fuse, rclone>>
    \/ /\ rclone' = [rclone EXCEPT ![proc[p].id] = "none"]
       /\ \E clean \in BOOLEAN : Killed(proc[p].id, clean)

(* The steps that return an error when the operation they begin with fails. *)
FailsAt == [args   |-> {"args"},
            load   |-> {"acquire", "adduser"},
            save   |-> {"save", "setmounted", "adduser", "readduser", "record", "forget"},
            detach |-> {"mount", "remount", "bindcheck", "unbind", "umount"},
            stop   |-> {"stopold"},
            rmall  |-> {"rmstate"}]

Fail(p) ==
    /\ \/ \E f \in faults \cap DOMAIN FailsAt : proc[p].pc \in FailsAt[f]
       \/ At(p, "stopold") /\ ~proc[p].awaited
    /\ At(p, "bindcheck") => ~live(proc[p].path)
    /\ Return(p, FALSE)
    /\ UNCHANGED <<state, dirs, fuse, rclone, faults, uploads>>

-----------------------------------------------------------------------------
(* The calls *)

Requests == ({"stage", "unstage"} \X Stagings)
            \cup ({"publish", "unpublish"} \X (Targets \cup Ephemerals))

(* Mutant: NodeStageVolume does not look whether the volume is staged. *)
CallWithoutSearch(p, op, path) ==
    /\ At(p, "idle")
    /\ proc' = [proc EXCEPT ![p] = [Idle EXCEPT
                    !.pc = IF op = "stage" \/ (op = "publish" /\ path \in Ephemerals)
                           THEN "args" ELSE "find",
                    !.op = op, !.path = path]]
    /\ told' = [told EXCEPT ![path] = "unsure"]
    /\ UNCHANGED <<state, dirs, fuse, rclone, faults, uploads>>

(* A request arrives.  One that lacks a field is refused before anything   *)
(* happens.  NodePublishVolume of an ephemeral volume looks for no mount.  *)
Call(p, op, path) ==
    /\ At(p, "idle")
    /\ proc' = [proc EXCEPT ![p] = [Idle EXCEPT
                    !.pc = IF op = "publish" /\ path \in Ephemerals THEN "args" ELSE "find",
                    !.op = op, !.path = path]]
    /\ told' = [told EXCEPT ![path] = "unsure"]
    /\ UNCHANGED <<state, dirs, fuse, rclone, faults, uploads>>

(* The path lockMountOf looks for: a published persistent volume is found  *)
(* by its staging path.                                                    *)
Key(p) == IF proc[p].op = "publish" THEN StagingOf[proc[p].path] ELSE proc[p].path

(* lockMountOf: loadStates, without the lock.  A file it cannot read is    *)
(* skipped.                                                                *)
Find(p) ==
    /\ At(p, "find")
    /\ \E unread \in IF "load" \in faults THEN SUBSET Ids ELSE {{}} :
          Become(p, [proc[p] EXCEPT !.pc = "lockof",
                                    !.left = {i \in Ids \ unread : Uses(i, Key(p))}])
    /\ UNCHANGED <<state, dirs, fuse, rclone, faults, uploads>>

(* Mutant: the state is not loaded again under the lock. *)
LockMountOfStale(p, i) ==
    /\ At(p, "lockof")
    /\ i \in proc[p].left
    /\ IsFree(i)
    /\ CASE proc[p].op = "stage"   -> Return(p, TRUE)
         [] proc[p].op = "unstage" -> StepLocked(p, i, "release")
         [] proc[p].op = "publish" -> StepLocked(p, i, "record")
         [] OTHER                  -> StepLocked(p, i, "unbind")
    /\ UNCHANGED <<state, dirs, fuse, rclone, faults, uploads>>

(* lockMountOf, a candidate that the path still uses once it is locked.    *)
(* NodeStageVolume unlocks it at once: the volume is staged already.       *)
LockMountOf(p, i) ==
    /\ At(p, "lockof")
    /\ i \in proc[p].left
    /\ IsFree(i)
    /\ Uses(i, Key(p))
    /\ CASE proc[p].op = "stage"   -> Return(p, TRUE)
         [] proc[p].op = "unstage" -> StepLocked(p, i, "release")
         [] proc[p].op = "publish" -> StepLocked(p, i, "record")
         [] OTHER                  -> StepLocked(p, i, "unbind")
    /\ UNCHANGED <<state, dirs, fuse, rclone, faults, uploads>>

(* Mutant: a candidate that is gone is tried again. *)
SkipMountNever(p, i) ==
    /\ At(p, "lockof")
    /\ i \in proc[p].left
    /\ IsFree(i)
    /\ ~Uses(i, Key(p))
    /\ UNCHANGED vars

(* A candidate that the path has left meanwhile, or that is unreadable. *)
SkipMount(p, i) ==
    /\ At(p, "lockof")
    /\ i \in proc[p].left
    /\ IsFree(i)
    /\ ~Uses(i, Key(p)) \/ "load" \in faults
    /\ Become(p, [proc[p] EXCEPT !.left = @ \ {i}])
    /\ UNCHANGED <<state, dirs, fuse, rclone, faults, uploads>>

NotFound(p) ==
    /\ At(p, "lockof")
    /\ proc[p].left = {}
    /\ CASE proc[p].op = "stage"   -> Step(p, "args")
         [] proc[p].op = "unstage" -> Return(p, TRUE)
         [] proc[p].op = "publish" -> Return(p, FALSE)
         [] OTHER                  -> Step(p, "unbind")
    /\ UNCHANGED <<state, dirs, fuse, rclone, faults, uploads>>

(* Mutant: the staging path is not made. *)
ArgsWithoutMkdir(p) ==
    /\ At(p, "args")
    /\ \E i \in IdsOf[proc[p].path] : Become(p, [proc[p] EXCEPT !.pc = "acquire", !.left = {i}])
    /\ UNCHANGED <<state, dirs, fuse, rclone, faults, uploads>>

(* extractFlags or ephemeralArgs, then mountID.  The staging path is made  *)
(* here: reconcile takes a missing one for an unstaged volume.             *)
Args(p) ==
    /\ At(p, "args")
    /\ \E i \in IdsOf[proc[p].path] : Become(p, [proc[p] EXCEPT !.pc = "acquire", !.left = {i}])
    /\ dirs' = dirs \cup (IF proc[p].op = "stage" THEN {proc[p].path} ELSE {})
    /\ UNCHANGED <<state, fuse, rclone, faults, uploads>>

-----------------------------------------------------------------------------
(* acquire: the id is locked, its state loaded and checked *)

Acquire(p, i) ==
    /\ At(p, "acquire")
    /\ i \in proc[p].left
    /\ IsFree(i)
    /\ IF ~state[i].saved THEN StepLocked(p, i, "mount")
       ELSE IF LeaveAlone(i) THEN Return(p, FALSE)
       ELSE StepLocked(p, i, IF live(Mountpoint(i)) THEN "adduser" ELSE "remount")
    /\ UNCHANGED <<state, dirs, fuse, rclone, faults, uploads>>

(* mountRclone: what an rclone that exited left behind is detached, and    *)
(* the mount point made.                                                   *)
Mount(p) ==
    /\ At(p, "mount")
    /\ detach(proc[p].id)
    /\ dirs' = dirs \cup {proc[p].id}
    /\ Step(p, "save")
    /\ UNCHANGED <<state, rclone, faults, uploads>>

(* Mutant: the state lacks the mount point. *)
SaveNowhere(p) ==
    /\ At(p, "save")
    /\ SaveState(proc[p].id, [NoState(proc[p].id) EXCEPT !.saved = TRUE, !.at = NoPath])
    /\ Step(p, "start")
    /\ UNCHANGED <<dirs, fuse, rclone, faults, uploads>>

(* The first saveState of mount: a mount that has not come up yet. *)
Save(p) ==
    /\ At(p, "save")
    /\ SaveState(proc[p].id, [NoState(proc[p].id) EXCEPT !.saved = TRUE])
    /\ Step(p, "start")
    /\ UNCHANGED <<dirs, fuse, rclone, faults, uploads>>

(* mount removes the state it saved if rclone does not start, and ignores  *)
(* it if that fails.                                                       *)
RemoveState(i) ==
    \/ SaveState(i, NoState(i))
    \/ "remove" \in faults /\ UNCHANGED state

(* startRclone: the scope of an rclone that is still there keeps the new   *)
(* one from starting.                                                      *)
Start(p) ==
    LET i == proc[p].id IN
    /\ At(p, "start")
    /\ IF rclone[i] = "none"
       THEN /\ rclone' = [rclone EXCEPT ![i] = "starting"]
            /\ Step(p, "mountwait")
            /\ UNCHANGED state
       ELSE /\ RemoveState(i)
            /\ Return(p, FALSE)
            /\ UNCHANGED rclone
    /\ UNCHANGED <<dirs, fuse, faults, uploads>>

(* Supervisor.Start returns once the mount point is live. *)
Ready(p) ==
    /\ proc[p].pc \in {"mountwait", "remountwait"}
    /\ live(Mountpoint(proc[p].id))
    /\ IF At(p, "mountwait") THEN Step(p, "setmounted")
       ELSE IF p # Reconciler THEN Step(p, "readduser")
       ELSE Become(p, [proc[p] EXCEPT !.pc = "targets", !.left = state[proc[p].id].targets])
    /\ UNCHANGED <<state, dirs, fuse, rclone, faults, uploads>>

(* Supervisor.Start fails: rclone exited, or did not mount in time and is  *)
(* killed.  remount keeps the state.                                       *)
StartFails(p) ==
    LET i == proc[p].id IN
    /\ proc[p].pc \in {"mountwait", "remountwait"}
    /\ ~live(Mountpoint(i))
    /\ rclone[i] = "starting" => "start" \in faults \/ ~proc[p].awaited
    /\ rclone' = [rclone EXCEPT ![i] = "none"]
    /\ Killed(i, FALSE)
    /\ IF At(p, "mountwait") THEN RemoveState(i) ELSE UNCHANGED state
    /\ Return(p, FALSE)
    /\ UNCHANGED <<dirs, faults, uploads>>

(* The second saveState of mount. *)
SetMounted(p) ==
    /\ At(p, "setmounted")
    /\ SaveState(proc[p].id, [state[proc[p].id] EXCEPT !.mounted = TRUE])
    /\ Step(p, "adduser")
    /\ UNCHANGED <<dirs, fuse, rclone, faults, uploads>>

(* The end of acquire.  Only after a remount is Mounted set here. *)
AddUser(p) ==
    LET i == proc[p].id IN
    /\ proc[p].pc \in {"adduser", "readduser"}
    /\ SaveState(i, [state[i] EXCEPT !.users = Users(i) \cup {proc[p].path},
                                     !.mounted = @ \/ At(p, "readduser")])
    /\ IF proc[p].op = "stage" THEN Return(p, TRUE) ELSE Step(p, "record")
    /\ UNCHANGED <<dirs, fuse, rclone, faults, uploads>>

-----------------------------------------------------------------------------
(* remount, for acquire and for reconcile *)

Remount(p) ==
    /\ At(p, "remount")
    /\ detach(Mountpoint(proc[p].id))
    /\ Step(p, "stopold")
    /\ UNCHANGED <<state, dirs, rclone, faults, uploads>>

(* What is left of the old scope is stopped, and rclone started again. *)
StopOld(p) ==
    LET i == proc[p].id IN
    /\ At(p, "stopold")
    /\ \E clean \in BOOLEAN : Killed(i, clean)
    /\ rclone' = [rclone EXCEPT ![i] = "starting"]
    /\ Step(p, "remountwait")
    /\ UNCHANGED <<state, dirs, faults, uploads>>

-----------------------------------------------------------------------------
(* NodePublishVolume, with the mount locked *)

(* Mutant: the target is not recorded. *)
RecordNothing(p) ==
    /\ At(p, "record")
    /\ IF live(Mountpoint(proc[p].id)) THEN Step(p, "bindcheck") ELSE Return(p, FALSE)
    /\ UNCHANGED <<state, dirs, fuse, rclone, faults, uploads>>

(* The target is recorded before it is bound. *)
Record(p) ==
    LET i == proc[p].id IN
    /\ At(p, "record")
    /\ IF live(Mountpoint(i))
       THEN /\ SaveState(i, [state[i] EXCEPT !.users = Users(i), !.targets = @ \cup {proc[p].path}])
            /\ Step(p, "bindcheck")
       ELSE /\ Return(p, FALSE)
            /\ UNCHANGED state
    /\ UNCHANGED <<dirs, fuse, rclone, faults, uploads>>

(* A live target is left as it is, whatever it shows. *)
BindCheck(p) ==
    /\ At(p, "bindcheck")
    /\ IF live(proc[p].path)
       THEN Return(p, TRUE) /\ UNCHANGED fuse
       ELSE detach(proc[p].path) /\ Step(p, "bind")
    /\ UNCHANGED <<state, dirs, rclone, faults, uploads>>

(* MkdirAll fails on a mount that does not answer, Bind only once the      *)
(* target has been made.                                                   *)
Bind(p) ==
    LET path == proc[p].path IN
    /\ At(p, "bind")
    /\ \/ /\ Probe(path) \notin {"Dead", "Hung"}
          /\ dirs' = dirs \cup {path}
          /\ \/ BindTo(proc[p].id, path) /\ Return(p, TRUE)
             \/ "bind" \in faults /\ UNCHANGED fuse /\ Return(p, FALSE)
       \/ /\ Probe(path) \in {"Dead", "Hung"} \/ "bind" \in faults
          /\ UNCHANGED <<dirs, fuse>>
          /\ Return(p, FALSE)
    /\ UNCHANGED <<state, rclone, faults, uploads>>

-----------------------------------------------------------------------------
(* NodeUnpublishVolume, with the mount locked if there is one *)

(* Mutant: a target that is not live is taken for unpublished. *)
UnbindLive(p) ==
    /\ At(p, "unbind")
    /\ IF live(proc[p].path) THEN detach(proc[p].path) /\ Step(p, "rmdir")
       ELSE /\ UNCHANGED fuse
            /\ IF proc[p].id = NoId THEN Return(p, TRUE)
               ELSE Step(p, IF proc[p].path \in Users(proc[p].id) THEN "release" ELSE "forget")
    /\ UNCHANGED <<state, dirs, rclone, faults, uploads>>

Unbind(p) ==
    /\ At(p, "unbind")
    /\ detach(proc[p].path)
    /\ Step(p, "rmdir")
    /\ UNCHANGED <<state, dirs, rclone, faults, uploads>>

(* os.Remove fails on a directory something is still mounted on. *)
Rmdir(p) ==
    LET path == proc[p].path
        i    == proc[p].id
    IN
    /\ At(p, "rmdir")
    /\ IF fuse[path] # <<>>
       THEN Return(p, FALSE) /\ UNCHANGED dirs
       ELSE /\ dirs' = dirs \ {path}
            /\ IF i = NoId THEN Return(p, TRUE)
               ELSE Step(p, IF path \in Users(i) THEN "release" ELSE "forget")
    /\ UNCHANGED <<state, fuse, rclone, faults, uploads>>

(* The saveState of NodeUnpublishVolume, and of release. *)
Forget(p) ==
    LET i == proc[p].id IN
    /\ At(p, "forget")
    /\ SaveState(i, [state[i] EXCEPT !.users = Users(i) \ {proc[p].path},
                                     !.targets = @ \ {proc[p].path}])
    /\ Return(p, TRUE)
    /\ UNCHANGED <<dirs, fuse, rclone, faults, uploads>>

-----------------------------------------------------------------------------
(* release and unmount: the last user unmounts *)

(* Mutant: any user unmounts. *)
ReleaseAlways(p) ==
    /\ At(p, "release")
    /\ Step(p, "drain")
    /\ UNCHANGED <<state, dirs, fuse, rclone, faults, uploads>>

Release(p) ==
    /\ At(p, "release")
    /\ Step(p, IF Users(proc[p].id) \subseteq {proc[p].path} THEN "drain" ELSE "forget")
    /\ UNCHANGED <<state, dirs, fuse, rclone, faults, uploads>>

(* Mutant: nothing is waited for. *)
DrainAtOnce(p) ==
    /\ At(p, "drain")
    /\ Step(p, "umount")
    /\ UNCHANGED <<state, dirs, fuse, rclone, faults, uploads>>

(* waitForUploads: rounds of core/stats and vfs/stats, until vfs/stats     *)
(* counts no uploads.  The transfers of core/stats come as an array, which *)
(* does not decode into the map of rcCoreStatsResponse, so they never keep *)
(* a round from going on.  An rclone that is gone is not waited for.  It   *)
(* gives up after an hour, but a single request to an rclone that is stuck *)
(* has no timeout.                                                         *)
Drain(p) ==
    LET i == proc[p].id IN
    /\ At(p, "drain")
    /\ rclone[i] # "stuck"
    /\ rclone[i] = "running" /\ i \in uploads => "drain" \in faults
    /\ Step(p, "umount")
    /\ UNCHANGED <<state, dirs, fuse, rclone, faults, uploads>>

Umount(p) ==
    /\ At(p, "umount")
    /\ detach(Mountpoint(proc[p].id))
    /\ Step(p, "stop")
    /\ UNCHANGED <<state, dirs, rclone, faults, uploads>>

(* stopScope, then os.Remove of the plugin's own mount point, which fails  *)
(* if something is still mounted there.                                    *)
Stop(p) ==
    LET i == proc[p].id IN
    /\ At(p, "stop")
    /\ stopScope(p)
    /\ IF Mountpoint(i) = i /\ fuse'[i] # <<>>
       THEN Return(p, FALSE) /\ UNCHANGED dirs
       ELSE dirs' = dirs \ ({i} \cap {Mountpoint(i)}) /\ Step(p, "rmstate")
    /\ UNCHANGED <<state, faults, uploads>>

(* os.RemoveAll of the state directory, which holds the VFS cache too. *)
RmState(p) ==
    /\ At(p, "rmstate")
    /\ SaveState(proc[p].id, NoState(proc[p].id))
    /\ uploads' = uploads \ {proc[p].id}
    /\ Return(p, TRUE)
    /\ UNCHANGED <<dirs, fuse, rclone, faults>>

-----------------------------------------------------------------------------
(* reconcile *)

(* Mutant: a dead mount is taken for one that hangs. *)
ReconcileNotDead(i) ==
    LET s == Probe(Mountpoint(i)) IN
    /\ At(Reconciler, "idle")
    /\ IsFree(i)
    /\ state[i].saved
    /\ s \in {"Live", "Gone"}
    /\ Become(Reconciler, [Idle EXCEPT
            !.op = "reconcile", !.id = i, !.pc = IF s = "Live" THEN "targets" ELSE "gone",
            !.left = IF s = "Live" THEN state[i].targets ELSE {}])
    /\ UNCHANGED <<state, dirs, fuse, rclone, faults, uploads>>

(* The supervisor takes the lock of an id.  A pass that returns before it  *)
(* changes anything is a stuttering step.                                  *)
Reconcile(i) ==
    LET s == Probe(Mountpoint(i)) IN
    /\ At(Reconciler, "idle")
    /\ IsFree(i)
    /\ state[i].saved
    /\ ~LeaveAlone(i)
    /\ s = "Other" => state[i].mounted
    /\ Become(Reconciler, [Idle EXCEPT
            !.op = "reconcile", !.id = i,
            !.pc = IF s = "Live" THEN "targets" ELSE IF s = "Gone" THEN "gone" ELSE "remount",
            !.left = IF s = "Live" THEN state[i].targets ELSE {}])
    /\ UNCHANGED <<state, dirs, fuse, rclone, faults, uploads>>

(* Mutant: the state goes, rclone stays. *)
GoneWithoutStop(p) ==
    /\ At(p, "gone")
    /\ Step(p, "rmstate")
    /\ UNCHANGED <<state, dirs, fuse, rclone, faults, uploads>>

(* The mount point is gone, and with it the volume. *)
Gone(p) ==
    /\ At(p, "gone")
    /\ stopScope(p)
    /\ Step(p, "rmstate")
    /\ UNCHANGED <<state, dirs, faults, uploads>>

(* Mutant: a dead target is not bound again. *)
TargetSkipped(p, t) ==
    /\ At(p, "targets")
    /\ t \in proc[p].left
    /\ Become(p, [proc[p] EXCEPT !.left = @ \ {t}])
    /\ UNCHANGED <<state, dirs, fuse, rclone, faults, uploads>>

(* The loop over Targets: a dead one is detached. *)
Target(p, t) ==
    /\ At(p, "targets")
    /\ t \in proc[p].left
    /\ \/ /\ Probe(t) = "Dead"
          /\ detach(t)
          /\ Become(p, [proc[p] EXCEPT !.pc = "rebind", !.path = t, !.left = @ \ {t}])
       \/ /\ Probe(t) = "Dead" => "detach" \in faults
          /\ Become(p, [proc[p] EXCEPT !.left = @ \ {t}])
          /\ UNCHANGED fuse
    /\ UNCHANGED <<state, dirs, rclone, faults, uploads>>

(* ... and bound again. *)
Rebind(p) ==
    LET t == proc[p].path IN
    /\ At(p, "rebind")
    /\ \/ t \in dirs /\ BindTo(proc[p].id, t)
       \/ (t \notin dirs \/ "bind" \in faults) /\ UNCHANGED fuse
    /\ Become(p, [proc[p] EXCEPT !.pc = "targets", !.path = NoPath])
    /\ UNCHANGED <<state, dirs, rclone, faults, uploads>>

(* Mutant: a mount without users is kept. *)
DropUsersOnly(p) ==
    LET i       == proc[p].id
        users   == Users(i) \cap dirs
        targets == state[i].targets \cap dirs
    IN
    /\ At(p, "targets")
    /\ proc[p].left = {}
    /\ Return(p, TRUE)
    /\ SaveState(i, [state[i] EXCEPT !.users = users, !.targets = targets])
    /\ UNCHANGED <<dirs, fuse, rclone, faults, uploads>>

(* Mutant: only staging paths count as users. *)
DropUsersStaged(p) ==
    LET i == proc[p].id IN
    /\ At(p, "targets")
    /\ proc[p].left = {}
    /\ IF Users(i) \cap Stagings \cap dirs = {} THEN Step(p, "drain") ELSE Return(p, TRUE)
    /\ UNCHANGED <<state, dirs, fuse, rclone, faults, uploads>>

(* Targets and users whose directory is gone are dropped.  Without users   *)
(* the mount goes, and what was dropped is not saved.                      *)
DropUsers(p) ==
    LET i       == proc[p].id
        users   == Users(i) \cap dirs
        targets == state[i].targets \cap dirs
    IN
    /\ At(p, "targets")
    /\ proc[p].left = {}
    /\ \/ users = {} /\ Step(p, "drain") /\ UNCHANGED state
       \/ /\ users # {}
          /\ Return(p, TRUE)
          /\ \/ /\ (users = Users(i) /\ targets = state[i].targets) \/ "save" \in faults
                /\ UNCHANGED state
             \/ SaveState(i, [state[i] EXCEPT !.users = users, !.targets = targets])
    /\ UNCHANGED <<dirs, fuse, rclone, faults, uploads>>

-----------------------------------------------------------------------------
(* The node: rclone, the kernel, kubelet, the pod *)

(* A starting rclone mounts.  It needs a directory that answers. *)
RcloneMounts(i) ==
    /\ rclone[i] = "starting"
    /\ Probe(Mountpoint(i)) = "Other"
    /\ rclone' = [rclone EXCEPT ![i] = "running"]
    /\ fuse' = [fuse EXCEPT ![Mountpoint(i)] = <<Own(i)>> \o @]
    /\ UNCHANGED <<state, dirs, proc, told, faults, uploads>>

LiveOn(i, path) == \E k \in 1..Len(fuse[path]) : fuse[path][k] = Own(i)

(* rclone exits once it is unmounted everywhere, or cannot mount. *)
RcloneExits(i) ==
    /\ \/ rclone[i] = "running" /\ \A path \in Paths : ~LiveOn(i, path)
       \/ rclone[i] = "starting" /\ Probe(Mountpoint(i)) # "Other"
    /\ rclone' = [rclone EXCEPT ![i] = "none"]
    /\ UNCHANGED <<state, dirs, fuse, proc, told, faults, uploads>>

(* SIGKILL, or SIGTERM to an rclone that answers. *)
RcloneDies(i, clean) ==
    /\ IF clean THEN "term" \in faults /\ rclone[i] \in {"starting", "running"}
                ELSE "kill" \in faults /\ rclone[i] # "none"
    /\ rclone' = [rclone EXCEPT ![i] = "none"]
    /\ Killed(i, clean)
    /\ UNCHANGED <<state, dirs, proc, told, faults, uploads>>

RcloneHangs(i) ==
    /\ "hang" \in faults
    /\ rclone[i] = "running"
    /\ rclone' = [rclone EXCEPT ![i] = "stuck"]
    /\ UNCHANGED <<state, dirs, fuse, proc, told, faults, uploads>>

RcloneResumes(i) ==
    /\ rclone[i] = "stuck"
    /\ rclone' = [rclone EXCEPT ![i] = "running"]
    /\ UNCHANGED <<state, dirs, fuse, proc, told, faults, uploads>>

(* Somebody unmounts the mount point. *)
AdminUnmounts(i) ==
    /\ "umount" \in faults
    /\ fuse[Mountpoint(i)] # <<>>
    /\ detach(Mountpoint(i))
    /\ UNCHANGED <<state, dirs, rclone, proc, told, faults, uploads>>

(* Kubelet removes a directory of its own. *)
KubeletRemoves(path) ==
    /\ path \in dirs \ Ids
    /\ fuse[path] = <<>>
    /\ dirs' = dirs \ {path}
    /\ UNCHANGED <<state, fuse, rclone, proc, told, faults, uploads>>

(* A pod writes through its target, into the VFS cache of rclone, which    *)
(* uploads it after a while.  The cache outlives rclone.                   *)
PodWrites(i) ==
    /\ \E t \in Writers : live(t) /\ Head(fuse[t]) = Own(i)
    /\ uploads' = uploads \cup {i}
    /\ UNCHANGED <<state, dirs, fuse, rclone, proc, told, faults>>

RcloneUploads(i) ==
    /\ i \in uploads
    /\ rclone[i] = "running"
    /\ uploads' = uploads \ {i}
    /\ UNCHANGED <<state, dirs, fuse, rclone, proc, told, faults>>

(* The rclone processes that can die with the pod: with "auto", those of   *)
(* plugin instances that did not reach the systemd of the host.            *)
InPod ==
    CASE DaemonLifetime = "systemd"      -> {{}}
      [] DaemonLifetime = "in-container" -> {Ids}
      [] DaemonLifetime = "auto"         -> SUBSET Ids

(* The plugin restarts. *)
Crash ==
    /\ "crash" \in faults
    /\ proc' = [p \in Procs |-> Idle]
    /\ \E gone \in InPod :
          /\ rclone' = [i \in Ids |-> IF i \in gone THEN "none" ELSE rclone[i]]
          /\ fuse' = [path \in Paths |->
                        [k \in 1..Len(fuse[path]) |->
                           LET e == fuse[path][k]
                           IN  IF e.id \in gone THEN Dead(e, e.id) ELSE e]]
    /\ UNCHANGED <<state, dirs, told, faults, uploads>>

(* The deadline of kubelet's request passes. *)
Timeout(p) ==
    /\ "timeout" \in faults
    /\ ~At(p, "idle")
    /\ proc[p].awaited
    /\ proc' = [proc EXCEPT ![p].awaited = FALSE]
    /\ UNCHANGED <<state, dirs, fuse, rclone, told, faults, uploads>>

(* From here on nothing goes wrong any more (used by KubeletNode). *)
Calm ==
    /\ faults # {}
    /\ faults' = {}
    /\ UNCHANGED <<state, dirs, fuse, rclone, proc, told, uploads>>

-----------------------------------------------------------------------------

(* The legacy ids are mounted where 4.0.0 left them, if anywhere. *)
Init ==
    /\ state = [i \in Ids |->
                  IF i \in DOMAIN Legacy
                  THEN [NoState(i) EXCEPT !.saved = TRUE, !.mounted = TRUE, !.at = Legacy[i]]
                  ELSE NoState(i)]
    /\ dirs = {Legacy[i] : i \in DOMAIN Legacy}
    /\ fuse = [path \in Paths |->
                 IF path \in dirs
                 THEN <<Own(CHOOSE i \in DOMAIN Legacy : Legacy[i] = path)>> ELSE <<>>]
    /\ rclone = [i \in Ids |-> IF i \in DOMAIN Legacy THEN "running" ELSE "none"]
    /\ proc = [p \in Procs |-> Idle]
    /\ told = [path \in Paths |-> IF path \in dirs THEN "up" ELSE "none"]
    /\ faults = Faults
    /\ uploads = {}

(* A step of a call or a pass once it has begun. *)
Work(p) ==
    \/ Fail(p)
    \/ Find(p) \/ NotFound(p) \/ Args(p)
    \/ Mount(p) \/ Save(p) \/ Start(p) \/ Ready(p) \/ StartFails(p)
    \/ SetMounted(p) \/ AddUser(p) \/ Remount(p) \/ StopOld(p)
    \/ Record(p) \/ BindCheck(p) \/ Bind(p)
    \/ Unbind(p) \/ Rmdir(p) \/ Forget(p)
    \/ Release(p) \/ Drain(p) \/ Umount(p) \/ Stop(p) \/ RmState(p)
    \/ Gone(p) \/ Rebind(p) \/ DropUsers(p)
    \/ \E t \in Paths : Target(p, t)

(* A step that waits for the lock of i. *)
Locking(p, i) == LockMountOf(p, i) \/ SkipMount(p, i) \/ Acquire(p, i)

Plugin ==
    \/ \E p \in Procs : Work(p)
    \/ \E p \in Calls, i \in Ids : Locking(p, i)
    \/ \E i \in Ids : Reconcile(i)

World ==
    \/ \E i \in Ids :
          \/ RcloneMounts(i) \/ RcloneExits(i)
          \/ RcloneHangs(i) \/ RcloneResumes(i) \/ AdminUnmounts(i)
          \/ PodWrites(i) \/ RcloneUploads(i)
          \/ \E clean \in BOOLEAN : RcloneDies(i, clean)
    \/ \E p \in Calls : Timeout(p)
    \/ Crash

Next ==
    \/ Plugin
    \/ World
    \/ \E p \in Calls, r \in Requests : Call(p, r[1], r[2])
    \/ \E path \in Paths : KubeletRemoves(path)

Spec == Init /\ [][Next]_vars

-----------------------------------------------------------------------------
(* Properties *)

(* The lock of a mount has one holder, and every step that works on the    *)
(* state or the mounts of an id holds it (supervisor.Lock, lockMountOf).   *)
MutualExclusion ==
    /\ \A p, q \in Procs : proc[p].id = proc[q].id /\ proc[p].id # NoId => p = q
    /\ \A p \in Procs : /\ proc[p].pc \in Locked => proc[p].id # NoId
                        /\ proc[p].pc \in Unlocked => proc[p].id = NoId

(* No handler writes a state file that was removed under it: from the      *)
(* first saveState of mount on, and wherever a mount was found by          *)
(* lockMountOf, the file exists until the process that holds the lock      *)
(* removes it.                                                             *)
StateStays ==
    \A p \in Procs : proc[p].id # NoId /\ proc[p].pc \notin {"mount", "save"}
                     => state[proc[p].id].saved

(* An rclone process has a state file for as long as it exists, whatever   *)
(* dies or crashes in between: saveState comes before startRclone, and     *)
(* stopScope before RemoveAll.  Otherwise reconcile could not repair its   *)
(* mount, nor anybody stop it.                                             *)
KnownRclones == \A i \in Ids : rclone[i] # "none" => state[i].saved

(* release unmounts only for the last user: once a call has begun to       *)
(* unmount, no path but its own uses the mount.                            *)
LastUserUnmounts ==
    \A p \in Calls : proc[p].pc \in {"drain", "umount", "stop", "rmstate"}
                     => Users(proc[p].id) \subseteq {proc[p].path}

(* An rclone that runs is unmounted only once it has uploaded what pods    *)
(* wrote, and no pod writes to it after that (waitForUploads).             *)
UploadsAwaited ==
    \A p \in Procs : proc[p].pc \in {"umount", "stop"} /\ rclone[proc[p].id] = "running"
                     => proc[p].id \notin uploads

(* "The node plugin waits for pending uploads and unmounts it": the        *)
(* directory of a mount, and with it the VFS cache, is removed only when   *)
(* the cache holds no write that has yet to be uploaded.                   *)
UploadsKept == \A p \in Procs : At(p, "rmstate") => proc[p].id \notin uploads

(* Only a mount whose rclone is gone is remounted: remount and the removal *)
(* of a volume that is gone never stop an rclone that runs for a user.     *)
OnlyGoneReplaced ==
    \A p \in Procs : proc[p].pc \in {"remount", "stopold", "gone"}
        => \/ rclone[proc[p].id] \in {"none", "starting"}
           \/ Users(proc[p].id) = {}

-----------------------------------------------------------------------------
(* The abstract specification *)

Closing(i) ==
    \E p \in Procs : proc[p].id = i /\ proc[p].pc \in {"drain", "umount", "stop", "rmstate", "gone"}

CalledFor(ops) == {proc[p].path : p \in {q \in Calls : proc[q].op \in ops}}

Shared == INSTANCE SharedMounts WITH
    Mounts  <- Ids,
    users   <- [i \in Ids |-> IF state[i].saved THEN Users(i) ELSE {}],
    phase   <- [i \in Ids |-> IF ~state[i].saved THEN "down"
                              ELSE IF Closing(i) THEN "closing" ELSE "up"],
    joining <- CalledFor({"stage", "publish"}),
    leaving <- CalledFor({"unstage", "unpublish"}),
    present <- dirs,
    lost    <- {i \in Ids : Mountpoint(i) \notin dirs}

(* State files, locks and handlers keep the promise of a shared mount: it  *)
(* is taken down only when every user is gone or leaves, and from then on  *)
(* nobody joins it, whatever fails, crashes or runs at the same time.      *)
KeepsSharedMounts == Shared!Spec

=============================================================================
