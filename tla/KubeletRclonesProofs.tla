------------------------ MODULE KubeletRclonesProofs ------------------------
(***************************************************************************)
(* On a node whose plugin does not restart: a staged volume is recorded,   *)
(* an rclone is unmounted only once it has uploaded what pods wrote, and   *)
(* only an rclone that is gone is replaced.                                *)
(***************************************************************************)
EXTENDS KubeletTargetsProofs

(* A process has locked i, and is at one of the labels. *)
HeldAt(i, labels) == \E p \in Procs : proc[p].id = i /\ proc[p].pc \in labels

(* A step of another process leaves the holder where it is. *)
LEMMA HeldStays ==
  ASSUME NEW p \in Procs, OnlyMoves(p), NEW i \in Ids, proc[p].id # i, NEW labels,
         HeldAt(i, labels)
  PROVE  HeldAt(i, labels)'
  BY DEF HeldAt, OnlyMoves

-----------------------------------------------------------------------------
(* Staged volumes *)

(* A mount has its mount point until it is removed: only a restart, or an  *)
(* error of RemoveAll, could leave a state file without.                   *)
Sited ==
    /\ {"crash", "rmall"} \cap faults = {}
    /\ \A i \in Ids : state[i].saved => Mountpoint(i) \in dirs \/ HeldAt(i, {"rmstate"})
    /\ \A p \in Procs : proc[p].pc = "save" => proc[p].id \in dirs

(* The state file of a mount records the staging path as a user. *)
Keeps(i, s) == Serves(i) /\ s \in Users(i)

Recorded == \A s \in Stagings : told[s] = "up" => \E i \in Ids : Keeps(i, s)

(* A step of a call or a pass. *)
LEMMA WorkIsSited ==
  ASSUME Kept, Sited, Inv', NEW p \in Procs, Work(p)
  PROVE  Sited'
<1> USE DEF Kept, Order
<1>1. OnlyMoves(p) /\ OnlyTouches(p) /\ faults' = faults /\ proc[p].pc # "idle"
  BY WorkFrame, WorkIsBusy
<1>2. {"crash", "rmall"} \cap faults' = {}
  BY <1>1 DEF Sited
<1>3. ASSUME NEW i \in Ids, state'[i].saved
      PROVE  Mountpoint(i)' \in dirs' \/ HeldAt(i, {"rmstate"})'
  <2>1. CASE i # proc[p].id
    <3>1. state'[i] = state[i] /\ Mountpoint(i)' = Mountpoint(i)
      BY <1>1, <2>1 DEF OnlyTouches, Mountpoint
    <3>2. CASE HeldAt(i, {"rmstate"})
      BY <1>1, <2>1, <3>2, HeldStays
    <3>3. CASE Mountpoint(i) \in dirs
      BY <2>1, <3>1, <3>3, WorkMountpoint
    <3>4. QED
      BY <1>3, <3>1, <3>2, <3>3 DEF Sited
  <2>2. CASE i = proc[p].id /\ proc[p].pc = "rmstate"
    <3>1. RmState(p)
      <4>1. ~Fail(p)
        <5>1. ASSUME NEW f \in faults \cap DOMAIN FailsAt, "rmstate" \in FailsAt[f] PROVE f = "rmall"
          BY <5>1 DEF FailsAt
        <5>2. QED
          BY <2>2, <5>1 DEF Fail, At, Sited
      <4>2. QED
        BY <2>2, <4>1
           DEF Work, Find, NotFound, Args, Mount, Save, Start, Ready, StartFails, SetMounted,
               AddUser, Remount, StopOld, Record, BindCheck, Bind, Unbind, Rmdir, Forget,
               Release, Drain, Umount, Stop, Gone, Rebind, DropUsers, Target, At
    <3>2. ~state'[i].saved
      BY <2>2, <3>1 DEF RmState, SaveState, NoState, Inv, TypeOK
    <3>3. QED
      BY <1>3, <3>2
  <2>3. CASE i = proc[p].id /\ proc[p].pc # "rmstate"
    <3>1. ~HeldAt(i, {"rmstate"})
      BY <2>3, ConstantsAssumption DEF HeldAt, Inv, Safe, OneHolder, Paths
    <3>2. state[i].saved => Mountpoint(i) \in dirs
      BY <3>1 DEF Sited
    <3>3. CASE state[i].saved /\ Mountpoint(i)' = Mountpoint(i)
      <4>1. CASE Mountpoint(i) \in dirs'
        BY <3>3, <4>1
      <4>2. CASE Stop(p) /\ dirs' # dirs
        <5>1. Step(p, "rmstate") /\ proc[p].pc # "idle"
          BY <1>1, <4>2 DEF Stop
        <5>2. proc'[p].pc = "rmstate" /\ proc'[p].id = i
          BY <2>3, <5>1, StepMoves DEF Locked, Continues
        <5>3. QED
          BY <5>2 DEF HeldAt
      <4>3. QED
        BY <3>2, <3>3, <4>1, <4>2, WorkMountpoint
    <3>4. CASE Save(p) /\ UsersBegin(i)
      BY <2>3, <3>4 DEF Save, At, Sited, UsersBegin
    <3>5. UsersStay(i) => state[i].saved /\ Mountpoint(i)' = Mountpoint(i)
      BY <1>3 DEF UsersStay
    <3>6. ASSUME NEW users, NEW targets
          PROVE  UsersChange(i, users, targets) => state[i].saved /\ Mountpoint(i)' = Mountpoint(i)
      BY DEF UsersChange
    <3>7. QED
      BY <1>3, <2>3, <3>3, <3>4, <3>5, <3>6, UsersOfWork
  <2>4. QED
    BY <2>1, <2>2, <2>3
<1>4. ASSUME NEW q \in Procs, proc'[q].pc = "save" PROVE proc'[q].id \in dirs'
  <2>1. CASE q # p
    <3>1. proc'[q] = proc[q] /\ proc[q].id \in Ids /\ proc[q].id # NoId /\ proc[q].id \in dirs
      BY <1>1, <1>4, <2>1, HeldType DEF OnlyMoves, Sited, Locked
    <3>2. proc[q].id # proc[p].id
      BY <2>1, <3>1 DEF Inv, Safe, OneHolder
    <3>3. QED
      BY <3>1, <3>2, DirsByKind
  <2>2. CASE q = p
    <3>1. p # Reconciler
      BY <1>4, <2>2 DEF Inv, Shape, WellFormed, ReconcilePcs
    <3>2. CallMoves(p) /\ Continues(p)
      BY <1>4, <2>2, <3>1, MovesOfCall DEF Idle
    <3>3. Mount(p)
      BY <1>4, <2>2, <3>2 DEF CallMoves
    <3>4. QED
      BY <2>2, <3>2, <3>3 DEF Mount, Continues
  <2>3. QED
    BY <2>1, <2>2
<1>5. QED
  BY <1>2, <1>3, <1>4 DEF Sited

(* Without a restart no state file is left without its mount point. *)
LEMMA SitedStep == Kept /\ Sited /\ Inv' /\ [KubeletNext]_vars => Sited'
<1> SUFFICES ASSUME Kept, Sited, Inv', [KubeletNext]_vars PROVE Sited'
  OBVIOUS
<1> USE DEF Kept, Order
<1>1. ASSUME NEW p \in Procs, Work(p) PROVE Sited'
  BY <1>1, WorkIsSited
<1>2. ASSUME UNCHANGED <<state, dirs>>, faults' \subseteq faults, NEW p \in Procs, OnlyMoves(p),
             proc[p].id = NoId, proc'[p].pc # "save"
      PROVE  Sited'
  <2>1. \A i \in Ids : i # NoId
    BY ConstantsAssumption DEF Paths
  <2>2. \A i \in Ids : HeldAt(i, {"rmstate"}) => HeldAt(i, {"rmstate"})'
    BY <1>2, <2>1, HeldStays
  <2>3. \A q \in Procs : proc'[q].pc = "save" => proc'[q] = proc[q]
    BY <1>2 DEF OnlyMoves
  <2>4. QED
    BY <1>2, <2>2, <2>3 DEF Sited, Mountpoint
<1>3. ASSUME NEW p \in Calls, NEW i \in Ids, Locking(p, i) PROVE Sited'
  <2>1. p \in Procs /\ OnlyMoves(p) /\ UNCHANGED <<state, dirs, faults>> /\ proc[p].id = NoId
    BY <1>3, LockingFrame DEF Procs
  <2>2. proc'[p].pc # "save"
    <3>1. CASE proc'[p] = Idle
      BY <3>1 DEF Idle
    <3>2. CASE proc'[p] # Idle
      BY <1>3, <2>1, <3>2, LockMountOfMoves, SkipMoves, AcquireMoves DEF Locking
    <3>3. QED
      BY <3>1, <3>2
  <2>3. QED
    BY <1>2, <2>1, <2>2
<1>4. ASSUME NEW i \in Ids, Reconcile(i) PROVE Sited'
  <2>1. /\ Reconciler \in Procs /\ OnlyMoves(Reconciler) /\ UNCHANGED <<state, dirs, faults>>
        /\ proc[Reconciler].id = NoId /\ proc'[Reconciler].pc # "save"
    BY <1>4, ReconcileFrame DEF Procs
  <2>2. QED
    BY <1>2, <2>1
<1>5. ASSUME NEW p \in Calls, NEW r \in Requests, Call(p, r[1], r[2]) PROVE Sited'
  <2>1. /\ p \in Procs /\ OnlyMoves(p) /\ UNCHANGED <<state, dirs, faults>>
        /\ proc[p].id = NoId /\ proc'[p].pc # "save"
    BY <1>5, CallFrame
  <2>2. QED
    BY <1>2, <2>1
<1>6. CASE Crash
  BY <1>6 DEF Crash, Sited
<1>7. CASE Outside
  BY <1>7 DEF Outside, Sited, Mountpoint, HeldAt
<1>8. ASSUME NEW s \in Stagings, KubeletCleans(s) PROVE Sited'
  <2>1. UNCHANGED <<state, proc, faults>> /\ dirs' = dirs \ {s}
    BY <1>8 DEF KubeletCleans, KubeletRemoves
  <2>2. \A i \in Ids : state[i].saved => Mountpoint(i) # s
    BY <1>8, MountpointIsStaged
  <2>3. \A i \in Ids : i # s
    BY ConstantsAssumption
  <2>4. \A p \in Procs : proc[p].pc = "save" => proc[p].id \in Ids
    BY HeldType DEF Locked
  <2>5. QED
    BY <2>1, <2>2, <2>3, <2>4 DEF Sited, Mountpoint, HeldAt
<1>9. CASE \E p \in Calls : Timeout(p)
  BY <1>9 DEF Timeout, Orderly
<1>10. QED
  BY <1>1, <1>3, <1>4, <1>5, <1>6, <1>7, <1>8, <1>9, KubeletSteps

(* A step of a call or a pass does not take down a mount that is staged. *)
LEMMA WorkKeepsUser ==
  ASSUME Kept, NEW p \in Procs, Work(p), NEW i \in Ids, NEW s \in Stagings, Keeps(i, s),
         told[s] = "up"
  PROVE  /\ state'[i].saved /\ s \in Users(i)' /\ Mountpoint(i)' = Mountpoint(i)
         /\ \A q \in Procs : proc'[q].id = i => proc'[q].pc \notin ClosingPcs
<1> USE DEF Kept, Order
<1>1. /\ state[i].saved /\ s \in Users(i) /\ s \in dirs
      /\ \A q \in Procs : proc[q].id = i => proc[q].pc \notin ClosingPcs
  BY DEF Keeps, Serves, Staged, Uses
<1>2. OnlyMoves(p) /\ OnlyTouches(p) /\ proc[p].pc # "idle" /\ (proc'[p] = Idle \/ Continues(p))
  BY WorkFrame, WorkIsBusy
<1>3. p \in Calls => proc[p].path # s
  BY <1>2 DEF Orderly
<1>4. CASE i # proc[p].id
  <2>1. state'[i] = state[i] /\ proc'[p].id # i
    BY <1>2, <1>4, ConstantsAssumption DEF OnlyTouches, Continues, Idle, Paths
  <2>2. QED
    BY <1>1, <1>2, <2>1 DEF OnlyMoves, Mountpoint, Users
<1>5. CASE i = proc[p].id
  <2>1. proc[p].pc \notin ClosingPcs /\ \A q \in Procs : proc[q].id = i => q = p
    BY <1>1, <1>5, ConstantsAssumption DEF Inv, Safe, OneHolder, Paths
  <2>2. proc'[p].pc \notin ClosingPcs
    BY <1>1, <1>3, <1>5, <2>1, ClosingBegins
  <2>3. \A q \in Procs : proc'[q].id = i => proc'[q].pc \notin ClosingPcs
    BY <1>2, <2>1, <2>2 DEF OnlyMoves
  <2>4. state'[i].saved /\ s \in Users(i)' /\ Mountpoint(i)' = Mountpoint(i)
    <3>1. CASE UsersStay(i)
      BY <1>1, <3>1 DEF UsersStay
    <3>2. CASE Save(p) /\ ~state[i].saved
      BY <1>1, <3>2
    <3>3. CASE Removes(p)
      <4>1. ~RmState(p)
        BY <2>1 DEF RmState, At, ClosingPcs
      <4>2. proc[p].pc \in {"start", "mountwait"}
        BY <3>3, <4>1 DEF Removes, Start, At
      <4>3. state[i].users = {} /\ Mountpoint(i) = i
        BY <1>5, <4>2 DEF SharedInv, Sharing
      <4>4. QED
        BY <1>1, <4>3 DEF Users
    <3>4. CASE UsersChange(i, Users(i) \cup {proc[p].path}, state[i].targets)
      BY <1>1, <3>4 DEF UsersChange
    <3>5. CASE UsersChange(i, Users(i), state[i].targets \cup {proc[p].path})
      BY <1>1, <3>5 DEF UsersChange
    <3>6. CASE Forget(p) /\ UsersChange(i, Users(i) \ {proc[p].path}, state[i].targets \ {proc[p].path})
      <4>1. p \in Calls
        BY <3>6 DEF Forget, At, Inv, Shape, WellFormed, ReconcilePcs, Procs
      <4>2. QED
        BY <1>1, <1>3, <3>6, <4>1 DEF UsersChange
    <3>7. CASE UsersChange(i, Users(i) \cap dirs, state[i].targets \cap dirs)
      BY <1>1, <3>7 DEF UsersChange
    <3>8. QED
      BY <1>5, <3>1, <3>2, <3>3, <3>4, <3>5, <3>6, <3>7, UsersOfWork
  <2>5. QED
    BY <2>3, <2>4
<1>6. QED
  BY <1>4, <1>5

(* NodeStageVolume answers for a mount that is there, and nobody takes it  *)
(* down while the volume is staged.                                        *)
LEMMA RecordedStep == Kept /\ Sited /\ Recorded /\ [KubeletNext]_vars => Recorded'
<1> SUFFICES ASSUME Kept, Sited, Recorded, [KubeletNext]_vars, NEW s \in Stagings, told'[s] = "up"
             PROVE  \E i \in Ids : Keeps(i, s)'
  BY DEF Recorded
<1> USE DEF Kept, Order
<1>0. s \in Paths /\ s \notin Published
  BY ConstantsAssumption DEF Paths, Published
<1>1. CASE told[s] = "up"
  <2>1. PICK i \in Ids : Keeps(i, s)
    BY <1>1 DEF Recorded
  <2>2. CASE \E p \in Procs : Work(p)
    <3>1. PICK p \in Procs : Work(p)
      BY <2>2
    <3>2. /\ state'[i].saved /\ s \in Users(i)' /\ Mountpoint(i)' = Mountpoint(i)
          /\ \A q \in Procs : proc'[q].id = i => proc'[q].pc \notin ClosingPcs
      BY <1>1, <2>1, <3>1, WorkKeepsUser
    <3>3. Mountpoint(i) \in dirs'
      BY <2>1, MountpointStays DEF Keeps, Serves, ClosingPcs
    <3>4. QED
      BY <3>2, <3>3 DEF Keeps, Serves
  <2>3. CASE ~\E p \in Procs : Work(p)
    <3>1. Serves(i)' /\ UNCHANGED state
      BY <2>1, <2>3, ServesOn DEF Keeps
    <3>2. QED
      BY <2>1, <3>1 DEF Keeps, Users, Mountpoint
  <2>4. QED
    BY <2>2, <2>3
<1>2. ASSUME told[s] # "up", NEW p \in Procs, Work(p) PROVE \E i \in Ids : Keeps(i, s)'
  <2>1. /\ p \in Calls /\ s = proc[p].path /\ Request(proc[p])
        /\ proc[p].op \in {"stage", "publish"}
        /\ \/ NotFound(p) /\ proc[p].op = "unstage"
           \/ AddUser(p) /\ proc[p].op = "stage"
           \/ BindCheck(p) /\ live(proc[p].path)
           \/ Bind(p) /\ dirs' = dirs \cup {proc[p].path}
           \/ Rmdir(p) /\ proc[p].id = NoId /\ dirs' = dirs \ {proc[p].path}
           \/ Forget(p)
           \/ RmState(p)
    BY <1>0, <1>2, ToldOfWork
  <2>2. proc[p].op = "stage"
    BY <1>0, <2>1 DEF Request, Published
  <2>3. Handles(p) /\ ForItsRequest(p)
    BY <2>1 DEF Handling, SharedInv
  <2>4. AddUser(p)
    BY <2>1, <2>2, <2>3
       DEF BindCheck, Bind, Rmdir, Forget, RmState, At, Handles, ForItsRequest, BindPcs, Either,
           Unmounting
  <2>5. PICK i : i = proc[p].id
    OBVIOUS
  <2>6. /\ i \in Ids /\ state[i].saved /\ state'[i].saved /\ state'[i].at = state[i].at
        /\ state'[i].users = Users(i) \cup {s}
    BY <2>1, <2>4, <2>5, AddUserSaves
  <2>7. s \in Users(i)'
    BY <2>6 DEF Users
  <2>8. /\ proc'[p].pc = "idle" /\ OnlyMoves(p) /\ UNCHANGED dirs
        /\ \A q \in Procs : proc[q].id = i => q = p
    BY <2>2, <2>4, <2>5, <2>6, ReturnMoves, ConstantsAssumption
       DEF AddUser, Inv, Safe, OneHolder, Paths
  <2>9. Mountpoint(i) \in dirs
    BY <2>4, <2>6, <2>8 DEF Sited, HeldAt, AddUser
  <2>10. \A q \in Procs : proc'[q].id = i => proc'[q].pc \notin ClosingPcs
    BY <2>8 DEF OnlyMoves, ClosingPcs
  <2>11. QED
    BY <2>6, <2>7, <2>8, <2>9, <2>10 DEF Keeps, Serves, Mountpoint
<1>3. ASSUME told[s] # "up", NEW p \in Calls, NEW i \in Ids, Locking(p, i)
      PROVE  Keeps(i, s)'
  <2>1. p \in Procs /\ OnlyMoves(p) /\ UNCHANGED <<state, dirs>> /\ IsFree(i)
    BY <1>3, LockingFrame DEF Procs
  <2>2. Answers(p) /\ LockMountOf(p, i) /\ proc[p].op = "stage"
    BY <1>3, AnswersOfLocking
  <2>3. s = proc[p].path /\ proc'[p].pc = "idle"
    BY <1>0, <1>3, <2>2 DEF Answers, Inv, TypeOK, Idle
  <2>4. Uses(i, s)
    BY <2>2, <2>3 DEF LockMountOf, Key
  <2>5. state[i].saved /\ s \in Users(i)
    BY <1>0, <2>4 DEF Uses, Sites
  <2>6. Mountpoint(i) \in dirs
    BY <2>1, <2>5 DEF Sited, HeldAt, IsFree
  <2>7. \A q \in Procs : proc'[q].id = i => proc'[q].pc \notin ClosingPcs
    BY <2>1, <2>3 DEF OnlyMoves, IsFree, ClosingPcs
  <2>8. QED
    BY <2>1, <2>5, <2>6, <2>7 DEF Keeps, Serves, Users, Mountpoint
<1>4. ASSUME NEW p \in Calls, NEW r \in Requests, Call(p, r[1], r[2]) PROVE told[s] = "up"
  BY <1>0, <1>4 DEF Call, Inv, TypeOK
<1>5. QED
  BY <1>1, <1>2, <1>3, <1>4, KubeletSteps, ReconcileFrame
     DEF KubeletCleans, KubeletRemoves, Timeout, Crash, Outside

(* 4.0.0 left every mount at the staging path of its volume. *)
LEMMA RecordedBegins ==
  ASSUME {"crash", "rmall"} \cap Faults = {}
  PROVE  Init => Sited /\ Recorded
<1> SUFFICES ASSUME Init PROVE Sited /\ Recorded
  OBVIOUS
<1>1. \A p \in Procs : proc[p] = Idle
  BY DEF Init
<1>2. ASSUME NEW i \in DOMAIN Legacy
      PROVE  /\ i \in Ids /\ state[i].saved /\ state[i].at = Legacy[i] /\ state[i].users = {}
             /\ Legacy[i] \in dirs /\ Legacy[i] # i
  BY <1>2, ConstantsAssumption DEF Init, NoState
<1>3. \A i \in Ids : state[i].saved => i \in DOMAIN Legacy
  BY DEF Init, NoState
<1>4. Idle.pc = "idle" /\ Idle.id = NoId /\ NoId \notin Ids
  BY ConstantsAssumption DEF Idle, Paths
<1>5. Sited
  BY <1>1, <1>2, <1>3, <1>4 DEF Sited, Mountpoint, Init
<1>6. ASSUME NEW s \in Stagings, told[s] = "up" PROVE \E i \in Ids : Keeps(i, s)
  <2>1. s \in dirs
    BY <1>6 DEF Init, Paths
  <2>2. PICK i \in DOMAIN Legacy : Legacy[i] = s
    BY <2>1 DEF Init
  <2>3. QED
    BY <1>1, <1>2, <1>4, <2>2 DEF Keeps, Serves, Users, Mountpoint
<1>7. QED
  BY <1>5, <1>6 DEF Recorded

(* A volume that NodeStageVolume answered for is recorded until it is      *)
(* unstaged, so that NodePublishVolume finds it and reconcile repairs its  *)
(* mount.  The plugin must not restart between the removal of a mount      *)
(* point and that of the state file, nor may RemoveAll fail: then the next *)
(* NodeStageVolume takes the state that is left for a mount.               *)
THEOREM StagedStaysRecorded ==
  ASSUME {"timeout", "load", "crash", "rmall"} \cap Faults = {}, LegacyOwn
  PROVE  KubeletSpec => []StagedIsRecorded
<1>1. KubeletSpec => [](Kept /\ Targeted)
  BY TargetsInvariant
<1>2. KubeletSpec => []Inv
  BY HandlersInvariant, PTL
<1>3. Init => Sited /\ Recorded
  BY RecordedBegins
<1>4. Kept /\ Inv' /\ Sited /\ Recorded /\ [KubeletNext]_vars => Sited' /\ Recorded'
  BY SitedStep, RecordedStep
<1>5. Recorded => StagedIsRecorded
  BY DEF Recorded, Keeps, Serves, StagedIsRecorded
<1>6. QED
  BY <1>1, <1>2, <1>3, <1>4, <1>5, PTL DEF KubeletSpec
-----------------------------------------------------------------------------
(* rclone processes *)

(* The rclone of p starts, after the old one, or is stopped. *)
Starts(p) ==
    /\ rclone' = [rclone EXCEPT ![proc[p].id] = "starting"]
    /\ \/ Start(p) /\ rclone[proc[p].id] = "none" /\ proc'[p].pc = "mountwait"
       \/ StopOld(p) /\ proc'[p].pc = "remountwait" /\ \E clean \in BOOLEAN : Killed(proc[p].id, clean)

Stops(p) ==
    /\ rclone' = [rclone EXCEPT ![proc[p].id] = "none"]
    /\ \E clean \in BOOLEAN : Killed(proc[p].id, clean)

(* What a step of a call or a pass does to rclone. *)
LEMMA RclonesOfWork ==
  ASSUME Inv, NEW p \in Procs, Work(p)
  PROVE  \/ UNCHANGED rclone /\ ~StartFails(p)
         \/ proc[p].id \in Ids /\ (Starts(p) \/ Stops(p))
<1> USE DEF At
<1>1. CASE Start(p)
  <2>1. proc[p].id \in Ids
    BY <1>1, LockedIds DEF Start, Locked
  <2>2. CASE rclone[proc[p].id] = "none"
    <3>1. Step(p, "mountwait") /\ rclone' = [rclone EXCEPT ![proc[p].id] = "starting"]
      BY <1>1, <2>2 DEF Start
    <3>2. proc'[p].pc = "mountwait"
      BY <1>1, <3>1, StepMoves DEF Start, Locked
    <3>3. QED
      BY <1>1, <2>1, <2>2, <3>1, <3>2 DEF Starts
  <2>3. CASE rclone[proc[p].id] # "none"
    BY <1>1, <2>3 DEF Start, StartFails
  <2>4. QED
    BY <2>2, <2>3
<1>2. CASE StopOld(p)
  <2>1. proc[p].id \in Ids /\ proc'[p].pc = "remountwait"
    BY <1>2, LockedIds, StepMoves DEF StopOld, Locked
  <2>2. QED
    BY <1>2, <2>1 DEF StopOld, Starts
<1>3. CASE StartFails(p)
  <2>1. proc[p].id \in Ids /\ FALSE \in BOOLEAN
    BY <1>3, LockedIds DEF StartFails, Locked
  <2>2. QED
    BY <1>3, <2>1 DEF StartFails, Stops
<1>4. CASE Stop(p) \/ Gone(p)
  <2>1. proc[p].id \in Ids /\ ~StartFails(p)
    BY <1>4, LockedIds DEF Stop, Gone, StartFails, Locked
  <2>2. QED
    BY <1>4, <2>1 DEF Stop, Gone, stopScope, Stops
<1>5. CASE ~StartFails(p) /\ ~Start(p) /\ ~StopOld(p) /\ ~Stop(p) /\ ~Gone(p)
  BY <1>5 DEF Work, Fail, Find, NotFound, Args, Mount, Save, Ready, SetMounted, AddUser, Remount,
              Record, BindCheck, Bind, Unbind, Rmdir, Forget, Release, Drain, Umount, RmState,
              Rebind, DropUsers, Target
<1>6. QED
  BY <1>1, <1>2, <1>3, <1>4, <1>5

(* The mounts of an rclone that is gone are dead. *)
LEMMA KilledHides ==
  ASSUME NEW j \in Ids, NEW clean \in BOOLEAN, Killed(j, clean), NEW path \in Paths
  PROVE  ~LiveIn(j, fuse'[path])
<1> DEFINE s == IF clean /\ path = Mountpoint(j) /\ OnTop(j, path) THEN Tail(fuse[path]) ELSE fuse[path]
<1>1. fuse'[path] = [k \in 1..Len(s) |-> Dead(s[k], j)]
  BY DEF Killed, Kill
<1> HIDE DEF s
<1>2. ASSUME NEW k \in DOMAIN fuse'[path] PROVE fuse'[path][k] # Own(j)
  <2>1. fuse'[path][k] = Dead(s[k], j)
    BY <1>1, <1>2
  <2>2. QED
    BY <2>1 DEF Dead, Own
<1>3. QED
  BY <1>2 DEF LiveIn
(* A mount that answers has its rclone. *)
Backed == \A i \in Ids, path \in Paths : LiveIn(i, fuse[path]) => rclone[i] \in {"running", "stuck"}

(* Without a restart somebody waits for every rclone that starts. *)
Starting ==
    /\ "crash" \notin faults
    /\ \A i \in Ids : rclone[i] = "starting" => HeldAt(i, {"mountwait", "remountwait"})

(* What is on top of a path is shown there. *)
LEMMA TopIsShown ==
  ASSUME Inv, NEW path \in Paths, fuse[path] # <<>>, NEW i, Head(fuse[path]) = Own(i)
  PROVE  LiveIn(i, fuse[path])
<1>1. fuse[path] \in Seq(Entry)
  BY DEF Inv, TypeOK
<1>2. 1 \in 1..Len(fuse[path]) /\ Head(fuse[path]) = fuse[path][1]
  BY <1>1, EmptySeq, LenProperties
<1>3. QED
  BY <1>2 DEF LiveIn

(* A mount point that answers shows its own rclone. *)
LEMMA LiveMountpoint ==
  ASSUME Inv, Sites, MountedAt, Backed, NEW i \in Ids, live(Mountpoint(i))
  PROVE  Head(fuse[Mountpoint(i)]) = Own(i) /\ rclone[i] \in {"running", "stuck"}
<1>1. Mountpoint(i) \in Paths
  BY UsersType DEF Inv
<1>2. fuse[Mountpoint(i)] # <<>> /\ fuse[Mountpoint(i)] \in Seq(Entry)
  BY <1>1 DEF live, Probe, Inv, TypeOK
<1>3. PICK e \in Entry : e = Head(fuse[Mountpoint(i)])
  BY <1>2
<1>4. e.kind = "live"
  BY <1>2, <1>3 DEF live, Probe, Entry
<1>5. e.id \in Ids /\ e = Own(e.id)
  BY <1>3, <1>4 DEF Entry, Own
<1>6. e.id = i
  BY <1>2, <1>3, <1>5, ShowsItsOwn
<1>7. LiveIn(i, fuse[Mountpoint(i)])
  BY <1>1, <1>2, <1>3, <1>5, <1>6, TopIsShown
<1>8. QED
  BY <1>1, <1>3, <1>5, <1>6, <1>7 DEF Backed

(* Whoever takes a mount down or starts its rclone again kills the old one. *)
LEMMA WorkBacks ==
  ASSUME Inv, Backed, NEW p \in Procs, Work(p)
  PROVE  Backed'
<1> SUFFICES ASSUME NEW i \in Ids, NEW path \in Paths, LiveIn(i, fuse'[path])
             PROVE  rclone'[i] \in {"running", "stuck"}
  BY DEF Backed, LiveIn, Own
<1>1. rclone[i] \in {"running", "stuck"}
  <2>1. CASE NothingNew(path)
    BY <2>1 DEF NothingNew, Backed
  <2>2. CASE Binds(p, path) /\ ~LiveIn(i, fuse[path])
    <3>1. fuse[Mountpoint(proc[p].id)] # <<>> /\ Head(fuse[Mountpoint(proc[p].id)]) = Own(i)
      BY <2>2, MountsOfWork DEF NothingNew
    <3>2. proc[p].id \in Ids
      BY <2>2, LockedIds DEF Binds, Bind, Rebind, At, Locked
    <3>3. Mountpoint(proc[p].id) \in Paths
      BY <3>2, UsersType DEF Inv
    <3>4. LiveIn(i, fuse[Mountpoint(proc[p].id)])
      BY <3>1, <3>3, TopIsShown
    <3>5. QED
      BY <3>3, <3>4 DEF Backed
  <2>3. CASE LiveIn(i, fuse[path])
    BY <2>3 DEF Backed
  <2>4. NothingNew(path) \/ Binds(p, path)
    BY MountsOfWork
  <2>5. QED
    BY <2>1, <2>2, <2>3, <2>4
<1>2. CASE UNCHANGED rclone
  BY <1>1, <1>2
<1>3. CASE proc[p].id \in Ids /\ (Starts(p) \/ Stops(p))
  <2>1. i # proc[p].id
    BY <1>1, <1>3, KilledHides DEF Starts, Stops
  <2>2. rclone \in [Ids -> {"none", "starting", "running", "stuck"}]
    BY DEF Inv, TypeOK
  <2>3. QED
    BY <1>1, <1>3, <2>1, <2>2 DEF Starts, Stops
<1>4. QED
  BY <1>2, <1>3, RclonesOfWork

(* What the world does to rclone. *)
LEMMA RclonesOfWorld ==
  ASSUME Inv, Backed, NEW j \in Ids,
         \/ RcloneMounts(j) \/ RcloneExits(j) \/ RcloneHangs(j) \/ RcloneResumes(j)
         \/ AdminUnmounts(j) \/ PodWrites(j) \/ RcloneUploads(j)
         \/ \E clean \in BOOLEAN : RcloneDies(j, clean)
  PROVE  /\ \A i \in Ids \ {j} : rclone'[i] = rclone[i]
         /\ \/ rclone'[j] = rclone[j]
            \/ RcloneMounts(j) /\ rclone[j] = "starting" /\ rclone'[j] = "running"
            \/ rclone'[j] = "none" /\ \A path \in Paths : ~LiveIn(j, fuse'[path])
            \/ rclone[j] \in {"running", "stuck"} /\ rclone'[j] \in {"running", "stuck"}
<1>1. rclone \in [Ids -> {"none", "starting", "running", "stuck"}]
  BY DEF Inv, TypeOK
<1>2. CASE \/ RcloneMounts(j) \/ RcloneHangs(j) \/ RcloneResumes(j)
           \/ AdminUnmounts(j) \/ PodWrites(j) \/ RcloneUploads(j)
  BY <1>1, <1>2 DEF RcloneMounts, RcloneHangs, RcloneResumes, AdminUnmounts, PodWrites, RcloneUploads
<1>3. CASE \E clean \in BOOLEAN : RcloneDies(j, clean)
  BY <1>1, <1>3, KilledHides DEF RcloneDies
<1>4. CASE RcloneExits(j)
  <2>1. \A path \in Paths : ~LiveIn(j, fuse[path])
    BY <1>4 DEF RcloneExits, LiveOn, LiveIn, Backed
  <2>2. QED
    BY <1>1, <1>4, <2>1 DEF RcloneExits
<1>5. QED
  BY <1>2, <1>3, <1>4

(* So does everything else that stops an rclone. *)
LEMMA BackedStep == Inv /\ Backed /\ Starting /\ [KubeletNext]_vars => Backed'
<1> SUFFICES ASSUME Inv, Backed, Starting, [KubeletNext]_vars PROVE Backed'
  OBVIOUS
<1>1. ASSUME NEW p \in Procs, Work(p) PROVE Backed'
  BY <1>1, WorkBacks
<1>2. ASSUME UNCHANGED <<fuse, rclone>> PROVE Backed'
  BY <1>2 DEF Backed, LiveIn, Own
<1>3. ASSUME NEW j \in Ids,
             \/ RcloneMounts(j) \/ RcloneExits(j) \/ RcloneHangs(j) \/ RcloneResumes(j)
             \/ AdminUnmounts(j) \/ PodWrites(j) \/ RcloneUploads(j)
             \/ \E clean \in BOOLEAN : RcloneDies(j, clean)
      PROVE  Backed'
  <2> SUFFICES ASSUME NEW i \in Ids, NEW path \in Paths, LiveIn(i, fuse'[path])
               PROVE  rclone'[i] \in {"running", "stuck"}
    BY DEF Backed, LiveIn, Own
  <2>1. LiveIn(i, fuse[path]) \/ (RcloneMounts(j) /\ i = j)
    BY <1>3, MountsOfWorld DEF NothingNew
  <2>2. LiveIn(i, fuse[path]) => rclone[i] \in {"running", "stuck"}
    BY DEF Backed
  <2>3. RcloneMounts(j) => rclone'[j] = "running"
    BY DEF RcloneMounts, Inv, TypeOK
  <2>4. QED
    BY <1>3, <2>1, <2>2, <2>3, RclonesOfWorld
<1>4. ~Crash
  BY DEF Crash, Starting
<1>5. ASSUME NEW p \in Calls, NEW i \in Ids, Locking(p, i) PROVE Backed'
  BY <1>2, <1>5, LockingFrame DEF Procs
<1>6. ASSUME NEW i \in Ids, Reconcile(i) PROVE Backed'
  BY <1>2, <1>6, ReconcileFrame
<1>7. QED
  BY <1>1, <1>2, <1>3, <1>4, <1>5, <1>6
     DEF KubeletNext, Plugin, World, Calm, vars, KubeletCalls, Call, KubeletCleans, KubeletRemoves, Timeout

(* Whoever waits for an rclone waits until it is up, or gone. *)
LEMMA WorkAwaits ==
  ASSUME Inv, Sites, MountedAt, Backed, Starting, NEW p \in Procs, Work(p)
  PROVE  Starting'
<1>1. OnlyMoves(p) /\ OnlyTouches(p) /\ faults' = faults /\ (proc'[p] = Idle \/ Continues(p))
  BY WorkFrame
<1>2. ASSUME NEW i \in Ids, rclone'[i] = "starting" PROVE HeldAt(i, {"mountwait", "remountwait"})'
  <2>1. CASE i # proc[p].id
    BY <1>1, <1>2, <2>1, HeldStays DEF OnlyTouches, Starting
  <2>2. CASE i = proc[p].id /\ Starts(p)
    <3>1. proc'[p].pc \in {"mountwait", "remountwait"}
      BY <2>2 DEF Starts
    <3>2. proc'[p].id = i
      BY <1>1, <2>2, <3>1 DEF Continues, Idle
    <3>3. QED
      BY <3>1, <3>2 DEF HeldAt
  <2>3. CASE i = proc[p].id /\ UNCHANGED rclone /\ ~StartFails(p)
    <3>1. proc[p].pc \in {"mountwait", "remountwait"}
      BY <1>2, <2>3, ConstantsAssumption DEF Starting, HeldAt, Inv, Safe, OneHolder, Paths
    <3>2. ~Fail(p)
      <4>1. ASSUME NEW f \in faults \cap DOMAIN FailsAt
            PROVE  "mountwait" \notin FailsAt[f] /\ "remountwait" \notin FailsAt[f]
        BY DEF FailsAt
      <4>2. QED
        BY <3>1, <4>1 DEF Fail, At
    <3>3. Ready(p)
      BY <2>3, <3>1, <3>2
         DEF Work, Find, NotFound, Args, Mount, Save, Start, SetMounted, AddUser, Remount, StopOld,
             Record, BindCheck, Bind, Unbind, Rmdir, Forget, Release, Drain, Umount, Stop, RmState,
             Gone, Rebind, DropUsers, Target, At
    <3>4. rclone[i] \in {"running", "stuck"}
      BY <2>3, <3>3, LiveMountpoint DEF Ready
    <3>5. QED
      BY <1>2, <2>3, <3>4
  <2>4. CASE i = proc[p].id /\ Stops(p)
    BY <1>2, <2>4 DEF Stops, Inv, TypeOK
  <2>5. QED
    BY <2>1, <2>2, <2>3, <2>4, RclonesOfWork
<1>3. QED
  BY <1>1, <1>2 DEF Starting

(* Nobody else starts an rclone. *)
LEMMA StartingStep ==
  Inv /\ Sites /\ MountedAt /\ Backed /\ Starting /\ [KubeletNext]_vars => Starting'
<1> SUFFICES ASSUME Inv, Sites, MountedAt, Backed, Starting, [KubeletNext]_vars PROVE Starting'
  OBVIOUS
<1>1. ASSUME NEW p \in Procs, Work(p) PROVE Starting'
  BY <1>1, WorkAwaits
<1>2. ASSUME NEW p \in Procs, OnlyMoves(p), proc[p].id = NoId, UNCHANGED rclone, UNCHANGED faults
      PROVE  Starting'
  <2>1. \A i \in Ids : i # proc[p].id
    BY <1>2, ConstantsAssumption DEF Paths
  <2>2. QED
    BY <1>2, <2>1, HeldStays DEF Starting
<1>3. ASSUME NEW p \in Calls, NEW i \in Ids, Locking(p, i) PROVE Starting'
  BY <1>2, <1>3, LockingFrame DEF Procs
<1>4. ASSUME NEW i \in Ids, Reconcile(i) PROVE Starting'
  BY <1>2, <1>4, ReconcileFrame DEF Procs
<1>5. ASSUME NEW p \in Calls, NEW r \in Requests, Call(p, r[1], r[2]) PROVE Starting'
  BY <1>2, <1>5, CallFrame
<1>6. ASSUME NEW p \in Calls, Timeout(p) PROVE Starting'
  <2>1. /\ p \in Procs /\ proc \in [Procs -> Process] /\ proc' = [proc EXCEPT ![p].awaited = FALSE]
        /\ UNCHANGED <<rclone, faults>>
    BY <1>6 DEF Timeout, Procs, Inv, TypeOK
  <2>2. \A q \in Procs : proc'[q].pc = proc[q].pc /\ proc'[q].id = proc[q].id
    BY <2>1 DEF Process
  <2>3. QED
    BY <2>1, <2>2 DEF Starting, HeldAt
<1>7. ~Crash
  BY DEF Crash, Starting
<1>8. ASSUME UNCHANGED proc, faults' \subseteq faults,
             \A i \in Ids : rclone'[i] = "starting" => rclone[i] = "starting"
      PROVE  Starting'
  BY <1>8 DEF Starting, HeldAt
<1>9. ASSUME NEW j \in Ids,
             \/ RcloneMounts(j) \/ RcloneExits(j) \/ RcloneHangs(j) \/ RcloneResumes(j)
             \/ AdminUnmounts(j) \/ PodWrites(j) \/ RcloneUploads(j)
             \/ \E clean \in BOOLEAN : RcloneDies(j, clean)
      PROVE  Starting'
  <2>1. \A i \in Ids : rclone'[i] = "starting" => rclone[i] = "starting"
    BY <1>9, RclonesOfWorld
  <2>2. UNCHANGED <<proc, faults>>
    BY <1>9 DEF RcloneMounts, RcloneExits, RcloneHangs, RcloneResumes, AdminUnmounts, PodWrites,
                RcloneUploads, RcloneDies
  <2>3. QED
    BY <1>8, <2>1, <2>2
<1>10. QED
  BY <1>1, <1>3, <1>4, <1>5, <1>6, <1>7, <1>8, <1>9
     DEF KubeletNext, Plugin, World, Calm, vars, KubeletCalls, KubeletCleans, KubeletRemoves

-----------------------------------------------------------------------------
(* Uploads *)

(* A mount is unmounted once its rclone has uploaded everything, or is gone. *)
Drained ==
    /\ "drain" \notin faults
    /\ \A p \in Procs : proc[p].pc \in {"umount", "stop"}
                        => rclone[proc[p].id] = "none" \/ proc[p].id \notin uploads

(* Nobody gets to unmount but through waitForUploads. *)
LEMMA UnmountsAfterDrain ==
  ASSUME Inv, NEW p \in Procs, Work(p), proc'[p].pc \in {"umount", "stop"}
  PROVE  Drain(p) \/ Umount(p)
<1>1. proc[p].pc \in ClosingPcs
  <2>1. SUFFICES ASSUME proc[p].pc \notin ClosingPcs PROVE FALSE
    OBVIOUS
  <2>2. (Release(p) \/ DropUsers(p)) /\ proc'[p] # Idle
    BY <2>1, ClosingBegins DEF ClosingPcs, Idle
  <2>3. proc'[p].pc \in {"drain", "forget"}
    BY <2>2, StepMoves, ReturnMoves DEF Release, DropUsers, At, Locked
  <2>4. QED
    BY <2>3
<1>2. CASE Fail(p) \/ RmState(p)
  BY <1>2, ReturnMoves DEF Fail, RmState
<1>3. CASE Stop(p) \/ Gone(p)
  <2>1. Return(p, FALSE) \/ Step(p, "rmstate")
    BY <1>3 DEF Stop, Gone
  <2>2. proc'[p].pc \in {"idle", "rmstate"}
    BY <1>3, <2>1, StepMoves, ReturnMoves DEF Stop, Gone, At, Locked
  <2>3. QED
    BY <2>2
<1>4. QED
  BY <1>1, <1>2, <1>3
     DEF Work, Find, NotFound, Args, Mount, Save, Start, Ready, StartFails, SetMounted, AddUser,
         Remount, StopOld, Record, BindCheck, Bind, Unbind, Rmdir, Forget, Release, Rebind,
         DropUsers, Target, At, ClosingPcs

(* A step of a call or a pass unmounts only what is uploaded. *)
LEMMA WorkDrains ==
  ASSUME Inv, Starting, Drained, NEW p \in Procs, Work(p)
  PROVE  Drained'
<1>1. /\ OnlyMoves(p) /\ OnlyTouches(p) /\ faults' = faults /\ proc[p].pc # "idle"
      /\ proc'[p] = Idle \/ Continues(p)
  BY WorkFrame, WorkIsBusy
<1>2. uploads' \subseteq uploads
  BY DEF Work, Fail, Find, NotFound, Args, Mount, Save, Start, Ready, StartFails, SetMounted,
         AddUser, Remount, StopOld, Record, BindCheck, Bind, Unbind, Rmdir, Forget, Release, Drain,
         Umount, Stop, RmState, Gone, Rebind, DropUsers, Target
<1>3. ASSUME NEW q \in Procs, proc'[q].pc \in {"umount", "stop"}
      PROVE  rclone'[proc'[q].id] = "none" \/ proc'[q].id \notin uploads'
  <2>1. CASE q # p
    <3>1. proc'[q] = proc[q] /\ proc[q].id \in Ids /\ proc[q].id # NoId
      BY <1>1, <1>3, <2>1, HeldType DEF OnlyMoves, Locked
    <3>2. rclone'[proc[q].id] = rclone[proc[q].id]
      BY <1>1, <2>1, <3>1 DEF OnlyTouches, Inv, Safe, OneHolder
    <3>3. QED
      BY <1>2, <1>3, <3>1, <3>2 DEF Drained
  <2>2. CASE q = p
    <3>1. (Drain(p) \/ Umount(p)) /\ UNCHANGED rclone /\ proc'[p].id = proc[p].id
      <4>1. Drain(p) \/ Umount(p)
        BY <1>3, <2>2, UnmountsAfterDrain
      <4>2. proc'[p] # Idle
        BY <1>3, <2>2 DEF Idle
      <4>3. QED
        BY <1>1, <4>1, <4>2 DEF Drain, Umount, Continues
    <3>2. CASE Umount(p)
      BY <1>2, <2>2, <3>1, <3>2 DEF Umount, At, Drained
    <3>3. CASE Drain(p)
      <4>1. proc[p].id \in Ids /\ proc[p].pc = "drain"
        BY <3>3, HeldType DEF Drain, At, Locked
      <4>2. rclone[proc[p].id] # "starting"
        BY <4>1, ConstantsAssumption DEF Starting, HeldAt, Inv, Safe, OneHolder, Paths
      <4>3. rclone[proc[p].id] \in {"none", "running"}
        BY <3>3, <4>1, <4>2 DEF Drain, Inv, TypeOK
      <4>4. QED
        BY <1>2, <2>2, <3>1, <3>3, <4>3 DEF Drain, Drained
    <3>4. QED
      BY <3>1, <3>2, <3>3
  <2>3. QED
    BY <2>1, <2>2
<1>4. QED
  BY <1>1, <1>3 DEF Drained

(* And no pod writes to a mount that is taken down. *)
LEMMA DrainedStep ==
  Inv /\ Targeted /\ Backed /\ Starting /\ Drained /\ [KubeletNext]_vars => Drained'
<1> SUFFICES ASSUME Inv, Targeted, Backed, Starting, Drained, [KubeletNext]_vars PROVE Drained'
  OBVIOUS
<1>1. ASSUME NEW p \in Procs, Work(p) PROVE Drained'
  BY <1>1, WorkDrains
<1>2. ASSUME NEW p \in Procs, OnlyMoves(p), proc'[p].pc \notin {"umount", "stop"},
             UNCHANGED <<rclone, uploads, faults>>
      PROVE  Drained'
  BY <1>2 DEF OnlyMoves, Drained
<1>3. ASSUME NEW p \in Calls, NEW i \in Ids, Locking(p, i) PROVE Drained'
  <2>1. p \in Procs /\ OnlyMoves(p) /\ UNCHANGED <<rclone, uploads, faults>>
    BY <1>3, LockingFrame DEF Procs
  <2>2. proc'[p].pc \notin {"umount", "stop"}
    <3>1. CASE proc'[p] = Idle
      BY <3>1 DEF Idle
    <3>2. CASE proc'[p] # Idle
      BY <1>3, <2>1, <3>2, LockMountOfMoves, SkipMoves, AcquireMoves DEF Locking
    <3>3. QED
      BY <3>1, <3>2
  <2>3. QED
    BY <1>2, <2>1, <2>2
<1>4. ASSUME NEW i \in Ids, Reconcile(i) PROVE Drained'
  <2>1. Reconciler \in Procs /\ proc'[Reconciler].pc \in {"targets", "gone", "remount"}
    BY <1>4, ReconcileFrame DEF Procs
  <2>2. QED
    BY <1>2, <1>4, <2>1, ReconcileFrame
<1>5. ASSUME NEW p \in Calls, NEW r \in Requests, Call(p, r[1], r[2]) PROVE Drained'
  <2>1. p \in Procs /\ proc'[p].pc \in {"args", "find"}
    BY <1>5, CallFrame
  <2>2. QED
    BY <1>2, <1>5, <2>1, CallFrame
<1>6. ASSUME NEW p \in Calls, Timeout(p) PROVE Drained'
  <2>1. /\ p \in Procs /\ proc \in [Procs -> Process] /\ proc' = [proc EXCEPT ![p].awaited = FALSE]
        /\ UNCHANGED <<rclone, faults, uploads>>
    BY <1>6 DEF Timeout, Procs, Inv, TypeOK
  <2>2. \A q \in Procs : proc'[q].pc = proc[q].pc /\ proc'[q].id = proc[q].id
    BY <2>1 DEF Process
  <2>3. QED
    BY <2>1, <2>2 DEF Drained
<1>7. ~Crash
  BY DEF Crash, Starting
<1>8. ASSUME NEW j \in Ids,
             \/ RcloneMounts(j) \/ RcloneExits(j) \/ RcloneHangs(j) \/ RcloneResumes(j)
             \/ AdminUnmounts(j) \/ PodWrites(j) \/ RcloneUploads(j)
             \/ \E clean \in BOOLEAN : RcloneDies(j, clean)
      PROVE  Drained'
  <2>1. UNCHANGED <<proc, faults>>
    BY <1>8 DEF RcloneMounts, RcloneExits, RcloneHangs, RcloneResumes, AdminUnmounts, PodWrites,
                RcloneUploads, RcloneDies
  <2>2. \A i \in Ids : rclone[i] = "none" => rclone'[i] = "none"
    BY <1>8, RclonesOfWorld
  <2>3. ASSUME NEW p \in Procs, proc[p].pc \in {"umount", "stop"}, proc[p].id \in uploads'
        PROVE  proc[p].id \in uploads
    <3>1. CASE PodWrites(j) /\ proc[p].id = j
      <4>1. PICK t \in Writers : live(t) /\ Head(fuse[t]) = Own(j)
        BY <3>1 DEF PodWrites
      <4>2. t \in Published /\ t \in Paths /\ fuse[t] # <<>>
        BY <4>1, ConstantsAssumption DEF Published, Paths, live, Probe
      <4>3. LiveIn(j, fuse[t])
        BY <4>1, <4>2, TopIsShown
      <4>4. Holds(j, t)
        BY <4>2, <4>3 DEF Targeted
      <4>5. QED
        BY <2>3, <3>1, <4>4 DEF Holds, Serves, ClosingPcs
    <3>2. CASE ~(PodWrites(j) /\ proc[p].id = j)
      BY <1>8, <2>3, <3>2 DEF RcloneMounts, RcloneExits, RcloneHangs, RcloneResumes, AdminUnmounts,
                              PodWrites, RcloneUploads, RcloneDies
    <3>3. QED
      BY <3>1, <3>2
  <2>4. \A p \in Procs : proc[p].pc \in {"umount", "stop"} => proc[p].id \in Ids
    BY HeldType DEF Locked
  <2>5. QED
    BY <2>1, <2>2, <2>3, <2>4 DEF Drained
<1>9. ASSUME UNCHANGED <<proc, rclone, uploads>>, faults' \subseteq faults PROVE Drained'
  BY <1>9 DEF Drained
<1>10. QED
  BY <1>1, <1>3, <1>4, <1>5, <1>6, <1>7, <1>8, <1>9
     DEF KubeletNext, Plugin, World, Calm, vars, KubeletCalls, KubeletCleans, KubeletRemoves

(* At first nothing starts, and nothing is unmounted. *)
LEMMA RclonesBegin ==
  ASSUME "crash" \notin Faults
  PROVE  Init => Backed /\ Starting
<1> SUFFICES ASSUME Init PROVE Backed /\ Starting
  OBVIOUS
<1>1. Starting
  BY DEF Init, Starting
<1>2. ASSUME NEW i \in Ids, NEW path \in Paths, LiveIn(i, fuse[path]) PROVE rclone[i] = "running"
  <2>1. path \in {i} \cup LegacyAt(i) \cup Published
    BY <1>2, TargetedBegins DEF Targeted, MountedAt
  <2>2. fuse[path] = IF path \in dirs THEN <<Own(CHOOSE k \in DOMAIN Legacy : Legacy[k] = path)>>
                     ELSE <<>>
    BY Zenon DEF Init
  <2>3. fuse[path] # <<>>
    BY <1>2, EmptySeq DEF LiveIn
  <2>4. path \in dirs
    BY <2>2, <2>3
  <2>5. PICK j \in DOMAIN Legacy : path = Legacy[j]
    BY <2>4 DEF Init
  <2>6. path \in Stagings /\ path \notin Published /\ path # i
    BY <2>5, ConstantsAssumption DEF Published
  <2>7. i \in DOMAIN Legacy
    BY <2>1, <2>6 DEF LegacyAt
  <2>8. QED
    BY <2>7 DEF Init
<1>3. QED
  BY <1>1, <1>2 DEF Backed

(* An rclone that runs is unmounted only once it has uploaded what pods    *)
(* wrote, and no pod writes to it after that.  waitForUploads must get its *)
(* answers and its hour, and the plugin must not restart: an rclone that   *)
(* was left starting may come up after it was found to have no uploads.    *)
THEOREM UnmountsUploaded ==
  ASSUME {"timeout", "load", "crash", "drain"} \cap Faults = {}, LegacyOwn
  PROVE  KubeletSpec => []UploadsAwaited
<1> DEFINE I == Kept /\ Targeted
           J == Backed /\ Starting /\ Drained
<1>1. KubeletSpec => []I
  BY TargetsInvariant
<1>2. Init => J
  BY RclonesBegin DEF Init, Drained, Idle
<1>3. I /\ J /\ [KubeletNext]_vars => J'
  BY BackedStep, StartingStep, DrainedStep DEF Kept, Order, Targeted
<1>4. J => UploadsAwaited
  BY DEF Drained, UploadsAwaited
<1> HIDE DEF I, J
<1>5. QED
  BY <1>1, <1>2, <1>3, <1>4, PTL DEF KubeletSpec

-----------------------------------------------------------------------------
(* Mounts that have not come up *)

(* Without a restart or an error of saveState or Remove, a state file      *)
(* tells of a mount that has not come up only while somebody sets it up.   *)
Mounting ==
    /\ {"crash", "save", "remove"} \cap faults = {}
    /\ \A i \in Ids : state[i].saved /\ ~state[i].mounted
                      => HeldAt(i, {"start", "mountwait", "setmounted"})

(* A mount begins as one that has not come up. *)
LEMMA MountedOfWork ==
  ASSUME Inv, NEW p \in Procs, Work(p), NEW i \in Ids, i = proc[p].id,
         state'[i].saved, ~state'[i].mounted
  PROVE  Save(p) \/ (state[i].saved /\ ~state[i].mounted /\ ~SetMounted(p))
<1> USE DEF At
<1>1. state[i] \in volumeState /\ state \in [Ids -> volumeState]
  BY DEF Inv, TypeOK
<1>2. CASE SetMounted(p)
  <2>1. state'[i] = [state[i] EXCEPT !.mounted = TRUE]
    BY <1>1, <1>2 DEF SetMounted, SaveState
  <2>2. QED
    BY <1>1, <2>1 DEF volumeState
<1>3. CASE AddUser(p)
  <2>1. state'[i] = [state[i] EXCEPT !.users = Users(i) \cup {proc[p].path},
                                     !.mounted = state[i].mounted \/ At(p, "readduser")]
    BY <1>1, <1>3 DEF AddUser, SaveState
  <2>2. state'[i].mounted = (state[i].mounted \/ At(p, "readduser"))
    BY <1>1, <2>1 DEF volumeState
  <2>3. ~SetMounted(p)
    BY <1>3 DEF AddUser, SetMounted
  <2>4. QED
    BY <1>3, <2>2, <2>3, AddUserSaves
<1>4. CASE Record(p) \/ Forget(p) \/ DropUsers(p)
  <2>1. ASSUME NEW users, NEW targets,
               state'[i] = [state[i] EXCEPT !.users = users, !.targets = targets]
        PROVE  state'[i].saved = state[i].saved /\ state'[i].mounted = state[i].mounted
    BY <1>1, <2>1 DEF volumeState
  <2>2. ~SetMounted(p)
    BY <1>4 DEF Record, Forget, DropUsers, SetMounted
  <2>3. CASE Record(p)
    <3>1. \/ state'[i] = state[i]
          \/ state'[i] = [state[i] EXCEPT !.users = Users(i),
                                          !.targets = state[i].targets \cup {proc[p].path}]
      BY <1>1, <2>3 DEF Record, SaveState
    <3>2. QED
      BY <2>1, <2>2, <3>1
  <2>4. CASE Forget(p)
    <3>1. state'[i] = [state[i] EXCEPT !.users = Users(i) \ {proc[p].path},
                                       !.targets = state[i].targets \ {proc[p].path}]
      BY <1>1, <2>4 DEF Forget, SaveState
    <3>2. QED
      BY <1>1, <2>2, <3>1 DEF volumeState
  <2>5. CASE DropUsers(p)
    <3>1. \/ state'[i] = state[i]
          \/ state'[i] = [state[i] EXCEPT !.users = Users(i) \cap dirs,
                                          !.targets = state[i].targets \cap dirs]
      BY <1>1, <2>5 DEF DropUsers, SaveState
    <3>2. QED
      BY <2>1, <2>2, <3>1
  <2>6. QED
    BY <1>4, <2>3, <2>4, <2>5
<1>5. CASE Start(p) \/ StartFails(p) \/ RmState(p)
  <2>1. state'[i] = state[i] \/ state'[i] = NoState(i)
    BY <1>1, <1>5 DEF Start, StartFails, RemoveState, RmState, SaveState
  <2>2. ~NoState(i).saved
    BY DEF NoState
  <2>3. ~SetMounted(p)
    BY <1>5 DEF Start, StartFails, RmState, SetMounted
  <2>4. QED
    BY <2>1, <2>2, <2>3
<1>6. CASE \/ Fail(p) \/ Find(p) \/ NotFound(p) \/ Args(p) \/ Mount(p) \/ Ready(p) \/ Remount(p)
           \/ StopOld(p) \/ BindCheck(p) \/ Bind(p) \/ Unbind(p) \/ Rmdir(p) \/ Release(p)
           \/ Drain(p) \/ Umount(p) \/ Stop(p) \/ Gone(p) \/ Rebind(p)
           \/ \E t \in Paths : Target(p, t)
  <2>1. UNCHANGED state
    BY <1>6 DEF Fail, Find, NotFound, Args, Mount, Ready, Remount, StopOld, BindCheck, Bind, Unbind,
                Rmdir, Release, Drain, Umount, Stop, Gone, Rebind, Target
  <2>2. QED
    BY <1>2, <2>1
<1>7. QED
  BY <1>2, <1>3, <1>4, <1>5, <1>6 DEF Work

(* Whoever sets a mount up goes on until it is up, or removes its state. *)
LEMMA WorkSetsUp ==
  ASSUME Inv, Mounting, NEW p \in Procs, Work(p)
  PROVE  Mounting'
<1>1. /\ OnlyMoves(p) /\ OnlyTouches(p) /\ faults' = faults /\ proc[p].pc # "idle"
      /\ proc'[p] = Idle \/ Continues(p)
  BY WorkFrame, WorkIsBusy
<1>2. ASSUME NEW i \in Ids, state'[i].saved, ~state'[i].mounted
      PROVE  HeldAt(i, {"start", "mountwait", "setmounted"})'
  <2>1. CASE i # proc[p].id
    BY <1>1, <1>2, <2>1, HeldStays DEF OnlyTouches, Mounting
  <2>2. CASE i = proc[p].id
    <3>1. SUFFICES proc'[p].id = i /\ proc'[p].pc \in {"start", "mountwait", "setmounted"}
      BY DEF HeldAt
    <3>2. CASE Save(p)
      BY <2>2, <3>2, StepMoves DEF Save, At, Locked, Continues
    <3>3. CASE state[i].saved /\ ~state[i].mounted /\ ~SetMounted(p)
      <4>1. proc[p].pc \in {"start", "mountwait", "setmounted"}
        BY <2>2, <3>3, ConstantsAssumption DEF Mounting, HeldAt, Inv, Safe, OneHolder, Paths
      <4>2. ~Fail(p)
        <5>1. ASSUME NEW f \in faults \cap DOMAIN FailsAt, proc[p].pc \in FailsAt[f] PROVE f = "save"
          BY <4>1, <5>1 DEF FailsAt
        <5>2. QED
          BY <4>1, <5>1 DEF Fail, At, Mounting
      <4>3. Start(p) \/ Ready(p) \/ StartFails(p)
        BY <3>3, <4>1, <4>2
           DEF Work, Find, NotFound, Args, Mount, Save, SetMounted, AddUser, Remount, StopOld,
               Record, BindCheck, Bind, Unbind, Rmdir, Forget, Release, Drain, Umount, Stop, RmState,
               Gone, Rebind, DropUsers, Target, At
      <4>4. CASE Start(p)
        <5>1. state' # [state EXCEPT ![i] = NoState(i)]
          BY <1>2, <2>2 DEF NoState, Inv, TypeOK
        <5>2. Step(p, "mountwait")
          BY <2>2, <4>4, <5>1 DEF Start, RemoveState, SaveState, Mounting
        <5>3. QED
          BY <1>1, <2>2, <5>2, StepMoves DEF Continues, Locked
      <4>5. CASE Ready(p)
        BY <2>2, <4>1, <4>5, ReadyMoves DEF Continues
      <4>6. CASE StartFails(p)
        <5>1. state' # [state EXCEPT ![i] = NoState(i)]
          BY <1>2, <2>2 DEF NoState, Inv, TypeOK
        <5>2. QED
          BY <2>2, <4>1, <4>6, <5>1 DEF StartFails, RemoveState, SaveState, Mounting, At
      <4>7. QED
        BY <4>3, <4>4, <4>5, <4>6
    <3>4. QED
      BY <1>2, <2>2, <3>2, <3>3, MountedOfWork
  <2>3. QED
    BY <2>1, <2>2
<1>3. QED
  BY <1>1, <1>2 DEF Mounting

(* Nobody else sets a mount up. *)
LEMMA MountingStep == Inv /\ Mounting /\ [KubeletNext]_vars => Mounting'
<1> SUFFICES ASSUME Inv, Mounting, [KubeletNext]_vars PROVE Mounting'
  OBVIOUS
<1>1. ASSUME NEW p \in Procs, Work(p) PROVE Mounting'
  BY <1>1, WorkSetsUp
<1>2. ASSUME NEW p \in Procs, OnlyMoves(p), proc[p].id = NoId, UNCHANGED <<state, faults>>
      PROVE  Mounting'
  <2>1. \A i \in Ids : i # proc[p].id
    BY <1>2, ConstantsAssumption DEF Paths
  <2>2. QED
    BY <1>2, <2>1, HeldStays DEF Mounting
<1>3. ASSUME NEW p \in Calls, NEW i \in Ids, Locking(p, i) PROVE Mounting'
  BY <1>2, <1>3, LockingFrame DEF Procs
<1>4. ASSUME NEW i \in Ids, Reconcile(i) PROVE Mounting'
  BY <1>2, <1>4, ReconcileFrame DEF Procs
<1>5. ASSUME NEW p \in Calls, NEW r \in Requests, Call(p, r[1], r[2]) PROVE Mounting'
  BY <1>2, <1>5, CallFrame
<1>6. ASSUME NEW p \in Calls, Timeout(p) PROVE Mounting'
  <2>1. /\ p \in Procs /\ proc \in [Procs -> Process] /\ proc' = [proc EXCEPT ![p].awaited = FALSE]
        /\ UNCHANGED <<state, faults>>
    BY <1>6 DEF Timeout, Procs, Inv, TypeOK
  <2>2. \A q \in Procs : proc'[q].pc = proc[q].pc /\ proc'[q].id = proc[q].id
    BY <2>1 DEF Process
  <2>3. QED
    BY <2>1, <2>2 DEF Mounting, HeldAt
<1>7. ~Crash
  BY DEF Crash, Mounting
<1>8. CASE Outside
  BY <1>8 DEF Outside, Mounting, HeldAt
<1>9. ASSUME NEW s \in Stagings, KubeletCleans(s) PROVE Mounting'
  BY <1>9 DEF KubeletCleans, KubeletRemoves, Mounting, HeldAt
<1>10. QED
  BY <1>1, <1>3, <1>4, <1>5, <1>6, <1>7, <1>8, <1>9, KubeletSteps

-----------------------------------------------------------------------------
(* Mount points *)

DeadOwn(i) == [id |-> i, kind |-> "dead"]

(* Nothing but the mount of i is on x, and it is dead only if rclone is gone. *)
TidyAt(i, x) == \/ fuse[x] = <<>>
                \/ fuse[x] = <<Own(i)>>
                \/ fuse[x] = <<DeadOwn(i)>> /\ rclone[i] = "none"

(* A mount point is never mounted over. *)
Tidy == \A i \in Ids : TidyAt(i, Mountpoint(i)) /\ (Mountpoint(i) # i => fuse[i] = <<>>)

(* Two mounts have two mount points. *)
LEMMA OwnMountpoints ==
  ASSUME Sites, NEW i \in Ids
  PROVE  /\ Mountpoint(i) \in {i} \cup Stagings
         /\ \A j \in Ids : i # j => Mountpoint(i) # Mountpoint(j) /\ Mountpoint(i) # j
<1>1. \A k \in Ids : Mountpoint(k) \in {k} \cup LegacyAt(k)
  BY DEF Sites, Mountpoint
<1>2. \A k \in Ids : \A x \in LegacyAt(k) : k \in DOMAIN Legacy /\ x = Legacy[k] /\ x \in Stagings
  BY ConstantsAssumption DEF LegacyAt
<1>3. QED
  BY <1>1, <1>2, ConstantsAssumption

(* One unmount clears a tidy mount point. *)
LEMMA PopTidy ==
  ASSUME NEW i \in Ids, NEW x, TidyAt(i, x)
  PROVE  Pop(fuse[x]) = <<>>
<1>1. \A e : Pop(<<e>>) = <<>>
  BY DEF Pop
<1>2. QED
  BY <1>1 DEF TidyAt, Pop

(* The death of j is seen on the mounts of j only. *)
LEMMA KilledAt ==
  ASSUME NEW j \in Ids, NEW clean \in BOOLEAN, Killed(j, clean), NEW i \in Ids, NEW x \in Paths
  PROVE  /\ fuse[x] = <<>> => fuse'[x] = <<>>
         /\ fuse[x] = <<Own(i)>> /\ i # j => fuse'[x] = <<Own(i)>>
         /\ fuse[x] = <<Own(i)>> /\ i = j => fuse'[x] = <<>> \/ fuse'[x] = <<DeadOwn(i)>>
         /\ fuse[x] = <<DeadOwn(i)>> => fuse'[x] = <<DeadOwn(i)>>
<1>1. Kill(<<>>, j) = <<>>
  BY DEF Kill
<1>2. ASSUME NEW e PROVE Kill(<<e>>, j) = <<Dead(e, j)>>
  BY DEF Kill
<1>3. Dead(Own(i), j) = IF i = j THEN DeadOwn(i) ELSE Own(i)
  BY DEF Dead, Own, DeadOwn
<1>4. Dead(DeadOwn(i), j) = DeadOwn(i)
  BY DEF Dead, DeadOwn
<1>5. fuse'[x] = Kill(fuse[x], j) \/ (OnTop(j, x) /\ fuse'[x] = Kill(Tail(fuse[x]), j))
  BY DEF Killed
<1>6. ASSUME NEW e, fuse[x] = <<e>> PROVE Tail(fuse[x]) = <<>> /\ Head(fuse[x]) = e
  BY <1>6
<1>7. Own(i) = Own(j) => i = j
  BY DEF Own
<1>8. DeadOwn(i) # Own(j)
  BY DEF DeadOwn, Own
<1>9. CASE fuse[x] = <<>>
  <2>1. <<Own(i)>> # <<>> /\ <<DeadOwn(i)>> # <<>>
    OBVIOUS
  <2>2. QED
    BY <1>1, <1>5, <1>9, <2>1 DEF OnTop
<1>10. CASE fuse[x] = <<Own(i)>>
  <2>1. <<Own(i)>> # <<>> /\ <<Own(i)>> # <<DeadOwn(i)>>
    BY DEF Own, DeadOwn
  <2>2. OnTop(j, x) => i = j
    BY <1>6, <1>7, <1>10 DEF OnTop
  <2>3. Kill(fuse[x], j) = <<IF i = j THEN DeadOwn(i) ELSE Own(i)>> /\ Kill(Tail(fuse[x]), j) = <<>>
    BY <1>1, <1>2, <1>3, <1>6, <1>10
  <2>4. QED
    BY <1>5, <1>10, <2>1, <2>2, <2>3
<1>11. CASE fuse[x] = <<DeadOwn(i)>>
  <2>1. <<DeadOwn(i)>> # <<>> /\ <<Own(i)>> # <<DeadOwn(i)>>
    BY DEF Own, DeadOwn
  <2>2. ~OnTop(j, x)
    BY <1>6, <1>8, <1>11 DEF OnTop
  <2>3. QED
    BY <1>2, <1>4, <1>5, <1>11, <2>1, <2>2
<1>12. QED
  BY <1>9, <1>10, <1>11

(* Where p stops or replaces an rclone. *)
Kills(p) == /\ proc[p].id \in Ids /\ (Stops(p) \/ StopOld(p))
            /\ \E clean \in BOOLEAN : Killed(proc[p].id, clean)

(* What a step of a call or a pass does to a path that is no target. *)
LEMMA SitesOfWork ==
  ASSUME Kept, Targeted, NEW p \in Procs, Work(p), NEW x \in Ids \cup Stagings
  PROVE  \/ fuse'[x] = fuse[x]
         \/ Mount(p) /\ x = proc[p].id /\ fuse'[x] = Pop(fuse[x])
         \/ /\ Remount(p) \/ Umount(p)
            /\ x = Mountpoint(proc[p].id) /\ fuse'[x] = Pop(fuse[x])
         \/ Kills(p)
<1> USE DEF At, Kept, Order
<1>1. x \in Paths /\ x \notin Published /\ fuse \in [Paths -> Seq(Entry)]
  BY ConstantsAssumption DEF Paths, Published, Inv, TypeOK
<1>2. ASSUME NEW y, detach(y) PROVE fuse'[x] = IF x = y THEN Pop(fuse[x]) ELSE fuse[x]
  BY <1>1, <1>2 DEF detach
<1>3. CASE Mount(p)
  BY <1>2, <1>3 DEF Mount
<1>4. CASE Remount(p) \/ Umount(p)
  BY <1>2, <1>4 DEF Remount, Umount
<1>5. CASE StartFails(p) \/ StopOld(p) \/ Stop(p) \/ Gone(p)
  <2>1. proc[p].id \in Ids
    BY <1>5, LockedIds DEF StartFails, StopOld, Stop, Gone, Locked
  <2>2. QED
    BY <1>5, <2>1 DEF StartFails, StopOld, Stop, Gone, stopScope, Stops, Kills
<1>6. CASE Unbind(p) \/ BindCheck(p)
  <2>1. p # Reconciler /\ proc[p].pc \in {"unbind", "bindcheck"}
    BY <1>6 DEF Unbind, BindCheck, Inv, Shape, WellFormed, ReconcilePcs
  <2>2. proc[p].op \in {"publish", "unpublish"} /\ Request(proc[p])
    BY <2>1 DEF Handling, Handles, BindPcs, Either, Procs, Inv, Shape, WellFormed
  <2>3. x # proc[p].path
    BY <1>1, <2>2 DEF Request, Published
  <2>4. QED
    BY <1>2, <1>6, <2>3 DEF Unbind, BindCheck
<1>7. CASE Bind(p) \/ Rebind(p)
  <2>1. ASSUME BindTo(proc[p].id, proc[p].path), proc[p].path \in dirs' PROVE x # proc[p].path
    <3>1. Binds(p, proc[p].path)
      BY <1>7, <2>1 DEF Binds
    <3>2. Binding(p)
      BY DEF Targeted
    <3>3. proc[p].path \in Published
      BY <3>1, <3>2, BoundHolds
    <3>4. QED
      BY <1>1, <3>3
  <2>2. UNCHANGED fuse \/ (BindTo(proc[p].id, proc[p].path) /\ proc[p].path \in dirs')
    BY <1>7 DEF Bind, Rebind
  <2>3. QED
    BY <1>1, <2>1, <2>2 DEF BindTo
<1>8. ASSUME NEW t \in Paths, Target(p, t) PROVE fuse'[x] = fuse[x]
  <2>1. p = Reconciler /\ proc[p].pc = "targets" /\ proc[p].id \in Ids /\ t \in proc[p].left
    BY <1>8, TargetMoves, LockedIds DEF Target, Locked
  <2>2. t \in state[proc[p].id].targets
    BY <2>1 DEF Targeted, Binding
  <2>3. t \in Published
    BY <2>1, <2>2 DEF Sites
  <2>4. QED
    BY <1>1, <1>2, <1>8, <2>3 DEF Target
<1>9. CASE \/ Fail(p) \/ Find(p) \/ NotFound(p) \/ Args(p) \/ Save(p) \/ Start(p) \/ Ready(p)
           \/ SetMounted(p) \/ AddUser(p) \/ Record(p) \/ Rmdir(p) \/ Forget(p) \/ Release(p)
           \/ Drain(p) \/ RmState(p) \/ DropUsers(p)
  BY <1>9 DEF Fail, Find, NotFound, Args, Save, Start, Ready, SetMounted, AddUser, Record,
              Rmdir, Forget, Release, Drain, RmState, DropUsers
<1>10. QED
  BY <1>3, <1>4, <1>5, <1>6, <1>7, <1>8, <1>9 DEF Work

(* The rclone that a process replaces is gone, and where it sets a mount   *)
(* up nothing is mounted.                                                  *)
Calmly(p) ==
    LET i == proc[p].id IN
    /\ proc[p].pc \in {"remount", "stopold"} => rclone[i] = "none"
    /\ proc[p].pc \in {"save", "start"} => fuse[i] = <<>>
    /\ proc[p].pc = "stopold" => fuse[Mountpoint(i)] = <<>>
    /\ proc[p].pc # "gone"

Quiet == \A p \in Procs : Calmly(p)

(* What is bare stays bare. *)
LEMMA StaysBare ==
  ASSUME Kept, Targeted, NEW p \in Procs, Work(p), NEW x \in Ids \cup Stagings, fuse[x] = <<>>
  PROVE  fuse'[x] = <<>>
<1>1. x \in Paths
  BY DEF Paths
<1>2. CASE Kills(p)
  BY <1>1, <1>2, KilledAt DEF Kills
<1>3. QED
  BY <1>2, SitesOfWork DEF Pop

(* The mount of another id is as it was. *)
LEMMA OthersTidy ==
  ASSUME Kept, Targeted, Tidy, NEW p \in Procs, Work(p), NEW i \in Ids, i # proc[p].id,
         proc[p].id \in Ids
  PROVE  TidyAt(i, Mountpoint(i))' /\ (Mountpoint(i)' # i => fuse'[i] = <<>>)
<1> USE DEF Kept, Order
<1>1. state'[i] = state[i] /\ rclone'[i] = rclone[i] /\ Mountpoint(i)' = Mountpoint(i)
  BY WorkFrame DEF OnlyTouches, Mountpoint
<1>2. PICK x : x = Mountpoint(i)
  OBVIOUS
<1>3. x \in Ids \cup Stagings /\ x \in Paths /\ x # proc[p].id /\ x # Mountpoint(proc[p].id)
  BY <1>2, OwnMountpoints DEF Paths
<1>4. TidyAt(i, x)
  BY <1>2 DEF Tidy
<1>5. ASSUME fuse'[x] = fuse[x] PROVE TidyAt(i, x)'
  BY <1>1, <1>4, <1>5 DEF TidyAt, Own, DeadOwn
<1>6. ASSUME Kills(p) PROVE TidyAt(i, x)'
  <2>1. PICK clean \in BOOLEAN : Killed(proc[p].id, clean)
    BY <1>6 DEF Kills
  <2>2. QED
    BY <1>1, <1>3, <1>4, <2>1, KilledAt DEF TidyAt, Own, DeadOwn
<1>7. TidyAt(i, Mountpoint(i))'
  <2>1. TidyAt(i, x)'
    BY <1>3, <1>5, <1>6, SitesOfWork
  <2>2. QED
    BY <1>1, <1>2, <2>1 DEF TidyAt, Own, DeadOwn
<1>8. Mountpoint(i)' # i => fuse'[i] = <<>>
  BY <1>1, StaysBare DEF Tidy
<1>9. QED
  BY <1>7, <1>8

(* The mount of its own is tidy where it was, *)
LEMMA OwnTidy ==
  ASSUME Kept, Targeted, Tidy, Quiet, NEW p \in Procs, Work(p), NEW i \in Ids, i = proc[p].id,
         NEW x, x = Mountpoint(i)
  PROVE  TidyAt(i, x)' /\ (x # i => fuse'[i] = <<>>)
<1> USE DEF Kept, Order
<1>1. x \in Ids \cup Stagings /\ x \in Paths /\ TidyAt(i, x) /\ rclone \in [Ids -> {"none", "starting", "running", "stuck"}]
  BY OwnMountpoints DEF Paths, Tidy, Inv, TypeOK
<1>2. x # i => fuse'[i] = <<>>
  BY StaysBare DEF Tidy
<1>3. TidyAt(i, x)'
  <2>1. CASE fuse'[x] = Pop(fuse[x])
    BY <1>1, <2>1, PopTidy DEF TidyAt
  <2>2. CASE Starts(p)
    <3>1. fuse[x] = <<>>
      <4>1. CASE Start(p)
        <5>1. proc[p].pc = "start" /\ Mountpoint(i) = i
          BY <4>1 DEF Start, At, SharedInv, Sharing
        <5>2. QED
          BY <5>1 DEF Quiet, Calmly
      <4>2. CASE StopOld(p)
        BY <4>2 DEF StopOld, At, Quiet, Calmly
      <4>3. QED
        BY <2>2, <4>1, <4>2 DEF Starts
    <3>2. QED
      BY <1>1, <3>1, StaysBare DEF TidyAt
  <2>3. CASE Stops(p)
    <3>1. rclone'[i] = "none"
      BY <1>1, <2>3 DEF Stops
    <3>2. PICK clean \in BOOLEAN : Killed(i, clean)
      BY <2>3 DEF Stops
    <3>3. QED
      BY <1>1, <3>1, <3>2, KilledAt DEF TidyAt, Own, DeadOwn
  <2>4. CASE UNCHANGED rclone /\ fuse'[x] = fuse[x]
    BY <1>1, <2>4 DEF TidyAt, Own, DeadOwn
  <2>5. Kills(p) => Stops(p) \/ Starts(p)
    <3>1. ASSUME StopOld(p) PROVE rclone' = [rclone EXCEPT ![i] = "starting"]
      BY <3>1 DEF StopOld
    <3>2. ASSUME StopOld(p) PROVE rclone[i] = "none"
      BY <3>2 DEF StopOld, At, Quiet, Calmly
    <3>3. ASSUME StopOld(p) PROVE ~UNCHANGED rclone
      BY <1>1, <3>1, <3>2, <3>3
    <3>4. QED
      BY <3>3, RclonesOfWork DEF Kills
  <2>6. QED
    BY <1>1, <2>1, <2>2, <2>3, <2>4, <2>5, SitesOfWork, RclonesOfWork
<1>4. QED
  BY <1>2, <1>3

(* and where it will be. *)
LEMMA WorkTidies ==
  ASSUME Kept, Targeted, Tidy, Quiet, NEW p \in Procs, Work(p)
  PROVE  Tidy'
<1> USE DEF Kept, Order
<1> SUFFICES ASSUME NEW i \in Ids
             PROVE  TidyAt(i, Mountpoint(i))' /\ (Mountpoint(i)' # i => fuse'[i] = <<>>)
  BY DEF Tidy
<1>1. CASE i # proc[p].id /\ proc[p].id \in Ids
  BY <1>1, OthersTidy
<1>2. CASE i = proc[p].id
  <2>1. PICK x : x = Mountpoint(i)
    OBVIOUS
  <2>2. TidyAt(i, x)' /\ (x # i => fuse'[i] = <<>>)
    BY <1>2, <2>1, OwnTidy
  <2>3. Mountpoint(i)' = x \/ Mountpoint(i)' = i
    BY <1>2, <2>1, UsersOfWork DEF UsersStay, UsersBegin, UsersChange
  <2>4. QED
    BY <2>2, <2>3 DEF TidyAt, Own, DeadOwn
<1>3. CASE proc[p].id \notin Ids
  <2>1. UNCHANGED rclone /\ ~Kills(p)
    BY <1>3, RclonesOfWork DEF Kills
  <2>2. state'[i] = state[i] /\ Mountpoint(i)' = Mountpoint(i)
    BY <1>3, WorkFrame DEF OnlyTouches, Mountpoint
  <2>3. \A x \in Ids \cup Stagings : fuse'[x] = fuse[x]
    BY <1>3, <2>1, SitesOfWork, LockedIds DEF Mount, Remount, Umount, At, Locked
  <2>4. QED
    BY <2>1, <2>2, <2>3, OwnMountpoints DEF Tidy, TidyAt, Own, DeadOwn
<1>4. QED
  BY <1>1, <1>2, <1>3

(* The steps by which a process comes to replace an rclone, or to start one. *)
LEMMA QuietMoves ==
  ASSUME Inv, NEW p \in Procs, Work(p),
         proc'[p].pc \in {"remount", "stopold", "save", "start", "gone"}
  PROVE  \/ Remount(p) /\ proc'[p].pc = "stopold"
         \/ Mount(p) /\ proc'[p].pc = "save"
         \/ Save(p) /\ proc'[p].pc = "start"
<1>1. proc'[p] # Idle
  BY DEF Idle
<1>2. CASE p # Reconciler
  BY <1>1, <1>2, MovesOfCall DEF CallMoves
<1>3. CASE p = Reconciler
  <2>1. proc[p].pc \in ReconcilePcs
    BY <1>3 DEF Inv, Shape, WellFormed
  <2>2. CASE Remount(p)
    BY <2>2, StepMoves DEF Remount, At, Locked
  <2>3. CASE StopOld(p) \/ Drain(p) \/ Umount(p)
    <3>1. proc'[p].pc \in {"remountwait", "umount", "stop"}
      BY <2>3, StepMoves DEF StopOld, Drain, Umount, At, Locked
    <3>2. QED
      BY <3>1
  <2>4. CASE Ready(p)
    <3>1. proc'[p].pc = "targets"
      BY <1>3, <2>4, ReadyMoves
    <3>2. QED
      BY <3>1
  <2>5. CASE Rebind(p) \/ \E t \in Paths : Target(p, t)
    <3>1. proc'[p].pc \in {"targets", "rebind"}
      BY <2>5, TargetMoves
    <3>2. QED
      BY <3>1
  <2>6. CASE Fail(p) \/ StartFails(p) \/ RmState(p)
    BY <1>1, <2>6, ReturnMoves DEF Fail, StartFails, RmState
  <2>7. CASE DropUsers(p) \/ Stop(p) \/ Gone(p)
    <3>1. Step(p, "drain") \/ Step(p, "rmstate")
      BY <1>1, <2>7, ReturnMoves DEF DropUsers, Stop, Gone
    <3>2. proc'[p].pc \in {"drain", "rmstate"}
      BY <2>7, <3>1, StepMoves DEF DropUsers, Stop, Gone, At, Locked
    <3>3. QED
      BY <3>2
  <2>8. QED
    BY <2>1, <2>2, <2>3, <2>4, <2>5, <2>6, <2>7
       DEF Work, Find, NotFound, Args, Mount, Save, Start, SetMounted, AddUser, Record, BindCheck,
           Bind, Unbind, Rmdir, Forget, Release, At, ReconcilePcs
<1>4. QED
  BY <1>2, <1>3

(* A step of a call or a pass leaves it so. *)
LEMMA WorkIsCalm ==
  ASSUME Kept, Targeted, Tidy, Quiet, NEW p \in Procs, Work(p)
  PROVE  Quiet'
<1> USE DEF Kept, Order
<1> SUFFICES ASSUME NEW q \in Procs PROVE Calmly(q)'
  BY DEF Quiet
<1>1. /\ OnlyMoves(p) /\ OnlyTouches(p) /\ proc[p].pc # "idle"
      /\ proc'[p] = Idle \/ Continues(p)
  BY WorkFrame, WorkIsBusy
<1>2. CASE q # p
  <2>1. PICK i : i = proc[q].id
    OBVIOUS
  <2>2. proc'[q] = proc[q] /\ Calmly(q)
    BY <1>1, <1>2 DEF OnlyMoves, Quiet
  <2>3. CASE proc[q].pc \in {"remount", "stopold", "save", "start"}
    <3>1. i \in Ids /\ i # NoId
      BY <2>1, <2>3, HeldType DEF Locked
    <3>2. i # proc[p].id
      BY <1>2, <2>1, <3>1 DEF Inv, Safe, OneHolder
    <3>3. rclone'[i] = rclone[i] /\ Mountpoint(i)' = Mountpoint(i)
      BY <1>1, <3>1, <3>2 DEF OnlyTouches, Mountpoint
    <3>4. \A x \in {i, Mountpoint(i)} : fuse[x] = <<>> => fuse'[x] = <<>>
      BY <3>1, StaysBare, OwnMountpoints
    <3>5. proc[q].pc # "gone"
      BY <2>3
    <3>6. QED
      BY <2>1, <2>2, <3>3, <3>4, <3>5 DEF Calmly
  <2>4. CASE proc[q].pc \notin {"remount", "stopold", "save", "start"}
    BY <2>2, <2>4 DEF Calmly
  <2>5. QED
    BY <2>3, <2>4
<1>3. CASE q = p /\ proc'[p].pc \notin {"remount", "stopold", "save", "start", "gone"}
  BY <1>3 DEF Calmly
<1>4. CASE q = p /\ proc'[p].pc \in {"remount", "stopold", "save", "start", "gone"}
  <2>1. PICK i : i = proc[p].id
    OBVIOUS
  <2>2. proc'[p].id = i
    BY <1>1, <1>4, <2>1 DEF Idle, Continues
  <2>3. CASE Remount(p) /\ proc'[p].pc = "stopold"
    <3>1. i \in Ids /\ proc[p].pc = "remount"
      BY <2>1, <2>3, LockedIds DEF Remount, At, Locked
    <3>2. rclone'[i] = "none"
      BY <2>1, <2>3, <3>1 DEF Remount, Quiet, Calmly
    <3>3. PICK x : x = Mountpoint(i)
      OBVIOUS
    <3>4. x \in Paths /\ TidyAt(i, x) /\ Mountpoint(i)' = x
      BY <2>3, <3>1, <3>3, OwnMountpoints DEF Paths, Tidy, Remount, Mountpoint
    <3>5. fuse'[x] = Pop(fuse[x])
      BY <2>1, <2>3, <3>3, <3>4 DEF Remount, detach, Inv, TypeOK
    <3>6. fuse'[x] = <<>>
      BY <3>1, <3>4, <3>5, PopTidy
    <3>7. QED
      BY <1>4, <2>2, <2>3, <3>2, <3>4, <3>6 DEF Calmly
  <2>4. CASE Mount(p) /\ proc'[p].pc = "save"
    <3>1. i \in Ids /\ i \in Paths
      BY <2>1, <2>4, LockedIds DEF Mount, At, Locked, Paths
    <3>2. fuse'[i] = Pop(fuse[i])
      BY <2>1, <2>4, <3>1 DEF Mount, detach, Inv, TypeOK
    <3>3. CASE Mountpoint(i) = i
      <4>1. TidyAt(i, i)
        BY <3>1, <3>3 DEF Tidy
      <4>2. QED
        BY <1>4, <2>2, <2>4, <3>1, <3>2, <4>1, PopTidy DEF Calmly
    <3>4. CASE Mountpoint(i) # i
      BY <1>4, <2>2, <2>4, <3>1, <3>2, <3>4 DEF Calmly, Tidy, Pop
    <3>5. QED
      BY <3>3, <3>4
  <2>5. CASE Save(p) /\ proc'[p].pc = "start"
    BY <1>4, <2>1, <2>2, <2>5 DEF Save, At, Calmly, Quiet
  <2>6. QED
    BY <1>4, <2>3, <2>4, <2>5, QuietMoves
<1>5. QED
  BY <1>2, <1>3, <1>4

(* A mount that is not live, and not left alone, has lost its rclone. *)
LEMMA OnlyGone ==
  ASSUME Kept, Sited, Mounting, Tidy, NEW i \in Ids, state[i].saved, IsFree(i), ~LeaveAlone(i),
         Probe(Mountpoint(i)) # "Live"
  PROVE  rclone[i] = "none" /\ Probe(Mountpoint(i)) # "Gone"
<1>1. PICK x : x = Mountpoint(i)
  OBVIOUS
<1>2. x \in dirs /\ state[i].mounted
  BY <1>1 DEF Sited, Mounting, HeldAt, IsFree
<1>3. Probe(x) \in {"Other", "Dead", "Hung", "Live"}
  BY <1>2 DEF Probe
<1>4. CASE Probe(x) = "Other"
  BY <1>1, <1>2, <1>4 DEF LeaveAlone
<1>5. CASE Probe(x) = "Dead"
  <2>1. fuse[x] # <<>> /\ Head(fuse[x]).kind = "dead"
    BY <1>5 DEF Probe
  <2>2. fuse[x] # <<Own(i)>>
    BY <2>1 DEF Own
  <2>3. QED
    BY <1>1, <1>5, <2>1, <2>2 DEF Tidy, TidyAt
<1>6. QED
  BY <1>1, <1>3, <1>4, <1>5 DEF LeaveAlone

(* An rclone that comes up finds its mount point bare. *)
LEMMA MountsBare ==
  ASSUME Inv, Sites, Tidy, NEW j \in Ids, RcloneMounts(j)
  PROVE  /\ fuse[Mountpoint(j)] = <<>> /\ fuse'[Mountpoint(j)] = <<Own(j)>>
         /\ \A x \in Paths : x # Mountpoint(j) => fuse'[x] = fuse[x]
<1>1. PICK x : x = Mountpoint(j)
  OBVIOUS
<1>2. x \in Paths /\ TidyAt(j, x) /\ fuse \in [Paths -> Seq(Entry)]
  BY <1>1, OwnMountpoints DEF Paths, Tidy, Inv, TypeOK
<1>3. Probe(x) = "Other"
  BY <1>1 DEF RcloneMounts
<1>4. fuse[x] = <<>> \/ Head(fuse[x]).kind = "plain"
  BY <1>3 DEF Probe
<1>5. fuse[x] = <<>>
  BY <1>2, <1>4 DEF TidyAt, Own, DeadOwn
<1>6. fuse' = [fuse EXCEPT ![x] = <<Own(j)>> \o fuse[x]]
  BY <1>1 DEF RcloneMounts
<1>7. <<Own(j)>> \o <<>> = <<Own(j)>>
  OBVIOUS
<1>8. QED
  BY <1>1, <1>2, <1>5, <1>6, <1>7

(* Nothing that happens to an rclone mounts over a mount. *)
LEMMA WorldTidies ==
  ASSUME Inv, Sites, Backed, Tidy, NEW j \in Ids,
         \/ RcloneMounts(j) \/ RcloneExits(j) \/ RcloneHangs(j) \/ RcloneResumes(j)
         \/ AdminUnmounts(j) \/ PodWrites(j) \/ RcloneUploads(j)
         \/ \E clean \in BOOLEAN : RcloneDies(j, clean)
  PROVE  Tidy'
<1> SUFFICES ASSUME NEW i \in Ids
             PROVE  TidyAt(i, Mountpoint(i))' /\ (Mountpoint(i)' # i => fuse'[i] = <<>>)
  BY DEF Tidy
<1>1. UNCHANGED state
  BY DEF RcloneMounts, RcloneExits, RcloneHangs, RcloneResumes, AdminUnmounts, PodWrites,
         RcloneUploads, RcloneDies
<1>2. PICK x : x = Mountpoint(i)
  OBVIOUS
<1>3. /\ x \in Paths /\ i \in Paths /\ TidyAt(i, x) /\ (x # i => fuse[i] = <<>>)
      /\ Mountpoint(i)' = x
      /\ i # j => x # Mountpoint(j)
      /\ x # i \/ i # j => i # Mountpoint(j)
      /\ fuse \in [Paths -> Seq(Entry)]
  BY <1>1, <1>2, OwnMountpoints, ConstantsAssumption DEF Paths, Tidy, Mountpoint, Inv, TypeOK
<1>4. rclone[i] = "none" => rclone'[i] = "none"
  BY RclonesOfWorld
<1>5. SUFFICES TidyAt(i, x)' /\ (x # i => fuse'[i] = <<>>)
  BY <1>3 DEF TidyAt, Own, DeadOwn
<1>6. CASE RcloneMounts(j)
  BY <1>2, <1>3, <1>4, <1>6, MountsBare DEF TidyAt, Own, DeadOwn
<1>7. CASE AdminUnmounts(j)
  <2>1. \A y \in Paths : fuse'[y] = IF y = Mountpoint(j) THEN Pop(fuse[y]) ELSE fuse[y]
    BY <1>3, <1>7 DEF AdminUnmounts, detach
  <2>2. Pop(fuse[x]) = <<>>
    BY <1>3, PopTidy
  <2>3. QED
    BY <1>3, <1>4, <2>1, <2>2 DEF TidyAt, Own, DeadOwn
<1>8. CASE \E clean \in BOOLEAN : RcloneDies(j, clean)
  <2>1. PICK clean \in BOOLEAN : Killed(j, clean) /\ rclone' = [rclone EXCEPT ![j] = "none"]
    BY <1>8 DEF RcloneDies
  <2>2. rclone'[j] = "none"
    BY <2>1 DEF Inv, TypeOK
  <2>3. x # i => fuse'[i] = <<>>
    BY <1>3, <2>1, KilledAt
  <2>4. TidyAt(i, x)'
    BY <1>3, <1>4, <2>1, <2>2, KilledAt DEF TidyAt, Own, DeadOwn
  <2>5. QED
    BY <2>3, <2>4
<1>9. CASE \/ RcloneExits(j) \/ RcloneHangs(j) \/ RcloneResumes(j) \/ PodWrites(j)
           \/ RcloneUploads(j)
  <2>1. UNCHANGED fuse
    BY <1>9 DEF RcloneExits, RcloneHangs, RcloneResumes, PodWrites, RcloneUploads
  <2>2. QED
    BY <1>3, <1>4, <2>1 DEF TidyAt, Own, DeadOwn
<1>10. QED
  BY <1>6, <1>7, <1>8, <1>9

(* Only an rclone that somebody waits for comes up. *)
LEMMA WorldIsCalm ==
  ASSUME Inv, Sites, Backed, Starting, Tidy, Quiet, NEW j \in Ids,
         \/ RcloneMounts(j) \/ RcloneExits(j) \/ RcloneHangs(j) \/ RcloneResumes(j)
         \/ AdminUnmounts(j) \/ PodWrites(j) \/ RcloneUploads(j)
         \/ \E clean \in BOOLEAN : RcloneDies(j, clean)
  PROVE  Quiet'
<1> SUFFICES ASSUME NEW q \in Procs PROVE Calmly(q)'
  BY DEF Quiet
<1>1. UNCHANGED <<state, proc>>
  BY DEF RcloneMounts, RcloneExits, RcloneHangs, RcloneResumes, AdminUnmounts, PodWrites,
         RcloneUploads, RcloneDies
<1>2. PICK i : i = proc[q].id
  OBVIOUS
<1>3. Calmly(q)
  BY DEF Quiet
<1>4. CASE proc[q].pc \in {"remount", "stopold", "save", "start"}
  <2>1. i \in Ids /\ i # NoId
    BY <1>2, <1>4, HeldType DEF Locked
  <2>2. ASSUME RcloneMounts(j) PROVE i # j
    <3>1. HeldAt(j, {"mountwait", "remountwait"})
      BY <2>2 DEF RcloneMounts, Starting
    <3>2. QED
      BY <1>2, <1>4, <2>1, <3>1 DEF HeldAt, Inv, Safe, OneHolder
  <2>3. rclone[i] = "none" => rclone'[i] = "none"
    BY <2>1, RclonesOfWorld
  <2>4. ASSUME NEW x \in {i, Mountpoint(i)}, fuse[x] = <<>> PROVE fuse'[x] = <<>>
    <3>1. x \in Paths /\ (i # j => x # Mountpoint(j))
      BY <2>1, OwnMountpoints DEF Paths
    <3>2. CASE RcloneMounts(j)
      BY <2>2, <2>4, <3>1, <3>2, MountsBare
    <3>3. CASE ~RcloneMounts(j)
      BY <2>4, <3>1, <3>3, MountsOfWorld DEF NothingNew
    <3>4. QED
      BY <3>2, <3>3
  <2>5. Mountpoint(i)' = Mountpoint(i)
    BY <1>1 DEF Mountpoint
  <2>6. proc'[q] = proc[q] /\ proc'[q].id = i /\ proc[q].pc # "gone"
    BY <1>1, <1>2, <1>4
  <2>7. QED
    BY <1>2, <1>3, <2>3, <2>4, <2>5, <2>6 DEF Calmly
<1>5. CASE proc[q].pc \notin {"remount", "stopold", "save", "start"}
  BY <1>1, <1>3, <1>5 DEF Calmly
<1>6. QED
  BY <1>4, <1>5

(* Every other step leaves the mount points as they are, and a process     *)
(* comes to replace an rclone only when it is gone.                        *)
LEMMA TidyStep ==
  /\ Kept /\ Targeted /\ Sited /\ Backed /\ Starting /\ Mounting /\ Tidy /\ Quiet
  /\ [KubeletNext]_vars
  => Tidy' /\ Quiet'
<1> SUFFICES ASSUME Kept, Targeted, Sited, Backed, Starting, Mounting, Tidy, Quiet,
                    [KubeletNext]_vars
             PROVE  Tidy' /\ Quiet'
  OBVIOUS
<1> USE DEF Kept, Order
<1>1. ASSUME NEW p \in Procs, Work(p) PROVE Tidy' /\ Quiet'
  BY <1>1, WorkTidies, WorkIsCalm
<1>2. ASSUME UNCHANGED <<state, fuse, rclone>> PROVE Tidy'
  BY <1>2 DEF Tidy, TidyAt, Mountpoint, Own, DeadOwn
<1>3. ASSUME UNCHANGED <<state, fuse, rclone>>, NEW p \in Procs, OnlyMoves(p), Calmly(p)'
      PROVE  Tidy' /\ Quiet'
  <2>1. ASSUME NEW q \in Procs, q # p PROVE Calmly(q)'
    <3>1. proc'[q] = proc[q] /\ Calmly(q)
      BY <1>3, <2>1 DEF OnlyMoves, Quiet
    <3>2. QED
      BY <1>3, <3>1 DEF Calmly, Mountpoint
  <2>2. QED
    BY <1>2, <1>3, <2>1 DEF Quiet
<1>4. ASSUME NEW p \in Procs, proc'[p].pc \notin {"remount", "stopold", "save", "start", "gone"}
      PROVE  Calmly(p)'
  BY <1>4 DEF Calmly
<1>5. ASSUME NEW p \in Procs, UNCHANGED rclone, NEW i \in Ids, proc'[p].id = i,
             proc'[p].pc = "remount", rclone[i] = "none"
      PROVE  Calmly(p)'
  BY <1>5 DEF Calmly
<1>6. ASSUME NEW p \in Calls, NEW i \in Ids, Locking(p, i) PROVE Tidy' /\ Quiet'
  <2>1. p \in Procs /\ OnlyMoves(p) /\ IsFree(i) /\ UNCHANGED <<state, fuse, rclone>>
    BY <1>6, LockingFrame DEF Procs
  <2>2. CASE proc'[p].pc \notin {"remount", "stopold", "save", "start", "gone"}
    BY <1>3, <1>4, <2>1, <2>2
  <2>3. CASE proc'[p].pc \in {"remount", "stopold", "save", "start", "gone"}
    <3>1. proc'[p] # Idle
      BY <2>3 DEF Idle
    <3>2. /\ Locks(p, i) /\ proc'[p].pc = "remount"
          /\ state[i].saved /\ ~LeaveAlone(i) /\ ~live(Mountpoint(i))
      BY <1>6, <2>1, <2>3, <3>1, LockMountOfMoves, SkipMoves, AcquireMoves DEF Locking
    <3>3. rclone[i] = "none" /\ proc'[p].id = i
      BY <2>1, <3>2, OnlyGone DEF live, Locks
    <3>4. QED
      BY <1>3, <1>5, <2>1, <3>2, <3>3
  <2>4. QED
    BY <2>2, <2>3
<1>7. ASSUME NEW i \in Ids, Reconcile(i) PROVE Tidy' /\ Quiet'
  <2>1. /\ Reconciler \in Procs /\ OnlyMoves(Reconciler) /\ IsFree(i) /\ state[i].saved
        /\ proc'[Reconciler].id = i /\ UNCHANGED <<state, fuse, rclone>>
        /\ proc'[Reconciler].pc = IF Probe(Mountpoint(i)) = "Live" THEN "targets"
                                  ELSE IF Probe(Mountpoint(i)) = "Gone" THEN "gone" ELSE "remount"
    BY <1>7, ReconcileFrame DEF Procs
  <2>2. ~LeaveAlone(i)
    BY <1>7 DEF Reconcile
  <2>3. CASE Probe(Mountpoint(i)) = "Live"
    BY <1>3, <1>4, <2>1, <2>3
  <2>4. CASE Probe(Mountpoint(i)) # "Live"
    <3>1. rclone[i] = "none" /\ proc'[Reconciler].pc = "remount"
      BY <2>1, <2>2, <2>4, OnlyGone
    <3>2. QED
      BY <1>3, <1>5, <2>1, <3>1
  <2>5. QED
    BY <2>3, <2>4
<1>8. ASSUME NEW p \in Calls, NEW r \in Requests, Call(p, r[1], r[2]) PROVE Tidy' /\ Quiet'
  <2>1. /\ p \in Procs /\ OnlyMoves(p) /\ UNCHANGED <<state, fuse, rclone>>
        /\ proc'[p].pc \in {"args", "find"}
    BY <1>8, CallFrame
  <2>2. QED
    BY <1>3, <1>4, <2>1
<1>9. ASSUME NEW j \in Ids,
             \/ RcloneMounts(j) \/ RcloneExits(j) \/ RcloneHangs(j) \/ RcloneResumes(j)
             \/ AdminUnmounts(j) \/ PodWrites(j) \/ RcloneUploads(j)
             \/ \E clean \in BOOLEAN : RcloneDies(j, clean)
      PROVE  Tidy' /\ Quiet'
  BY <1>9, WorldTidies, WorldIsCalm
<1>10. ~Crash /\ ~\E p \in Calls : Timeout(p)
  BY DEF Crash, Starting, Timeout, Orderly
<1>11. ASSUME UNCHANGED <<state, fuse, rclone, proc>> PROVE Tidy' /\ Quiet'
  BY <1>2, <1>11 DEF Quiet, Calmly, Mountpoint
<1>12. QED
  BY <1>1, <1>6, <1>7, <1>8, <1>9, <1>10, <1>11
     DEF KubeletNext, Plugin, World, Calm, vars, KubeletCalls, KubeletCleans, KubeletRemoves

(* 4.0.0 left nothing but live mounts, each at its own place. *)
LEMMA TidyBegins ==
  ASSUME {"crash", "save", "remove"} \cap Faults = {}
  PROVE  Init => Tidy /\ Quiet /\ Mounting
<1> SUFFICES ASSUME Init PROVE Tidy /\ Quiet /\ Mounting
  OBVIOUS
<1>1. \A p \in Procs : proc[p].pc = "idle"
  BY DEF Init, Idle
<1>2. ASSUME NEW i \in Ids
      PROVE  /\ i \in DOMAIN Legacy => /\ Mountpoint(i) = Legacy[i] /\ Legacy[i] \in Stagings
                                       /\ Legacy[i] \in dirs /\ state[i].mounted
             /\ i \notin DOMAIN Legacy => Mountpoint(i) = i /\ ~state[i].saved
  BY <1>2, ConstantsAssumption DEF Init, NoState, Mountpoint
<1>3. \A x \in Paths : fuse[x] = IF x \in dirs THEN <<Own(CHOOSE k \in DOMAIN Legacy : Legacy[k] = x)>>
                                ELSE <<>>
  BY Zenon DEF Init
<1>4. \A i \in Ids : i \in Paths /\ i \notin dirs
  BY ConstantsAssumption, ZenonT(40) DEF Paths, Init
<1>5. ASSUME NEW i \in DOMAIN Legacy PROVE fuse[Legacy[i]] = <<Own(i)>>
  <2>1. Legacy[i] \in Paths /\ Legacy[i] \in dirs
    BY <1>2, ConstantsAssumption DEF Paths
  <2>2. (CHOOSE k \in DOMAIN Legacy : Legacy[k] = Legacy[i]) = i
    BY ConstantsAssumption
  <2>3. QED
    BY <1>3, <2>1, <2>2
<1>6. Tidy
  BY <1>2, <1>3, <1>4, <1>5, ConstantsAssumption DEF Tidy, TidyAt
<1>7. Quiet
  BY <1>1 DEF Quiet, Calmly
<1>8. Mounting
  BY <1>2 DEF Mounting, Init
<1>9. QED
  BY <1>6, <1>7, <1>8

(* Remount never stops an rclone that runs: only a mount whose rclone is   *)
(* gone is replaced, and reconcile finds no volume gone.  Without a        *)
(* restart or an error of saveState, Remove and RemoveAll the state file   *)
(* tells whether rclone came up; rclone may die, hang, be unmounted or     *)
(* fail to stop at any moment.                                             *)
THEOREM ReplacesOnlyGone ==
  ASSUME {"timeout", "load", "crash", "save", "remove", "rmall"} \cap Faults = {}, LegacyOwn
  PROVE  KubeletSpec => []OnlyGoneReplaced
<1> DEFINE I == Kept /\ Targeted
           J == Sited /\ Backed /\ Starting /\ Mounting /\ Tidy /\ Quiet
<1>1. KubeletSpec => []I
  BY TargetsInvariant
<1>2. Init => J
  BY RecordedBegins, RclonesBegin, TidyBegins
<1>3. I /\ I' /\ J /\ [KubeletNext]_vars => J'
  BY SitedStep, BackedStep, StartingStep, MountingStep, TidyStep DEF Kept, Order, Targeted
<1>4. J => OnlyGoneReplaced
  BY DEF Quiet, Calmly, OnlyGoneReplaced
<1> HIDE DEF I, J
<1>5. QED
  BY <1>1, <1>2, <1>3, <1>4, PTL DEF KubeletSpec


=============================================================================
