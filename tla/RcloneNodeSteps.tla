--------------------------- MODULE RcloneNodeSteps ---------------------------
(***************************************************************************)
(* What a step of RcloneNode leaves alone.  A call or a pass works on the  *)
(* id it has locked, in the name of the request it began with; whatever it *)
(* does, the other processes, state files and rclones stay as they are.    *)
(***************************************************************************)
EXTENDS RcloneNodeProofs

(* p goes on with the request and the lock it has. *)
Continues(p) ==
    /\ proc[p].pc # "idle"
    /\ proc'[p].op = proc[p].op
    /\ proc'[p].id = proc[p].id
    /\ proc'[p].awaited = proc[p].awaited
    /\ p # Reconciler => proc'[p].path = proc[p].path

OnlyMoves(p) == /\ proc' \in [Procs -> Process]
                /\ \A q \in Procs : q # p => proc'[q] = proc[q]

OnlyTouches(p) ==
    \A i \in Ids : i # proc[p].id => state'[i] = state[i] /\ rclone'[i] = rclone[i]

(* What a process that moves from one label to another keeps. *)
LEMMA StepMoves ==
  ASSUME Inv, NEW p \in Procs, NEW label \in Unlocked \cup Either \cup Locked, Step(p, label),
         proc[p].pc # "idle"
  PROVE  OnlyMoves(p) /\ Continues(p) /\ proc'[p].pc = label /\ told' = told
         /\ proc'[p].left = proc[p].left
<1> DEFINE r == [proc[p] EXCEPT !.pc = label]
<1>1. proc \in [Procs -> Process] /\ proc[p] \in Process
  BY DEF Inv, TypeOK
<1>2. /\ r \in Process /\ r.pc = label /\ r.op = proc[p].op /\ r.id = proc[p].id
      /\ r.awaited = proc[p].awaited /\ r.path = proc[p].path /\ r.left = proc[p].left
  BY <1>1 DEF Process
<1>3. proc' = [proc EXCEPT ![p] = r] /\ told' = told
  BY DEF Step, Become
<1> HIDE DEF r
<1>4. QED
  BY <1>1, <1>2, <1>3 DEF OnlyMoves, Continues

(* What a process that returns keeps. *)
LEMMA ReturnMoves ==
  ASSUME Inv, NEW p \in Procs, NEW ok, Return(p, ok)
  PROVE  OnlyMoves(p) /\ proc'[p] = Idle /\ proc'[p].id = NoId /\ proc'[p].pc = "idle"
<1>1. Idle \in Process /\ Idle.id = NoId /\ Idle.pc = "idle"
  BY DEF Idle, Process, Unlocked
<1>2. QED
  BY <1>1 DEF Return, OnlyMoves, Inv, TypeOK

(* What a process that becomes the record r keeps. *)
LEMMA BecomeMoves ==
  ASSUME Inv, NEW p \in Procs, NEW r \in Process, Become(p, r)
  PROVE  OnlyMoves(p) /\ proc'[p] = r /\ told' = told
  BY DEF Become, OnlyMoves, Inv, TypeOK

(* A process that takes a lock goes on with its request. *)
LEMMA StepLockedMoves ==
  ASSUME Inv, NEW p \in Procs, NEW i \in Ids,
         NEW label \in Unlocked \cup Either \cup Locked, StepLocked(p, i, label)
  PROVE  /\ OnlyMoves(p) /\ told' = told
         /\ proc'[p].pc = label /\ proc'[p].id = i /\ proc'[p].op = proc[p].op
         /\ proc'[p].path = proc[p].path /\ proc'[p].awaited = proc[p].awaited
<1> DEFINE r == [proc[p] EXCEPT !.pc = label, !.id = i, !.left = {}]
<1>1. proc[p] \in Process
  BY DEF Inv, TypeOK
<1>2. /\ r \in Process /\ r.pc = label /\ r.id = i /\ r.op = proc[p].op
      /\ r.path = proc[p].path /\ r.awaited = proc[p].awaited
  BY <1>1 DEF Process
<1>3. Become(p, r)
  BY DEF StepLocked
<1> HIDE DEF r
<1>4. QED
  BY <1>2, <1>3, BecomeMoves

(* A locked label is no idle one. *)
LEMMA LockedIds ==
  ASSUME Inv, NEW p \in Procs
  PROVE  /\ proc[p] \in Process
         /\ proc[p].pc \in Locked => proc[p].id \in Ids /\ proc[p].pc # "idle"
         /\ proc[p].pc \in Unlocked => proc[p].id = NoId
  BY HeldType DEF Locked, Inv, TypeOK, Shape, WellFormed

(* The search of lockMountOf finds the mounts whose state it can read. *)
LEMMA FindMoves ==
  ASSUME Inv, NEW p \in Procs, Find(p)
  PROVE  /\ OnlyMoves(p) /\ Continues(p) /\ proc'[p].pc = "lockof" /\ told' = told
         /\ \E unread \in SUBSET Ids :
               /\ "load" \notin faults => unread = {}
               /\ proc'[p].left = {i \in Ids \ unread : Uses(i, Key(p))}
<1>1. PICK unread \in SUBSET Ids :
         /\ "load" \notin faults => unread = {}
         /\ Become(p, [proc[p] EXCEPT !.pc = "lockof",
                                      !.left = {i \in Ids \ unread : Uses(i, Key(p))}])
  BY DEF Find
<1> DEFINE r == [proc[p] EXCEPT !.pc = "lockof", !.left = {i \in Ids \ unread : Uses(i, Key(p))}]
<1>2. proc[p] \in Process /\ proc[p].pc = "find"
  BY DEF Find, At, Inv, TypeOK
<1>3. {i \in Ids \ unread : Uses(i, Key(p))} \in SUBSET Paths
  BY DEF Paths
<1>4. /\ r \in Process /\ r.pc = "lockof" /\ r.op = proc[p].op /\ r.id = proc[p].id
      /\ r.awaited = proc[p].awaited /\ r.path = proc[p].path
      /\ r.left = {i \in Ids \ unread : Uses(i, Key(p))}
  BY <1>2, <1>3 DEF Process, Unlocked
<1>5. Become(p, r)
  BY <1>1
<1> HIDE DEF r
<1>6. QED
  BY <1>1, <1>2, <1>4, <1>5, BecomeMoves DEF Continues

(* A call that has read its arguments goes for one of the ids they may hash to. *)
LEMMA ArgsMoves ==
  ASSUME Inv, NEW p \in Procs, Args(p)
  PROVE  /\ OnlyMoves(p) /\ Continues(p) /\ proc[p].pc = "args" /\ proc'[p].pc = "acquire"
         /\ told' = told
         /\ \E i \in Ids : i \in IdsOf[proc[p].path] /\ proc'[p].left = {i}
<1>1. proc[p] \in Process /\ proc[p].pc = "args" /\ proc[p].path \in Stagings \cup Ephemerals
  BY DEF Args, At, Inv, TypeOK, Shape, WellFormed, ReconcilePcs
<1>2. PICK i \in IdsOf[proc[p].path] : Become(p, [proc[p] EXCEPT !.pc = "acquire", !.left = {i}])
  BY DEF Args
<1> DEFINE r == [proc[p] EXCEPT !.pc = "acquire", !.left = {i}]
<1>3. i \in Ids /\ {i} \in SUBSET Paths
  BY <1>1, ConstantsAssumption DEF Paths
<1>4. /\ r \in Process /\ r.pc = "acquire" /\ r.op = proc[p].op /\ r.id = proc[p].id
      /\ r.awaited = proc[p].awaited /\ r.path = proc[p].path /\ r.left = {i}
  BY <1>1, <1>3 DEF Process, Unlocked
<1>5. Become(p, r)
  BY <1>2
<1> HIDE DEF r
<1>6. QED
  BY <1>1, <1>3, <1>4, <1>5, BecomeMoves DEF Continues

(* A candidate that is skipped is not tried again. *)
LEMMA SkipMoves ==
  ASSUME Inv, NEW p \in Procs, NEW i \in Ids, SkipMount(p, i)
  PROVE  /\ OnlyMoves(p) /\ Continues(p) /\ proc[p].pc = "lockof" /\ proc'[p].pc = "lockof"
         /\ told' = told /\ proc'[p].left = proc[p].left \ {i} /\ proc[p].id = NoId
<1> DEFINE r == [proc[p] EXCEPT !.left = @ \ {i}]
<1>1. proc[p] \in Process /\ proc[p].pc = "lockof" /\ proc[p].id = NoId
  BY DEF SkipMount, At, Inv, TypeOK, Shape, WellFormed, Unlocked
<1>2. /\ r \in Process /\ r.pc = "lockof" /\ r.id = NoId /\ r.op = proc[p].op
      /\ r.path = proc[p].path /\ r.awaited = proc[p].awaited /\ r.left = proc[p].left \ {i}
  BY <1>1 DEF Process
<1>3. Become(p, r)
  BY DEF SkipMount
<1> HIDE DEF r
<1>4. QED
  BY <1>1, <1>2, <1>3, BecomeMoves DEF Continues

(* p goes on with its request, and with the lock of i. *)
Locks(p, i) ==
    /\ proc'[p].op = proc[p].op
    /\ proc'[p].id = i
    /\ proc'[p].awaited = proc[p].awaited
    /\ proc'[p].path = proc[p].path

(* lockMountOf hands a mount that the path uses to what its caller does with it. *)
LEMMA LockMountOfMoves ==
  ASSUME Inv, NEW p \in Procs, NEW i \in Ids, LockMountOf(p, i)
  PROVE  /\ OnlyMoves(p) /\ proc[p].pc = "lockof" /\ i \in proc[p].left /\ Uses(i, Key(p))
         /\ \/ proc[p].op = "stage" /\ Return(p, TRUE) /\ proc'[p] = Idle
            \/ /\ Locks(p, i) /\ told' = told
               /\ \/ proc[p].op = "unstage" /\ proc'[p].pc = "release"
                  \/ proc[p].op = "publish" /\ proc'[p].pc = "record"
                  \/ proc[p].op = "unpublish" /\ proc'[p].pc = "unbind"
<1>1. /\ Request(proc[p]) /\ proc[p].pc = "lockof" /\ i \in proc[p].left /\ Uses(i, Key(p))
  BY PathType DEF LockMountOf, At, Inv, Shape, WellFormed, ReconcilePcs
<1>2. proc[p].op \in {"stage", "unstage", "publish", "unpublish"}
  BY <1>1 DEF Request
<1>3. CASE proc[p].op = "stage"
  BY <1>1, <1>3, ReturnMoves DEF LockMountOf
<1>4. ASSUME NEW label \in {"release", "record", "unbind"}, StepLocked(p, i, label)
      PROVE  OnlyMoves(p) /\ Locks(p, i) /\ told' = told /\ proc'[p].pc = label
  BY <1>4, StepLockedMoves DEF Locked, Either, Locks
<1>5. CASE proc[p].op # "stage"
  BY <1>1, <1>2, <1>4, <1>5 DEF LockMountOf
<1>6. QED
  BY <1>3, <1>5

(* acquire sets a mount up, uses it, or remounts it. *)
LEMMA AcquireMoves ==
  ASSUME Inv, NEW p \in Procs, NEW i \in Ids, Acquire(p, i)
  PROVE  /\ OnlyMoves(p) /\ proc[p].pc = "acquire" /\ i \in proc[p].left
         /\ \/ proc'[p] = Idle /\ Return(p, FALSE)
            \/ /\ Locks(p, i) /\ told' = told
               /\ \/ ~state[i].saved /\ proc'[p].pc = "mount"
                  \/ /\ state[i].saved /\ ~LeaveAlone(i)
                     /\ \/ live(Mountpoint(i)) /\ proc'[p].pc = "adduser"
                        \/ ~live(Mountpoint(i)) /\ proc'[p].pc = "remount"
<1>1. proc[p].pc = "acquire" /\ i \in proc[p].left
  BY DEF Acquire, At
<1>2. ASSUME NEW label \in {"mount", "adduser", "remount"}, StepLocked(p, i, label)
      PROVE  OnlyMoves(p) /\ Locks(p, i) /\ told' = told /\ proc'[p].pc = label
  BY <1>2, StepLockedMoves DEF Locked, Locks
<1>3. CASE ~state[i].saved
  BY <1>1, <1>2, <1>3 DEF Acquire
<1>4. CASE state[i].saved /\ LeaveAlone(i)
  BY <1>1, <1>4, ReturnMoves DEF Acquire
<1>5. CASE state[i].saved /\ ~LeaveAlone(i) /\ live(Mountpoint(i))
  BY <1>1, <1>2, <1>5 DEF Acquire
<1>6. CASE state[i].saved /\ ~LeaveAlone(i) /\ ~live(Mountpoint(i))
  BY <1>1, <1>2, <1>6 DEF Acquire
<1>7. QED
  BY <1>3, <1>4, <1>5, <1>6

(* What follows once Supervisor.Start has seen the mount point live. *)
LEMMA ReadyMoves ==
  ASSUME Inv, NEW p \in Procs, Ready(p)
  PROVE  /\ OnlyMoves(p) /\ Continues(p) /\ told' = told
         /\ \/ p # Reconciler /\ proc[p].pc = "mountwait" /\ proc'[p].pc = "setmounted"
            \/ p # Reconciler /\ proc[p].pc = "remountwait" /\ proc'[p].pc = "readduser"
            \/ p = Reconciler /\ proc[p].pc = "remountwait" /\ proc'[p].pc = "targets"
<1> DEFINE r == [proc[p] EXCEPT !.pc = "targets", !.left = state[proc[p].id].targets]
<1>1. proc[p] \in Process /\ proc[p].id \in Ids /\ proc[p].pc \in {"mountwait", "remountwait"}
  BY LockedIds DEF Ready, Locked
<1>2. p = Reconciler => proc[p].pc = "remountwait"
  BY <1>1 DEF Inv, Shape, WellFormed, ReconcilePcs
<1>3. CASE p # Reconciler
  BY <1>1, <1>3, StepMoves DEF Ready, At, Locked
<1>4. CASE p = Reconciler
  <2>1. state[proc[p].id].targets \in SUBSET Paths
    BY <1>1 DEF Inv, TypeOK, volumeState
  <2>2. /\ r \in Process /\ r.pc = "targets" /\ r.op = proc[p].op /\ r.id = proc[p].id
        /\ r.awaited = proc[p].awaited
    BY <1>1, <2>1 DEF Process, Locked
  <2>3. Become(p, r)
    BY <1>2, <1>4 DEF Ready, At
  <2> HIDE DEF r
  <2>4. QED
    BY <1>1, <1>2, <1>4, <2>2, <2>3, BecomeMoves DEF Continues
<1>5. QED
  BY <1>3, <1>4

(* The loop over the targets stays with its id. *)
LEMMA TargetMoves ==
  ASSUME Inv, NEW p \in Procs, Rebind(p) \/ \E t \in Paths : Target(p, t)
  PROVE  /\ OnlyMoves(p) /\ Continues(p) /\ told' = told /\ p = Reconciler
         /\ proc'[p].pc \in {"targets", "rebind"}
         /\ UNCHANGED <<state, dirs, rclone, faults, uploads>>
<1>1. proc[p] \in Process /\ p = Reconciler /\ proc[p].pc # "idle"
      /\ UNCHANGED <<state, dirs, rclone, faults, uploads>>
  BY DEF Rebind, Target, At, Inv, TypeOK, Shape, WellFormed
<1>2. PICK r \in Process : /\ Become(p, r) /\ r.op = proc[p].op /\ r.id = proc[p].id
                           /\ r.awaited = proc[p].awaited /\ r.pc \in {"targets", "rebind"}
  <2>1. CASE Rebind(p)
    <3> DEFINE r == [proc[p] EXCEPT !.pc = "targets", !.path = NoPath]
    <3>1. /\ r \in Process /\ r.op = proc[p].op /\ r.id = proc[p].id
          /\ r.awaited = proc[p].awaited /\ r.pc = "targets"
      BY <1>1, ZenonT(40) DEF Process, Locked
    <3>2. QED
      BY <2>1, <3>1 DEF Rebind
  <2>2. CASE \E t \in Paths : Target(p, t)
    <3>1. PICK t \in Paths : Target(p, t)
      BY <2>2
    <3> DEFINE a == [proc[p] EXCEPT !.pc = "rebind", !.path = t, !.left = @ \ {t}]
               b == [proc[p] EXCEPT !.left = @ \ {t}]
    <3>2. /\ a \in Process /\ a.op = proc[p].op /\ a.id = proc[p].id /\ a.pc = "rebind"
          /\ b \in Process /\ b.op = proc[p].op /\ b.id = proc[p].id /\ b.pc = "targets"
          /\ a.awaited = proc[p].awaited /\ b.awaited = proc[p].awaited
      BY <1>1, <3>1 DEF Process, Locked, Target, At
    <3>3. Become(p, a) \/ Become(p, b)
      BY <3>1 DEF Target
    <3> HIDE DEF a, b
    <3>4. QED
      BY <3>2, <3>3
  <2>3. QED
    BY <2>1, <2>2
<1>3. QED
  BY <1>1, <1>2, BecomeMoves DEF Continues

(* What the saveState calls write: a file that is there stays there, and   *)
(* tells of the same mount point.                                          *)
LEMMA AddUserSaves ==
  ASSUME Inv, NEW p \in Procs, AddUser(p), NEW i, i = proc[p].id
  PROVE  /\ i \in Ids /\ state[i].saved /\ state'[i].saved
         /\ state'[i].at = state[i].at /\ state'[i].targets = state[i].targets
         /\ state'[i].users = Users(i) \cup {proc[p].path}
<1>1. i \in Ids /\ state[i].saved /\ state \in [Ids -> volumeState] /\ state[i] \in volumeState
  BY HeldType DEF AddUser, Locked, Inv, TypeOK
<1>2. state'[i] = [state[i] EXCEPT !.users = Users(i) \cup {proc[p].path},
                                   !.mounted = state[i].mounted \/ At(p, "readduser")]
  BY <1>1 DEF AddUser, SaveState
<1>3. QED
  BY <1>1, <1>2 DEF volumeState

(* The second saveState of mount tells that it has come up. *)
LEMMA SetMountedSaves ==
  ASSUME Inv, NEW p \in Procs, SetMounted(p), NEW i, i = proc[p].id
  PROVE  /\ i \in Ids /\ state[i].saved /\ state'[i].saved
         /\ state'[i].at = state[i].at /\ state'[i].targets = state[i].targets
         /\ state'[i].users = state[i].users
<1>1. i \in Ids /\ state[i].saved /\ state \in [Ids -> volumeState] /\ state[i] \in volumeState
  BY HeldType DEF SetMounted, At, Locked, Inv, TypeOK
<1>2. state'[i] = [state[i] EXCEPT !.mounted = TRUE]
  BY <1>1 DEF SetMounted, SaveState
<1>3. QED
  BY <1>1, <1>2 DEF volumeState

(* A target that is recorded, on a mount that is live. *)
LEMMA RecordSaves ==
  ASSUME Inv, NEW p \in Procs, Record(p), NEW i, i = proc[p].id, live(Mountpoint(i))
  PROVE  /\ i \in Ids /\ state[i].saved /\ state'[i].saved
         /\ state'[i].at = state[i].at /\ state'[i].targets = state[i].targets \cup {proc[p].path}
         /\ state'[i].users = Users(i)
<1>1. i \in Ids /\ state[i].saved /\ state \in [Ids -> volumeState] /\ state[i] \in volumeState
  BY HeldType DEF Record, At, Locked, Inv, TypeOK
<1>2. state'[i] = [state[i] EXCEPT !.users = Users(i),
                                   !.targets = state[i].targets \cup {proc[p].path}]
  BY <1>1 DEF Record, SaveState
<1>3. QED
  BY <1>1, <1>2 DEF volumeState

(* A path that is forgotten, as a user and as a target. *)
LEMMA ForgetSaves ==
  ASSUME Inv, NEW p \in Procs, Forget(p), NEW i, i = proc[p].id
  PROVE  /\ i \in Ids /\ state[i].saved /\ state'[i].saved
         /\ state'[i].at = state[i].at /\ state'[i].targets = state[i].targets \ {proc[p].path}
         /\ state'[i].users = Users(i) \ {proc[p].path}
<1>1. i \in Ids /\ state[i].saved /\ state \in [Ids -> volumeState] /\ state[i] \in volumeState
  BY HeldType DEF Forget, At, Locked, Inv, TypeOK
<1>2. state'[i] = [state[i] EXCEPT !.users = Users(i) \ {proc[p].path},
                                   !.targets = state[i].targets \ {proc[p].path}]
  BY <1>1 DEF Forget, SaveState
<1>3. QED
  BY <1>1, <1>2 DEF volumeState

(* The end of a pass, which keeps the state or drops the paths that are gone. *)
LEMMA DropUsersSaves ==
  ASSUME Inv, NEW p \in Procs, DropUsers(p), NEW i, i = proc[p].id
  PROVE  /\ i \in Ids /\ state[i].saved /\ state'[i].saved /\ state'[i].at = state[i].at
         /\ \/ UNCHANGED state
            \/ /\ state'[i].targets = state[i].targets \cap dirs
               /\ state'[i].users = Users(i) \cap dirs /\ Users(i) \cap dirs # {}
<1>1. i \in Ids /\ state[i].saved /\ state \in [Ids -> volumeState] /\ state[i] \in volumeState
  BY HeldType DEF DropUsers, At, Locked, Inv, TypeOK
<1>2. \/ UNCHANGED state
      \/ /\ Users(i) \cap dirs # {}
         /\ state'[i] = [state[i] EXCEPT !.users = Users(i) \cap dirs,
                                         !.targets = state[i].targets \cap dirs]
  BY <1>1 DEF DropUsers, SaveState
<1>3. QED
  BY <1>1, <1>2 DEF volumeState

(* The first saveState of mount writes a new state, and a mount that does  *)
(* not come up, or is unmounted, loses it.                                 *)
LEMMA SaveSaves ==
  ASSUME Inv, NEW p \in Procs, Save(p), NEW i, i = proc[p].id
  PROVE  /\ i \in Ids /\ state'[i].saved /\ state'[i].at = i
         /\ state'[i].users = {} /\ state'[i].targets = {}
<1>1. i \in Ids /\ state \in [Ids -> volumeState]
  BY HeldType DEF Save, At, Locked, Inv, TypeOK
<1>2. state'[i] = [NoState(i) EXCEPT !.saved = TRUE]
  BY <1>1 DEF Save, SaveState
<1>3. QED
  BY <1>1, <1>2 DEF NoState

(* A step of a process moves this process only, and touches only the state *)
(* file and the rclone of the id it has locked.                            *)
LEMMA WorkFrame ==
  ASSUME Inv, NEW p \in Procs, Work(p)
  PROVE  /\ OnlyMoves(p)
         /\ proc'[p] = Idle \/ Continues(p)
         /\ OnlyTouches(p)
         /\ faults' = faults
<1> USE DEF At
<1>1. proc[p] \in Process /\ state \in [Ids -> volumeState]
      /\ rclone \in [Ids -> {"none", "starting", "running", "stuck"}]
  BY DEF Inv, TypeOK
<1>2. CASE Fail(p)
  BY <1>2, ReturnMoves DEF Fail, OnlyTouches
<1>3. CASE Find(p)
  BY <1>3, FindMoves DEF Find, OnlyTouches
<1>4. CASE NotFound(p)
  BY <1>4, ReturnMoves, StepMoves DEF NotFound, OnlyTouches, Unlocked, Either
<1>5. CASE Args(p)
  BY <1>5, ArgsMoves DEF Args, OnlyTouches
<1>6. CASE Mount(p)
  BY <1>6, StepMoves DEF Mount, OnlyTouches, Locked
<1>7. CASE Save(p)
  BY <1>1, <1>7, StepMoves DEF Save, SaveState, OnlyTouches, Locked
<1>8. CASE Start(p)
  BY <1>1, <1>8, StepMoves, ReturnMoves DEF Start, RemoveState, SaveState, OnlyTouches, Locked
<1>9. CASE Ready(p)
  BY <1>9, ReadyMoves DEF Ready, OnlyTouches
<1>10. CASE StartFails(p)
  BY <1>1, <1>10, ReturnMoves DEF StartFails, RemoveState, SaveState, OnlyTouches
<1>11. CASE SetMounted(p)
  BY <1>1, <1>11, StepMoves DEF SetMounted, SaveState, OnlyTouches, Locked
<1>12. CASE AddUser(p)
  BY <1>1, <1>12, StepMoves, ReturnMoves DEF AddUser, SaveState, OnlyTouches, Locked
<1>13. CASE Remount(p) \/ Umount(p) \/ Drain(p) \/ Release(p)
  BY <1>13, StepMoves DEF Remount, Umount, Drain, Release, OnlyTouches, Locked
<1>14. CASE StopOld(p)
  BY <1>1, <1>14, StepMoves DEF StopOld, OnlyTouches, Locked
<1>15. CASE Record(p)
  BY <1>1, <1>15, StepMoves, ReturnMoves DEF Record, SaveState, OnlyTouches, Locked
<1>16. CASE BindCheck(p) \/ Bind(p)
  BY <1>16, StepMoves, ReturnMoves DEF BindCheck, Bind, OnlyTouches, Locked
<1>17. CASE Unbind(p) \/ Rmdir(p)
  BY <1>17, StepMoves, ReturnMoves DEF Unbind, Rmdir, OnlyTouches, Locked, Either
<1>18. CASE Forget(p) \/ RmState(p)
  BY <1>1, <1>18, ReturnMoves DEF Forget, RmState, SaveState, OnlyTouches
<1>19. CASE Stop(p)
  BY <1>1, <1>19, StepMoves, ReturnMoves DEF Stop, stopScope, OnlyTouches, Locked
<1>20. CASE Gone(p)
  BY <1>1, <1>20, StepMoves DEF Gone, stopScope, OnlyTouches, Locked
<1>21. CASE Rebind(p) \/ \E t \in Paths : Target(p, t)
  BY <1>21, TargetMoves DEF OnlyTouches
<1>22. CASE DropUsers(p)
  BY <1>1, <1>22, StepMoves, ReturnMoves DEF DropUsers, SaveState, OnlyTouches, Locked
<1>23. QED
  BY <1>2, <1>3, <1>4, <1>5, <1>6, <1>7, <1>8, <1>9, <1>10, <1>11, <1>12, <1>13, <1>14, <1>15,
     <1>16, <1>17, <1>18, <1>19, <1>20, <1>21, <1>22 DEF Work

(* A step that takes a lock changes nothing but the process, and the lock  *)
(* was free.                                                               *)
LEMMA LockingFrame ==
  ASSUME Inv, NEW p \in Procs, NEW i \in Ids, Locking(p, i)
  PROVE  /\ OnlyMoves(p)
         /\ p # Reconciler /\ proc[p].pc # "idle" /\ proc[p].id = NoId
         /\ IsFree(i)
         /\ \/ proc'[p] = Idle
            \/ /\ proc'[p].id \in {NoId, i} /\ proc'[p].op = proc[p].op
               /\ proc'[p].path = proc[p].path /\ proc'[p].awaited = proc[p].awaited
         /\ UNCHANGED <<state, dirs, fuse, rclone, faults, uploads>>
<1>1. /\ proc[p] \in Process /\ p # Reconciler /\ proc[p].pc # "idle" /\ proc[p].id = NoId
      /\ IsFree(i)
      /\ UNCHANGED <<state, dirs, fuse, rclone, faults, uploads>>
  BY DEF Locking, LockMountOf, SkipMount, Acquire, At, Inv, TypeOK, Shape, WellFormed,
         ReconcilePcs, Unlocked
<1>2. CASE SkipMount(p, i)
  BY <1>1, <1>2, SkipMoves DEF Continues
<1>3. CASE LockMountOf(p, i)
  BY <1>1, <1>3, LockMountOfMoves DEF Locks
<1>4. CASE Acquire(p, i)
  BY <1>1, <1>4, AcquireMoves DEF Locks
<1>5. QED
  BY <1>2, <1>3, <1>4 DEF Locking

(* A pass begins with a lock that was free, and changes nothing else. *)
LEMMA ReconcileFrame ==
  ASSUME Inv, NEW i \in Ids, Reconcile(i)
  PROVE  /\ OnlyMoves(Reconciler)
         /\ proc[Reconciler].pc = "idle" /\ proc[Reconciler].id = NoId
         /\ IsFree(i) /\ state[i].saved
         /\ proc'[Reconciler].id = i /\ proc'[Reconciler].op = "reconcile"
         /\ proc'[Reconciler].awaited
         /\ proc'[Reconciler].pc = IF Probe(Mountpoint(i)) = "Live" THEN "targets"
                                   ELSE IF Probe(Mountpoint(i)) = "Gone" THEN "gone" ELSE "remount"
         /\ UNCHANGED <<state, dirs, fuse, rclone, told, faults, uploads>>
<1> DEFINE s == Probe(Mountpoint(i))
           r == [Idle EXCEPT
                   !.op = "reconcile", !.id = i,
                   !.pc = IF s = "Live" THEN "targets" ELSE IF s = "Gone" THEN "gone" ELSE "remount",
                   !.left = IF s = "Live" THEN state[i].targets ELSE {}]
<1>1. Reconciler \in Procs /\ proc[Reconciler].pc = "idle" /\ proc[Reconciler].id = NoId
  BY DEF Reconcile, At, Procs, Inv, Shape, WellFormed, Unlocked
<1>2. state[i].targets \in SUBSET Paths
  BY DEF Inv, TypeOK, volumeState
<1>3. /\ r \in Process /\ r.id = i /\ r.op = "reconcile" /\ r.awaited
      /\ r.pc = IF s = "Live" THEN "targets" ELSE IF s = "Gone" THEN "gone" ELSE "remount"
  BY <1>2 DEF Idle, Process, Locked
<1>4. Become(Reconciler, r)
  BY DEF Reconcile
<1> HIDE DEF r
<1>5. QED
  BY <1>1, <1>3, <1>4, BecomeMoves DEF Reconcile

(* A request that arrives changes what is told for its path, and the call. *)
LEMMA CallFrame ==
  ASSUME Inv, NEW p \in Calls, NEW q \in Requests, Call(p, q[1], q[2])
  PROVE  /\ OnlyMoves(p)
         /\ p \in Procs /\ p # Reconciler /\ proc[p].pc = "idle" /\ proc[p].id = NoId
         /\ proc'[p].id = NoId /\ proc'[p].op = q[1] /\ proc'[p].path = q[2] /\ proc'[p].awaited
         /\ proc'[p].pc = IF q[1] = "publish" /\ q[2] \in Ephemerals THEN "args" ELSE "find"
         /\ q[2] \in Paths
         /\ UNCHANGED <<state, dirs, fuse, rclone, faults, uploads>>
<1> DEFINE r == [Idle EXCEPT
                    !.pc = IF q[1] = "publish" /\ q[2] \in Ephemerals THEN "args" ELSE "find",
                    !.op = q[1], !.path = q[2]]
<1>1. p \in Procs /\ p # Reconciler /\ proc[p].pc = "idle" /\ proc[p].id = NoId
  BY ConstantsAssumption DEF Procs, Call, At, Inv, Shape, WellFormed, Unlocked
<1>2. q[1] \in {"stage", "unstage", "publish", "unpublish"} /\ q[2] \in Paths
  BY DEF Requests, Paths
<1>3. /\ r \in Process /\ r.op = q[1] /\ r.path = q[2] /\ r.id = NoId /\ r.awaited
      /\ r.pc = IF q[1] = "publish" /\ q[2] \in Ephemerals THEN "args" ELSE "find"
  BY <1>2 DEF Idle, Process, Unlocked
<1>4. proc' = [proc EXCEPT ![p] = r]
  BY DEF Call
<1> HIDE DEF r
<1>5. QED
  BY <1>1, <1>2, <1>3, <1>4, ZenonT(40) DEF OnlyMoves, Call, Inv, TypeOK

-----------------------------------------------------------------------------
(* What a step does *)

(* A call that succeeds tells kubelet about its path. *)
Answers(p) ==
    /\ p # Reconciler
    /\ proc[p].pc # "idle"
    /\ proc'[p] = Idle
    /\ told' = [told EXCEPT ![proc[p].path] =
                  IF proc[p].op \in {"stage", "publish"} THEN "up" ELSE "none"]

(* A call that fails tells kubelet nothing, nor does a pass. *)
LEMMA FailureIsSilent ==
  ASSUME NEW p \in Procs, Return(p, FALSE) \/ ((\E ok : Return(p, ok)) /\ p = Reconciler)
  PROVE  told' = told
  BY DEF Return

(* A call that succeeds tells it the more, if kubelet still waits. *)
LEMMA SuccessAnswers ==
  ASSUME Inv, NEW p \in Procs, p # Reconciler, proc[p].pc # "idle", Return(p, TRUE)
  PROVE  told' = told \/ Answers(p)
  BY DEF Return, Answers, Inv, TypeOK

(* The steps that answer kubelet, and what they have seen. *)
LEMMA AnswersOfWork ==
  ASSUME Inv, NEW p \in Procs, Work(p)
  PROVE  \/ told' = told
         \/ /\ Answers(p)
            /\ \/ NotFound(p) /\ proc[p].op = "unstage"
               \/ AddUser(p) /\ proc[p].op = "stage"
               \/ BindCheck(p) /\ live(proc[p].path)
               \/ Bind(p) /\ dirs' = dirs \cup {proc[p].path}
               \/ Rmdir(p) /\ proc[p].id = NoId /\ dirs' = dirs \ {proc[p].path}
               \/ Forget(p)
               \/ RmState(p)
<1> USE DEF At
<1>1. CASE Fail(p)
  BY <1>1, FailureIsSilent DEF Fail
<1>2. CASE \/ Find(p) \/ Args(p) \/ Mount(p) \/ Save(p) \/ Ready(p) \/ SetMounted(p) \/ Remount(p)
           \/ StopOld(p) \/ Unbind(p) \/ Release(p) \/ Drain(p) \/ Umount(p) \/ Gone(p) \/ Rebind(p)
           \/ \E t \in Paths : Target(p, t)
  BY <1>2 DEF Find, Args, Mount, Save, Ready, SetMounted, Remount, StopOld, Unbind, Release, Drain,
              Umount, Gone, Rebind, Target, Step, Become
<1>3. CASE Start(p) \/ StartFails(p) \/ Record(p) \/ Stop(p)
  BY <1>3, FailureIsSilent DEF Start, StartFails, Record, Stop, Step, Become
<1>4. CASE NotFound(p)
  <2>1. p # Reconciler /\ proc[p].pc # "idle"
    BY <1>4 DEF NotFound, Inv, Shape, WellFormed, ReconcilePcs
  <2>2. told' = told \/ (Return(p, TRUE) /\ proc[p].op = "unstage")
    BY <1>4, FailureIsSilent DEF NotFound, Step, Become
  <2>3. QED
    BY <1>4, <2>1, <2>2, SuccessAnswers
<1>5. CASE AddUser(p)
  <2>1. p # Reconciler /\ proc[p].pc # "idle"
    BY <1>5 DEF AddUser, Inv, Shape, WellFormed, ReconcilePcs
  <2>2. told' = told \/ (Return(p, TRUE) /\ proc[p].op = "stage")
    BY <1>5 DEF AddUser, Step, Become
  <2>3. QED
    BY <1>5, <2>1, <2>2, SuccessAnswers
<1>6. CASE BindCheck(p)
  <2>1. p # Reconciler /\ proc[p].pc # "idle"
    BY <1>6 DEF BindCheck, Inv, Shape, WellFormed, ReconcilePcs
  <2>2. told' = told \/ (Return(p, TRUE) /\ live(proc[p].path))
    BY <1>6 DEF BindCheck, Step, Become
  <2>3. QED
    BY <1>6, <2>1, <2>2, SuccessAnswers
<1>7. CASE Bind(p)
  <2>1. p # Reconciler /\ proc[p].pc # "idle"
    BY <1>7 DEF Bind, Inv, Shape, WellFormed, ReconcilePcs
  <2>2. told' = told \/ (Return(p, TRUE) /\ dirs' = dirs \cup {proc[p].path})
    BY <1>7, FailureIsSilent DEF Bind
  <2>3. QED
    BY <1>7, <2>1, <2>2, SuccessAnswers
<1>8. CASE Rmdir(p)
  <2>1. p # Reconciler /\ proc[p].pc # "idle"
    BY <1>8 DEF Rmdir, Inv, Shape, WellFormed, ReconcilePcs
  <2>2. \/ told' = told
        \/ Return(p, TRUE) /\ proc[p].id = NoId /\ dirs' = dirs \ {proc[p].path}
    BY <1>8, FailureIsSilent DEF Rmdir, Step, Become
  <2>3. QED
    BY <1>8, <2>1, <2>2, SuccessAnswers
<1>9. CASE Forget(p)
  <2>1. p # Reconciler /\ proc[p].pc # "idle" /\ Return(p, TRUE)
    BY <1>9 DEF Forget, Inv, Shape, WellFormed, ReconcilePcs
  <2>2. QED
    BY <1>9, <2>1, SuccessAnswers
<1>10. CASE RmState(p)
  BY <1>10, FailureIsSilent, SuccessAnswers DEF RmState
<1>11. CASE DropUsers(p)
  <2>1. p = Reconciler
    BY <1>11 DEF DropUsers, Inv, Shape, WellFormed
  <2>2. QED
    BY <1>11, <2>1, FailureIsSilent DEF DropUsers, Step, Become
<1>12. QED
  BY <1>1, <1>2, <1>3, <1>4, <1>5, <1>6, <1>7, <1>8, <1>9, <1>10, <1>11 DEF Work

(* The way of a call through its handler, from the label it is at to the   *)
(* next one, unless it returns.                                            *)
CallMoves(p) ==
    LET path == proc[p].path
        i    == proc[p].id
        To(label) == proc'[p].pc = label
    IN
    \/ Find(p) /\ To("lockof")
    \/ NotFound(p) /\ proc[p].op = "stage" /\ To("args")
    \/ NotFound(p) /\ proc[p].op = "unpublish" /\ To("unbind")
    \/ Args(p) /\ To("acquire")
    \/ Mount(p) /\ To("save")
    \/ Save(p) /\ To("start")
    \/ Start(p) /\ To("mountwait") /\ UNCHANGED state
    \/ Ready(p) /\ proc[p].pc = "mountwait" /\ To("setmounted")
    \/ Ready(p) /\ proc[p].pc = "remountwait" /\ To("readduser")
    \/ SetMounted(p) /\ To("adduser")
    \/ AddUser(p) /\ proc[p].op # "stage" /\ To("record")
    \/ Remount(p) /\ To("stopold")
    \/ StopOld(p) /\ To("remountwait")
    \/ Record(p) /\ live(Mountpoint(i)) /\ To("bindcheck")
    \/ BindCheck(p) /\ ~live(path) /\ To("bind")
    \/ Unbind(p) /\ To("rmdir")
    \/ Rmdir(p) /\ i # NoId /\ dirs' = dirs \ {path} /\ path \in Users(i) /\ To("release")
    \/ Rmdir(p) /\ i # NoId /\ dirs' = dirs \ {path} /\ path \notin Users(i) /\ To("forget")
    \/ Release(p) /\ Users(i) \subseteq {path} /\ To("drain")
    \/ Release(p) /\ ~(Users(i) \subseteq {path}) /\ To("forget")
    \/ Drain(p) /\ To("umount")
    \/ Umount(p) /\ To("stop")
    \/ Stop(p) /\ To("rmstate")

(* Every step of a call is one of these, or returns. *)
LEMMA MovesOfCall ==
  ASSUME Inv, NEW p \in Procs, p # Reconciler, Work(p)
  PROVE  proc'[p] = Idle \/ (CallMoves(p) /\ Continues(p))
<1> USE DEF At, CallMoves
<1>0. proc'[p] = Idle \/ Continues(p)
  BY WorkFrame
<1>1. CASE Fail(p) \/ StartFails(p) \/ Forget(p) \/ RmState(p) \/ Bind(p)
  BY <1>1, ReturnMoves DEF Fail, StartFails, Forget, RmState, Bind
<1>2. CASE Find(p)
  BY <1>0, <1>2, FindMoves
<1>3. CASE NotFound(p)
  <2>1. proc[p].pc = "lockof" /\ proc[p].op \in {"stage", "unstage", "publish", "unpublish"}
    BY <1>3, PathType DEF NotFound, Request
  <2>2. \/ proc'[p] = Idle
        \/ proc[p].op = "stage" /\ proc'[p].pc = "args"
        \/ proc[p].op = "unpublish" /\ proc'[p].pc = "unbind"
    BY <1>3, <2>1, ReturnMoves, StepMoves DEF NotFound, Unlocked, Either
  <2>3. QED
    BY <1>0, <1>3, <2>2
<1>4. CASE Args(p)
  BY <1>0, <1>4, ArgsMoves
<1>5. CASE Mount(p) \/ Save(p) \/ SetMounted(p) \/ Remount(p) \/ StopOld(p)
  <2>1. \/ Mount(p) /\ proc'[p].pc = "save"
        \/ Save(p) /\ proc'[p].pc = "start"
        \/ SetMounted(p) /\ proc'[p].pc = "adduser"
        \/ Remount(p) /\ proc'[p].pc = "stopold"
        \/ StopOld(p) /\ proc'[p].pc = "remountwait"
    BY <1>5, StepMoves DEF Mount, Save, SetMounted, Remount, StopOld, Locked
  <2>2. QED
    BY <1>0, <2>1
<1>6. CASE Start(p)
  BY <1>0, <1>6, StepMoves, ReturnMoves DEF Start, Locked
<1>7. CASE Ready(p)
  BY <1>0, <1>7, ReadyMoves
<1>8. CASE AddUser(p)
  BY <1>0, <1>8, StepMoves, ReturnMoves DEF AddUser, Locked
<1>9. CASE Record(p)
  BY <1>0, <1>9, StepMoves, ReturnMoves DEF Record, Locked
<1>10. CASE BindCheck(p)
  BY <1>0, <1>10, StepMoves, ReturnMoves DEF BindCheck, Locked
<1>11. CASE Unbind(p)
  BY <1>0, <1>11, StepMoves DEF Unbind, Either
<1>12. CASE Rmdir(p)
  <2>1. \/ proc'[p] = Idle
        \/ /\ proc[p].id # NoId /\ dirs' = dirs \ {proc[p].path}
           /\ \/ proc[p].path \in Users(proc[p].id) /\ proc'[p].pc = "release"
              \/ proc[p].path \notin Users(proc[p].id) /\ proc'[p].pc = "forget"
    BY <1>12, StepMoves, ReturnMoves DEF Rmdir, Locked
  <2>2. QED
    BY <1>0, <1>12, <2>1
<1>13. CASE Release(p)
  BY <1>0, <1>13, StepMoves DEF Release, Locked
<1>14. CASE Drain(p) \/ Umount(p)
  <2>1. \/ Drain(p) /\ proc'[p].pc = "umount"
        \/ Umount(p) /\ proc'[p].pc = "stop"
    BY <1>14, StepMoves DEF Drain, Umount, Locked
  <2>2. QED
    BY <1>0, <2>1
<1>15. CASE Stop(p)
  BY <1>0, <1>15, StepMoves, ReturnMoves DEF Stop, Locked
<1>16. CASE Gone(p) \/ DropUsers(p) \/ Rebind(p) \/ \E t \in Paths : Target(p, t)
  BY <1>16 DEF Gone, DropUsers, Rebind, Target, Inv, Shape, WellFormed
<1>17. QED
  BY <1>1, <1>2, <1>3, <1>4, <1>5, <1>6, <1>7, <1>8, <1>9, <1>10, <1>11, <1>12, <1>13, <1>14,
     <1>15, <1>16 DEF Work

(* The directories a step makes and removes. *)
LEMMA DirsOfWork ==
  ASSUME Inv, NEW p \in Procs, Work(p)
  PROVE  \/ dirs' = dirs
         \/ Mount(p) /\ dirs' = dirs \cup {proc[p].id}
         \/ Args(p) /\ proc[p].op = "stage" /\ dirs' = dirs \cup {proc[p].path}
         \/ Bind(p) /\ dirs' = dirs \cup {proc[p].path}
         \/ Rmdir(p) /\ fuse[proc[p].path] = <<>> /\ dirs' = dirs \ {proc[p].path}
         \/ Stop(p) /\ Mountpoint(proc[p].id) = proc[p].id /\ dirs' = dirs \ {proc[p].id}
<1>1. CASE Stop(p)
  BY <1>1 DEF Stop
<1>2. CASE Args(p)
  BY <1>2 DEF Args
<1>3. CASE Mount(p) \/ Bind(p) \/ Rmdir(p)
  BY <1>3 DEF Mount, Bind, Rmdir
<1>4. CASE \/ Fail(p) \/ Find(p) \/ NotFound(p) \/ Save(p) \/ Start(p) \/ Ready(p) \/ StartFails(p)
           \/ SetMounted(p) \/ AddUser(p) \/ Remount(p) \/ StopOld(p) \/ Record(p) \/ BindCheck(p)
           \/ Unbind(p) \/ Forget(p) \/ Release(p) \/ Drain(p) \/ Umount(p) \/ RmState(p)
           \/ Gone(p) \/ Rebind(p) \/ DropUsers(p) \/ \E t \in Paths : Target(p, t)
  BY <1>4 DEF Fail, Find, NotFound, Save, Start, Ready, StartFails, SetMounted, AddUser, Remount,
              StopOld, Record, BindCheck, Unbind, Forget, Release, Drain, Umount, RmState, Gone,
              Rebind, DropUsers, Target
<1>5. QED
  BY <1>1, <1>2, <1>3, <1>4 DEF Work

(* A state file that stays but for Mounted, one that is written anew or    *)
(* removed, and one that is written with other users or targets.           *)
FileStays(i) ==
    /\ state'[i].saved = state[i].saved /\ state'[i].at = state[i].at
    /\ state'[i].users = state[i].users /\ state'[i].targets = state[i].targets

FileBegins(i) ==
    state'[i].at = i /\ state'[i].users = {} /\ state'[i].targets = {}

FileChanges(i, users, targets) ==
    /\ state[i].saved /\ state'[i].saved /\ state'[i].at = state[i].at
    /\ state'[i].users = users /\ state'[i].targets = targets

(* The steps that fail to set a mount up, or unmount it, remove its state. *)
Removes(p) == Start(p) \/ (StartFails(p) /\ proc[p].pc = "mountwait") \/ RmState(p)

(* What a step leaves in the state file of the id its process has locked. *)
LEMMA StateOfWork ==
  ASSUME Inv, NEW p \in Procs, Work(p), NEW i \in Ids, i = proc[p].id
  PROVE  \/ FileStays(i)
         \/ Save(p) /\ state'[i].saved /\ FileBegins(i)
         \/ Removes(p) /\ ~state'[i].saved /\ FileBegins(i)
         \/ AddUser(p) /\ FileChanges(i, Users(i) \cup {proc[p].path}, state[i].targets)
         \/ /\ Record(p) /\ live(Mountpoint(i))
            /\ FileChanges(i, Users(i), state[i].targets \cup {proc[p].path})
         \/ /\ Forget(p)
            /\ FileChanges(i, Users(i) \ {proc[p].path}, state[i].targets \ {proc[p].path})
         \/ /\ DropUsers(p) /\ Users(i) \cap dirs # {}
            /\ FileChanges(i, Users(i) \cap dirs, state[i].targets \cap dirs)
<1> USE DEF FileStays, FileBegins, FileChanges, Removes
<1>1. CASE Save(p)
  BY <1>1, SaveSaves
<1>2. CASE Start(p) \/ StartFails(p) \/ RmState(p)
  <2>1. state'[i] = state[i] \/ (state'[i] = NoState(i) /\ ~(StartFails(p) /\ proc[p].pc # "mountwait"))
    BY <1>2 DEF Start, StartFails, RemoveState, RmState, SaveState, At, Inv, TypeOK
  <2>2. /\ ~NoState(i).saved /\ NoState(i).at = i /\ NoState(i).users = {} /\ NoState(i).targets = {}
    BY DEF NoState
  <2>3. QED
    BY <1>2, <2>1, <2>2
<1>3. CASE SetMounted(p)
  <2>1. state[i].saved \in BOOLEAN /\ state'[i].saved \in BOOLEAN
    BY <1>3, SetMountedStep DEF Inv, TypeOK, volumeState
  <2>2. QED
    BY <1>3, <2>1, SetMountedSaves
<1>4. CASE AddUser(p)
  BY <1>4, AddUserSaves
<1>5. CASE Record(p)
  BY <1>5, RecordSaves DEF Record
<1>6. CASE Forget(p)
  BY <1>6, ForgetSaves
<1>7. CASE DropUsers(p)
  BY <1>7, DropUsersSaves
<1>8. CASE \/ Fail(p) \/ Find(p) \/ NotFound(p) \/ Args(p) \/ Mount(p) \/ Ready(p) \/ Remount(p)
           \/ StopOld(p) \/ BindCheck(p) \/ Bind(p) \/ Unbind(p) \/ Rmdir(p) \/ Release(p)
           \/ Drain(p) \/ Umount(p) \/ Stop(p) \/ Gone(p) \/ Rebind(p)
           \/ \E t \in Paths : Target(p, t)
  BY <1>8 DEF Fail, Find, NotFound, Args, Mount, Ready, Remount, StopOld, BindCheck, Bind, Unbind,
              Rmdir, Release, Drain, Umount, Stop, Gone, Rebind, Target
<1>9. QED
  BY <1>1, <1>2, <1>3, <1>4, <1>5, <1>6, <1>7, <1>8 DEF Work

-----------------------------------------------------------------------------
(* Mounts that come and go *)

(* i is shown live somewhere in a stack of mounts. *)
LiveIn(i, s) == \E k \in 1..Len(s) : s[k] = Own(i)

(* An unmount shows nothing new *)
LEMMA PopShows ==
  ASSUME NEW s \in Seq(Entry), NEW i \in Ids, LiveIn(i, Pop(s))
  PROVE  LiveIn(i, s)
<1>1. CASE s = <<>>
  BY <1>1 DEF Pop
<1>2. CASE s # <<>>
  <2>1. PICK k \in 1..Len(Tail(s)) : Tail(s)[k] = Own(i)
    BY <1>2 DEF LiveIn, Pop
  <2>2. Len(Tail(s)) = Len(s) - 1 /\ Len(s) \in Nat /\ Tail(s)[k] = s[k + 1]
    BY <1>2, <2>1
  <2>3. k + 1 \in 1..Len(s)
    BY <2>1, <2>2
  <2>4. QED
    BY <2>1, <2>2, <2>3 DEF LiveIn
<1>3. QED
  BY <1>1, <1>2

(* ... nor does the death of an rclone *)
LEMMA KillShows ==
  ASSUME NEW s \in Seq(Entry), NEW i \in Ids, NEW j \in Ids, LiveIn(i, Kill(s, j))
  PROVE  LiveIn(i, s)
<1>1. Len(Kill(s, j)) = Len(s) /\ \A k \in 1..Len(s) : Kill(s, j)[k] = Dead(s[k], j)
  BY DEF Kill
<1>2. PICK k \in 1..Len(s) : Dead(s[k], j) = Own(i)
  BY <1>1 DEF LiveIn
<1>3. s[k] \in Entry
  BY <1>2
<1>4. Own(i).kind = "live"
  BY DEF Own
<1>5. s[k] = Own(i)
  BY <1>2, <1>3, <1>4 DEF Dead, Entry
<1>6. QED
  BY <1>5 DEF LiveIn

(* ... and a mount shows what it mounts. *)
LEMMA PushShows ==
  ASSUME NEW s \in Seq(Entry), NEW e \in Entry, NEW i \in Ids, LiveIn(i, <<e>> \o s)
  PROVE  e = Own(i) \/ LiveIn(i, s)
<1>1. PICK k \in 1..Len(<<e>> \o s) : (<<e>> \o s)[k] = Own(i)
  BY DEF LiveIn
<1>2. Len(<<e>> \o s) = Len(s) + 1 /\ Len(s) \in Nat
  OBVIOUS
<1>3. CASE k = 1
  BY <1>1, <1>3
<1>4. CASE k # 1
  <2>1. k - 1 \in 1..Len(s) /\ (<<e>> \o s)[k] = s[k - 1]
    BY <1>1, <1>2, <1>4
  <2>2. QED
    BY <1>1, <2>1 DEF LiveIn
<1>5. QED
  BY <1>3, <1>4

(* Nothing new is shown on a path. *)
NothingNew(path) ==
    /\ \A i \in Ids : LiveIn(i, fuse'[path]) => LiveIn(i, fuse[path])
    /\ fuse[path] = <<>> => fuse'[path] = <<>>

(* detach shows nothing new. *)
LEMMA DetachShows ==
  ASSUME Inv, NEW x, detach(x), NEW path \in Paths
  PROVE  NothingNew(path)
<1>1. fuse \in [Paths -> Seq(Entry)]
  BY DEF Inv, TypeOK
<1>2. fuse'[path] = IF path = x THEN Pop(fuse[path]) ELSE fuse[path]
  BY <1>1 DEF detach
<1>3. QED
  BY <1>1, <1>2, PopShows DEF NothingNew, Pop

(* The death of an rclone shows nothing new. *)
LEMMA KilledShows ==
  ASSUME Inv, NEW j \in Ids, NEW clean \in BOOLEAN, Killed(j, clean), NEW path \in Paths
  PROVE  NothingNew(path)
<1> DEFINE s == IF clean /\ path = Mountpoint(j) /\ OnTop(j, path) THEN Tail(fuse[path]) ELSE fuse[path]
<1>1. fuse[path] \in Seq(Entry)
  BY DEF Inv, TypeOK
<1>2. s = fuse[path] \/ (fuse[path] # <<>> /\ s = Pop(fuse[path]))
  BY DEF OnTop, Pop
<1>3. s \in Seq(Entry)
  BY <1>1, <1>2, PopType
<1>4. fuse'[path] = Kill(s, j)
  BY DEF Killed
<1> HIDE DEF s
<1>5. ASSUME NEW i \in Ids, LiveIn(i, fuse'[path]) PROVE LiveIn(i, fuse[path])
  BY <1>1, <1>2, <1>3, <1>4, <1>5, KillShows, PopShows
<1>6. ASSUME fuse[path] = <<>> PROVE fuse'[path] = <<>>
  <2>1. s = <<>> /\ Len(s) = 0
    BY <1>2, <1>6
  <2>2. QED
    BY <1>4, <2>1 DEF Kill
<1>7. QED
  BY <1>5, <1>6 DEF NothingNew

(* A bind shows on a path what the mount point shows. *)
LEMMA BindShows ==
  ASSUME Inv, NEW j \in Ids, NEW x \in Paths, BindTo(j, x), NEW path \in Paths
  PROVE  /\ path # x => NothingNew(path)
         /\ \A i \in Ids : LiveIn(i, fuse'[path]) =>
               \/ LiveIn(i, fuse[path])
               \/ fuse[Mountpoint(j)] # <<>> /\ Head(fuse[Mountpoint(j)]) = Own(i)
<1> DEFINE e == IF fuse[Mountpoint(j)] = <<>> THEN [id |-> j, kind |-> "plain"]
                ELSE Head(fuse[Mountpoint(j)])
<1>1. fuse \in [Paths -> Seq(Entry)] /\ Mountpoint(j) \in Paths
  BY UsersType DEF Inv, TypeOK
<1>2. e \in Entry
  <2>1. [id |-> j, kind |-> "plain"] \in Entry
    BY DEF Entry
  <2>2. fuse[Mountpoint(j)] \in Seq(Entry)
    BY <1>1
  <2>3. QED
    BY <2>1, <2>2
<1>3. fuse'[path] = IF path = x THEN <<e>> \o fuse[path] ELSE fuse[path]
  BY <1>1 DEF BindTo
<1>4. ASSUME NEW i \in Ids, e = Own(i)
      PROVE  fuse[Mountpoint(j)] # <<>> /\ Head(fuse[Mountpoint(j)]) = Own(i)
  BY <1>4 DEF Own
<1> HIDE DEF e
<1>5. fuse[path] \in Seq(Entry)
  BY <1>1
<1>6. CASE path = x
  <2>1. ASSUME NEW i \in Ids, LiveIn(i, <<e>> \o fuse[path])
        PROVE  e = Own(i) \/ LiveIn(i, fuse[path])
    BY <1>2, <1>5, <2>1, PushShows
  <2>2. QED
    BY <1>3, <1>4, <1>6, <2>1
<1>7. CASE path # x
  BY <1>3, <1>7 DEF NothingNew
<1>8. QED
  BY <1>6, <1>7

(* p binds the mount it has locked to a path. *)
Binds(p, path) == (Bind(p) \/ Rebind(p)) /\ path = proc[p].path /\ path \in dirs'

(* What a step newly shows on a path is what it binds there. *)
LEMMA MountsOfWork ==
  ASSUME Inv, NEW p \in Procs, Work(p), NEW path \in Paths
  PROVE  \/ NothingNew(path)
         \/ /\ Binds(p, path)
            /\ \A i \in Ids : LiveIn(i, fuse'[path]) =>
                  \/ LiveIn(i, fuse[path])
                  \/ /\ fuse[Mountpoint(proc[p].id)] # <<>>
                     /\ Head(fuse[Mountpoint(proc[p].id)]) = Own(i)
<1> USE DEF At
<1>0. UNCHANGED fuse => NothingNew(path)
  BY DEF NothingNew
<1>1. CASE \/ Fail(p) \/ Find(p) \/ NotFound(p) \/ Args(p) \/ Save(p) \/ Start(p) \/ Ready(p)
           \/ SetMounted(p) \/ AddUser(p) \/ Record(p) \/ Rmdir(p) \/ Forget(p) \/ Release(p)
           \/ Drain(p) \/ RmState(p) \/ DropUsers(p)
  BY <1>0, <1>1 DEF Fail, Find, NotFound, Args, Save, Start, Ready, SetMounted, AddUser, Record,
                    Rmdir, Forget, Release, Drain, RmState, DropUsers
<1>2. CASE Mount(p) \/ Remount(p) \/ Umount(p) \/ Unbind(p) \/ BindCheck(p)
  BY <1>0, <1>2, DetachShows DEF Mount, Remount, Umount, Unbind, BindCheck
<1>3. CASE StartFails(p) \/ StopOld(p) \/ Stop(p) \/ Gone(p)
  <2>1. proc[p].id \in Ids
    BY <1>3, HeldType DEF StartFails, StopOld, Stop, Gone, Locked
  <2>2. UNCHANGED fuse \/ \E clean \in BOOLEAN : Killed(proc[p].id, clean)
    BY <1>3 DEF StartFails, StopOld, Stop, Gone, stopScope
  <2>3. QED
    BY <1>0, <2>1, <2>2, KilledShows
<1>4. CASE Bind(p)
  <2>1. proc[p].id \in Ids /\ proc[p].path \in Paths
    BY <1>4, HeldType, PathType DEF Bind, Locked, Inv, Shape, WellFormed, ReconcilePcs
  <2>2. UNCHANGED fuse \/ (BindTo(proc[p].id, proc[p].path) /\ dirs' = dirs \cup {proc[p].path})
    BY <1>4 DEF Bind
  <2>3. QED
    BY <1>0, <1>4, <2>1, <2>2, BindShows DEF Binds
<1>5. CASE Rebind(p)
  <2>1. proc[p].id \in Ids /\ proc[p].path \in Paths
    BY <1>5, HeldType DEF Rebind, Locked, Inv, Shape, WellFormed
  <2>2. UNCHANGED fuse \/ (BindTo(proc[p].id, proc[p].path) /\ proc[p].path \in dirs')
    BY <1>5 DEF Rebind
  <2>3. QED
    BY <1>0, <1>5, <2>1, <2>2, BindShows DEF Binds
<1>6. CASE \E t \in Paths : Target(p, t)
  BY <1>0, <1>6, DetachShows DEF Target
<1>7. QED
  BY <1>1, <1>2, <1>3, <1>4, <1>5, <1>6 DEF Work

(* What the world does to the mounts of a node.  Only an rclone that comes *)
(* up shows itself, at its mount point.                                    *)
LEMMA MountsOfWorld ==
  ASSUME Inv, NEW j \in Ids, NEW path \in Paths,
         \/ RcloneMounts(j) \/ RcloneExits(j) \/ RcloneHangs(j) \/ RcloneResumes(j)
         \/ AdminUnmounts(j) \/ PodWrites(j) \/ RcloneUploads(j)
         \/ \E clean \in BOOLEAN : RcloneDies(j, clean)
  PROVE  \/ NothingNew(path)
         \/ /\ RcloneMounts(j) /\ path = Mountpoint(j)
            /\ \A i \in Ids : LiveIn(i, fuse'[path]) => LiveIn(i, fuse[path]) \/ i = j
<1>0. UNCHANGED fuse => NothingNew(path)
  BY DEF NothingNew
<1>1. CASE RcloneExits(j) \/ RcloneHangs(j) \/ RcloneResumes(j) \/ PodWrites(j) \/ RcloneUploads(j)
  BY <1>0, <1>1 DEF RcloneExits, RcloneHangs, RcloneResumes, PodWrites, RcloneUploads
<1>2. CASE AdminUnmounts(j)
  BY <1>2, DetachShows DEF AdminUnmounts
<1>3. CASE \E clean \in BOOLEAN : RcloneDies(j, clean)
  BY <1>3, KilledShows DEF RcloneDies
<1>4. CASE RcloneMounts(j)
  <2>1. fuse \in [Paths -> Seq(Entry)] /\ fuse[path] \in Seq(Entry)
    BY DEF Inv, TypeOK
  <2>2. fuse'[path] = IF path = Mountpoint(j) THEN <<Own(j)>> \o fuse[path] ELSE fuse[path]
    BY <1>4, <2>1 DEF RcloneMounts
  <2>3. Own(j) \in Entry /\ \A i \in Ids : Own(i) = Own(j) => i = j
    BY DEF Own, Entry
  <2>4. ASSUME NEW i \in Ids, LiveIn(i, <<Own(j)>> \o fuse[path])
        PROVE  Own(j) = Own(i) \/ LiveIn(i, fuse[path])
    BY <2>1, <2>3, <2>4, PushShows
  <2>5. CASE path = Mountpoint(j)
    BY <1>4, <2>2, <2>3, <2>4, <2>5
  <2>6. CASE path # Mountpoint(j)
    BY <1>0, <2>2, <2>6 DEF NothingNew
  <2>7. QED
    BY <2>5, <2>6
<1>5. QED
  BY <1>1, <1>2, <1>3, <1>4

(* A restart shows nothing new. *)
LEMMA CrashShows ==
  ASSUME Inv, Crash, NEW path \in Paths
  PROVE  NothingNew(path)
<1>1. fuse[path] \in Seq(Entry)
  BY DEF Inv, TypeOK
<1>2. PICK gone \in InPod :
        fuse' = [x \in Paths |->
                   [k \in 1..Len(fuse[x]) |->
                      LET e == fuse[x][k] IN IF e.id \in gone THEN Dead(e, e.id) ELSE e]]
  BY DEF Crash
<1>3. /\ Len(fuse'[path]) = Len(fuse[path])
      /\ \A k \in 1..Len(fuse[path]) :
            fuse'[path][k] = fuse[path][k] \/ fuse'[path][k] = Dead(fuse[path][k], fuse[path][k].id)
  BY <1>1, <1>2
<1>4. ASSUME NEW i \in Ids, LiveIn(i, fuse'[path]) PROVE LiveIn(i, fuse[path])
  <2>1. PICK k \in 1..Len(fuse[path]) : fuse'[path][k] = Own(i)
    BY <1>3, <1>4 DEF LiveIn
  <2>2. fuse[path][k] \in Entry
    BY <1>1
  <2>3. Own(i).kind = "live"
    BY DEF Own
  <2>4. fuse[path][k] = Own(i)
    BY <1>3, <2>1, <2>2, <2>3 DEF Dead, Entry
  <2>5. QED
    BY <2>4 DEF LiveIn
<1>5. ASSUME fuse[path] = <<>> PROVE fuse'[path] = <<>>
  BY <1>2, <1>5
<1>6. QED
  BY <1>4, <1>5 DEF NothingNew

(* A process that does something has something to do. *)
LEMMA WorkIsBusy ==
  ASSUME Inv, NEW p \in Procs, Work(p)
  PROVE  proc[p].pc # "idle"
<1> USE DEF At
<1>1. CASE Fail(p)
  BY <1>1 DEF Fail, FailsAt
<1>2. CASE \/ NotFound(p) \/ Start(p) \/ StartFails(p) \/ AddUser(p) \/ Record(p) \/ BindCheck(p)
           \/ Bind(p) \/ Rmdir(p) \/ Forget(p) \/ Stop(p) \/ RmState(p) \/ DropUsers(p)
  BY <1>2 DEF NotFound, Start, StartFails, AddUser, Record, BindCheck, Bind, Rmdir, Forget, Stop,
              RmState, DropUsers
<1>3. CASE \/ Find(p) \/ Args(p) \/ Mount(p) \/ Save(p) \/ Ready(p) \/ SetMounted(p) \/ Remount(p)
           \/ StopOld(p) \/ Unbind(p) \/ Release(p) \/ Drain(p) \/ Umount(p) \/ Gone(p) \/ Rebind(p)
           \/ \E t \in Paths : Target(p, t)
  BY <1>3 DEF Find, Args, Mount, Save, Ready, SetMounted, Remount, StopOld, Unbind, Release, Drain,
              Umount, Gone, Rebind, Target
<1>4. QED
  BY <1>1, <1>2, <1>3 DEF Work

=============================================================================
