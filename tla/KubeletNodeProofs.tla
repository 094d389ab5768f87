------------------------- MODULE KubeletNodeProofs -------------------------
(***************************************************************************)
(* What the node plugin keeps when kubelet calls it in its order: what a   *)
(* call is about, what it has found, and what kubelet was told, proved for *)
(* any number of volumes, mounts and calls.                                *)
(***************************************************************************)
EXTENDS KubeletNode, SharedMountsProofs

Published == Targets \cup Ephemerals

-----------------------------------------------------------------------------
(* The steps of KubeletNode *)

(* A step of neither the plugin nor kubelet: an rclone, a pod or a user of *)
(* the node.                                                               *)
Outside ==
    /\ UNCHANGED <<state, dirs, proc, told>>
    /\ faults' \subseteq faults
    /\ \A path \in Paths :
          \/ NothingNew(path)
          \/ \E j \in Ids : /\ path = Mountpoint(j)
                            /\ \A i \in Ids : LiveIn(i, fuse'[path]) => LiveIn(i, fuse[path]) \/ i = j

(* The kinds of steps. *)
LEMMA KubeletSteps ==
  ASSUME Inv, [KubeletNext]_vars
  PROVE  \/ \E p \in Procs : Work(p)
         \/ \E p \in Calls, i \in Ids : Locking(p, i)
         \/ \E i \in Ids : Reconcile(i)
         \/ \E p \in Calls, r \in Requests : Allowed(r[1], r[2]) /\ Call(p, r[1], r[2])
         \/ \E s \in Stagings : KubeletCleans(s)
         \/ \E p \in Calls : Timeout(p)
         \/ Crash
         \/ Outside
<1>1. ASSUME NEW j \in Ids,
             \/ RcloneMounts(j) \/ RcloneExits(j) \/ RcloneHangs(j) \/ RcloneResumes(j)
             \/ AdminUnmounts(j) \/ PodWrites(j) \/ RcloneUploads(j)
             \/ \E clean \in BOOLEAN : RcloneDies(j, clean)
      PROVE  Outside
  <2>1. UNCHANGED <<state, dirs, proc, told, faults>>
    BY <1>1 DEF RcloneMounts, RcloneExits, RcloneHangs, RcloneResumes, AdminUnmounts, PodWrites,
                RcloneUploads, RcloneDies
  <2>2. ASSUME NEW path \in Paths
        PROVE  \/ NothingNew(path)
               \/ /\ path = Mountpoint(j)
                  /\ \A i \in Ids : LiveIn(i, fuse'[path]) => LiveIn(i, fuse[path]) \/ i = j
    BY <1>1, MountsOfWorld
  <2>3. QED
    BY <2>1, <2>2 DEF Outside
<1>2. CASE Calm \/ UNCHANGED vars
  BY <1>2 DEF Calm, vars, Outside, NothingNew
<1>3. QED
  BY <1>1, <1>2 DEF KubeletNext, KubeletCalls, Plugin, World

(* Kubelet's order is an order, and Calm breaks nothing. *)
LEMMA KubeletKeeps == Inv /\ SharedInv /\ [KubeletNext]_vars => Inv' /\ SharedInv'
<1> SUFFICES ASSUME Inv, SharedInv, [KubeletNext]_vars PROVE Inv' /\ SharedInv'
  OBVIOUS
<1>1. CASE Calm
  <2>1. UNCHANGED <<state, dirs, fuse, rclone, proc, told, uploads>> /\ faults' = {}
    BY <1>1 DEF Calm
  <2>2. Inv'
    BY <2>1 DEF Inv, TypeOK, Shape, Safe, OneHolder, StateStays, LastUserUnmounts, Users, Mountpoint
  <2>3. SharedInv'
    BY <2>1 DEF SharedInv, ForItsRequest, Sharing, Users, Mountpoint
  <2>4. QED
    BY <2>2, <2>3
<1>2. CASE [Next]_vars
  BY <1>2, InvStep, SharedStep
<1>3. [Next]_vars \/ Calm
  <2>1. ASSUME NEW s \in Stagings, KubeletCleans(s) PROVE Next
    BY <2>1 DEF KubeletCleans, Next, Paths
  <2>2. ASSUME NEW r \in Requests, KubeletCalls(r[1], r[2]) PROVE Next
    BY <2>2 DEF KubeletCalls, Next
  <2>3. QED
    BY <2>1, <2>2 DEF KubeletNext, Next
<1>4. QED
  BY <1>1, <1>2, <1>3

(* A process that does not move keeps the state of the id it has locked. *)
LEMMA OthersStates ==
  ASSUME Inv, NEW p \in Procs, Work(p), NEW q \in Procs, q # p
  PROVE  /\ proc'[q] = proc[q]
         /\ proc[q].id \in Ids => state'[proc[q].id] = state[proc[q].id]
<1>1. OnlyMoves(p) /\ OnlyTouches(p)
  BY WorkFrame
<1>2. proc[q].id \in Ids => proc[q].id # proc[p].id
  BY ConstantsAssumption DEF Inv, Safe, OneHolder, Paths
<1>3. QED
  BY <1>1, <1>2 DEF OnlyMoves, OnlyTouches

(* Only a call of NodeStageVolume that finds its volume staged answers when *)
(* it takes a lock.                                                        *)
LEMMA AnswersOfLocking ==
  ASSUME Inv, NEW p \in Calls, NEW i \in Ids, Locking(p, i)
  PROVE  \/ told' = told
         \/ Answers(p) /\ LockMountOf(p, i) /\ proc[p].op = "stage"
<1>1. p \in Procs /\ p # Reconciler
  BY ConstantsAssumption DEF Procs
<1>2. CASE SkipMount(p, i)
  BY <1>1, <1>2, SkipMoves
<1>3. CASE Acquire(p, i)
  BY <1>1, <1>3, AcquireMoves, FailureIsSilent
<1>4. CASE LockMountOf(p, i)
  BY <1>1, <1>4, LockMountOfMoves, SuccessAnswers
<1>5. QED
  BY <1>2, <1>3, <1>4 DEF Locking

-----------------------------------------------------------------------------
(* One call per volume *)

(* Kubelet waits for every call, so that it has one call for a path at a   *)
(* time, and does not know yet what will come of it.                       *)
Orderly ==
    /\ "timeout" \notin faults
    /\ \A p \in Procs : proc[p].awaited
    /\ \A p, q \in Calls :
          proc[p].pc # "idle" /\ proc[q].pc # "idle" /\ proc[p].path = proc[q].path => p = q
    /\ \A p \in Calls : proc[p].pc # "idle" => told[proc[p].path] = "unsure"

(* What is told of the paths of other calls stays. *)
LEMMA OrderlyMove ==
  ASSUME Inv, Orderly, faults' = faults, NEW p \in Procs, OnlyMoves(p),
         proc[p].pc # "idle",
         \/ proc'[p] = Idle
         \/ /\ proc'[p].awaited = proc[p].awaited
            /\ p # Reconciler => proc'[p].path = proc[p].path,
         told' = told \/ Answers(p)
  PROVE  Orderly'
<1>1. Idle.awaited /\ Idle.pc = "idle"
  BY DEF Idle
<1>2. \A q \in Procs : proc'[q].awaited
  BY <1>1 DEF Orderly, OnlyMoves
<1>3. ASSUME NEW q \in Calls, proc'[q].pc # "idle"
      PROVE  /\ proc[q].pc # "idle" /\ proc'[q].path = proc[q].path
             /\ q = p => told' = told
  <2>1. q \in Procs /\ q # Reconciler
    BY ConstantsAssumption DEF Procs
  <2>2. CASE q = p
    BY <1>1, <1>3, <2>1, <2>2 DEF Answers
  <2>3. CASE q # p
    BY <1>3, <2>1, <2>3 DEF OnlyMoves
  <2>4. QED
    BY <2>2, <2>3
<1>4. ASSUME NEW q \in Calls, proc'[q].pc # "idle" PROVE told'[proc'[q].path] = "unsure"
  <2>1. proc[q].pc # "idle" /\ proc'[q].path = proc[q].path /\ told[proc[q].path] = "unsure"
    BY <1>3, <1>4 DEF Orderly
  <2>2. CASE told' = told
    BY <2>1, <2>2
  <2>3. CASE told' # told
    <3>1. q # p /\ Answers(p) /\ p \in Calls
      BY <1>3, <1>4, <2>3 DEF Answers, Procs
    <3>2. proc[q].path # proc[p].path
      BY <2>1, <3>1 DEF Orderly, Answers
    <3>3. proc[q].path \in Paths
      BY <2>1, PathType, ConstantsAssumption DEF Procs
    <3>4. QED
      BY <2>1, <3>1, <3>2, <3>3 DEF Answers, Inv, TypeOK
  <2>4. QED
    BY <2>2, <2>3
<1>5. QED
  BY <1>2, <1>3, <1>4 DEF Orderly

(* Kubelet's calls stay in order. *)
LEMMA OrderlyStep == Inv /\ Orderly /\ [KubeletNext]_vars => Orderly'
<1> SUFFICES ASSUME Inv, Orderly, [KubeletNext]_vars PROVE Orderly'
  OBVIOUS
<1>1. ASSUME NEW p \in Procs, Work(p) PROVE Orderly'
  <2>1. told' = told \/ Answers(p)
    BY <1>1, AnswersOfWork
  <2>2. proc[p].pc # "idle" /\ OnlyMoves(p) /\ faults' = faults
    BY <1>1, WorkIsBusy, WorkFrame
  <2>3. \/ proc'[p] = Idle
        \/ /\ proc'[p].awaited = proc[p].awaited
           /\ p # Reconciler => proc'[p].path = proc[p].path
    BY <1>1, WorkFrame DEF Continues
  <2>4. QED
    BY <2>1, <2>2, <2>3, OrderlyMove
<1>2. ASSUME NEW p \in Calls, NEW i \in Ids, Locking(p, i) PROVE Orderly'
  <2>1. p \in Procs /\ (told' = told \/ Answers(p))
    BY <1>2, AnswersOfLocking DEF Procs
  <2>2. /\ OnlyMoves(p) /\ proc[p].pc # "idle" /\ faults' = faults
        /\ \/ proc'[p] = Idle
           \/ proc'[p].awaited = proc[p].awaited /\ proc'[p].path = proc[p].path
    BY <1>2, <2>1, LockingFrame
  <2>3. QED
    BY <2>1, <2>2, OrderlyMove
<1>3. ASSUME NEW i \in Ids, Reconcile(i) PROVE Orderly'
  <2>1. /\ OnlyMoves(Reconciler) /\ proc'[Reconciler].awaited /\ told' = told /\ faults' = faults
    BY <1>3, ReconcileFrame
  <2>2. \A q \in Calls : proc'[q] = proc[q]
    BY <2>1, ConstantsAssumption DEF OnlyMoves, Procs
  <2>3. QED
    BY <2>1, <2>2 DEF Orderly, OnlyMoves
<1>4. ASSUME NEW p \in Calls, NEW r \in Requests, Allowed(r[1], r[2]), Call(p, r[1], r[2])
      PROVE  Orderly'
  <2>1. /\ OnlyMoves(p) /\ proc[p].pc = "idle" /\ proc'[p].path = r[2] /\ proc'[p].awaited
        /\ r[2] \in Paths /\ faults' = faults
    BY <1>4, CallFrame
  <2>2. told' = [told EXCEPT ![r[2]] = "unsure"]
    BY <1>4 DEF Call
  <2>3. \A q \in Calls : q \in Procs /\ (q # p => proc'[q] = proc[q])
    BY <2>1 DEF OnlyMoves, Procs
  <2>4. \A q \in Calls : proc[q].path # r[2]
    BY <1>4, <2>3 DEF Allowed, Awaits, Orderly
  <2>5. told'[r[2]] = "unsure" /\ \A x \in Paths : told[x] = "unsure" => told'[x] = "unsure"
    BY <2>1, <2>2 DEF Inv, TypeOK
  <2>6. \A q \in Calls : q # p /\ proc[q].pc # "idle" => proc[q].path \in Paths
    BY <2>3, PathType, ConstantsAssumption
  <2>7. \A q \in Calls : proc'[q].pc # "idle" => told'[proc'[q].path] = "unsure"
    BY <2>1, <2>3, <2>5, <2>6 DEF Orderly
  <2>8. \A q \in Procs : proc'[q].awaited
    BY <2>1 DEF Orderly, OnlyMoves
  <2>9. ASSUME NEW a \in Calls, NEW b \in Calls, proc'[a].pc # "idle", proc'[b].pc # "idle",
               proc'[a].path = proc'[b].path
        PROVE  a = b
    BY <2>1, <2>3, <2>4, <2>9 DEF Orderly
  <2>10. QED
    BY <2>1, <2>7, <2>8, <2>9 DEF Orderly
<1>5. ASSUME Crash PROVE Orderly'
  <2>1. (\A q \in Procs : proc'[q] = Idle) /\ Calls \subseteq Procs /\ faults' = faults
    BY <1>5 DEF Crash, Procs
  <2>2. Idle.awaited /\ Idle.pc = "idle"
    BY DEF Idle
  <2>3. QED
    BY <2>1, <2>2 DEF Orderly
<1>6. CASE Outside \/ \E s \in Stagings : KubeletCleans(s)
  BY <1>6 DEF Outside, KubeletCleans, KubeletRemoves, Orderly
<1>7. CASE \E p \in Calls : Timeout(p)
  BY <1>7 DEF Timeout, Orderly
<1>8. QED
  BY <1>1, <1>2, <1>3, <1>4, <1>5, <1>6, <1>7, KubeletSteps

-----------------------------------------------------------------------------
(* What a call is about *)

JoinPcs == {"args", "acquire", "mount", "save", "start", "mountwait", "setmounted",
            "adduser", "remount", "stopold", "remountwait", "readduser"}

BindPcs == {"record", "bindcheck", "bind"}

(* A label of a handler tells which call it is, and for what kind of path. *)
Handles(p) ==
    LET r == proc[p] IN
    /\ r.pc \in JoinPcs => r.path \in Stagings \cup Ephemerals
    /\ r.pc \in BindPcs => r.op = "publish"
    /\ r.pc \in {"find", "lockof"} /\ r.op = "publish" => r.path \in Targets
    /\ r.pc \in Either => r.op = "unpublish"
    /\ r.pc \in Unmounting => r.op \in {"unstage", "unpublish"}

Handling == \A p \in Calls : Handles(p)

(* An idle process is in no handler. *)
LEMMA IdleHandles == ASSUME NEW p \in Procs, proc'[p] = Idle PROVE Handles(p)'
<1>1. proc'[p].pc = "idle"
  BY DEF Idle
<1>2. QED
  BY <1>1 DEF Handles, JoinPcs, BindPcs, Unmounting, Either

(* The labels keep telling what a call is about. *)
LEMMA HandlingStep == Inv /\ SharedInv /\ Handling /\ [KubeletNext]_vars => Handling'
<1> SUFFICES ASSUME Inv, SharedInv, Handling, [KubeletNext]_vars, NEW q \in Calls PROVE Handles(q)'
  BY DEF Handling
<1>1. q \in Procs /\ q # Reconciler /\ Handles(q) /\ ForItsRequest(q)
  BY ConstantsAssumption DEF Procs, Handling, SharedInv
<1>2. proc'[q] = proc[q] => Handles(q)'
  BY <1>1 DEF Handles
<1>3. ASSUME NEW p \in Procs, Work(p) PROVE Handles(q)'
  <2>1. CASE q # p
    BY <1>1, <1>2, <1>3, <2>1, OthersStates
  <2>2. CASE q = p /\ proc'[q] = Idle
    BY <1>1, <2>2, IdleHandles
  <2>3. CASE q = p /\ CallMoves(q) /\ Continues(q)
    <3>1. /\ proc'[q].op = proc[q].op /\ proc'[q].path = proc[q].path
          /\ Request(proc[q])
      BY <1>1, <2>3, PathType DEF Continues
    <3>2. \/ proc'[q].pc \in JoinPcs /\ proc[q].pc \in JoinPcs
          \/ proc'[q].pc = "args" /\ proc[q].op = "stage"
          \/ proc'[q].pc = "record" /\ proc[q].pc \in JoinPcs /\ proc[q].op # "stage"
          \/ proc'[q].pc \in BindPcs /\ proc[q].pc \in BindPcs
          \/ proc'[q].pc = "unbind" /\ proc[q].op = "unpublish"
          \/ proc'[q].pc = "rmdir" /\ proc[q].pc = "unbind"
          \/ proc'[q].pc \in {"release", "forget"}
          \/ proc'[q].pc = "drain" /\ proc[q].pc = "release"
          \/ proc'[q].pc \in Unmounting /\ proc[q].pc \in Unmounting
          \/ proc'[q].pc = "lockof" /\ proc[q].pc = "find"
      BY <2>3, ZenonT(40)
         DEF CallMoves, JoinPcs, BindPcs, Unmounting, At, Find, NotFound, Args, Mount, Save, Start,
           Ready, SetMounted, AddUser, Remount, StopOld, Record, BindCheck, Unbind, Rmdir, Release,
           Drain, Umount, Stop
    <3>3. proc[q].pc \in JoinPcs => proc[q].op \in {"stage", "publish"}
      BY <1>1 DEF ForItsRequest, JoinPcs
    <3>4. proc[q].pc = "release" => proc[q].op \in {"unstage", "unpublish"}
      BY <1>1 DEF ForItsRequest
    <3>5. QED
      BY <1>1, <3>1, <3>2, <3>3, <3>4 DEF Handles, JoinPcs, BindPcs, Unmounting, Either, Request
  <2>4. QED
    BY <1>1, <1>3, <2>1, <2>2, <2>3, MovesOfCall
<1>4. ASSUME NEW p \in Calls, NEW i \in Ids, Locking(p, i) PROVE Handles(q)'
  <2>1. p \in Procs /\ OnlyMoves(p)
    BY <1>4, LockingFrame DEF Procs
  <2>2. CASE q # p
    BY <1>1, <1>2, <2>1, <2>2 DEF OnlyMoves
  <2>3. CASE q = p /\ proc'[q] = Idle
    BY <1>1, <2>3, IdleHandles
  <2>4. CASE q = p /\ SkipMount(p, i)
    BY <1>1, <2>4, SkipMoves DEF Continues, Handles, JoinPcs, BindPcs, Unmounting, Either
  <2>5. CASE q = p /\ Acquire(p, i) /\ proc'[q] # Idle
    <3>1. /\ proc[q].pc = "acquire" /\ proc'[q].path = proc[q].path /\ proc'[q].op = proc[q].op
          /\ proc'[q].pc \in {"mount", "adduser", "remount"}
      BY <2>1, <2>5, AcquireMoves DEF Locks
    <3>2. QED
      BY <1>1, <3>1 DEF Handles, JoinPcs, BindPcs, Unmounting, Either
  <2>6. CASE q = p /\ LockMountOf(p, i) /\ proc'[q] # Idle
    <3>1. /\ proc'[q].op = proc[q].op
          /\ \/ proc'[q].pc = "release"
             \/ proc'[q].pc = "unbind" /\ proc[q].op = "unpublish"
             \/ proc'[q].pc = "record" /\ proc[q].op = "publish"
      BY <2>1, <2>6, LockMountOfMoves DEF Locks
    <3>2. QED
      BY <3>1 DEF Handles, JoinPcs, BindPcs, Unmounting, Either
  <2>7. QED
    BY <1>4, <2>2, <2>3, <2>4, <2>5, <2>6 DEF Locking
<1>5. ASSUME NEW i \in Ids, Reconcile(i) PROVE Handles(q)'
  BY <1>1, <1>2, <1>5, ReconcileFrame DEF OnlyMoves
<1>6. ASSUME NEW p \in Calls, NEW r \in Requests, Call(p, r[1], r[2]) PROVE Handles(q)'
  <2>1. /\ OnlyMoves(p) /\ proc'[p].op = r[1] /\ proc'[p].path = r[2]
        /\ proc'[p].pc = IF r[1] = "publish" /\ r[2] \in Ephemerals THEN "args" ELSE "find"
    BY <1>6, CallFrame
  <2>2. r[1] = "publish" => r[2] \in Targets \cup Ephemerals
    BY DEF Requests
  <2>3. CASE q # p
    BY <1>1, <1>2, <2>1, <2>3 DEF OnlyMoves
  <2>4. CASE q = p
    BY <2>1, <2>2, <2>4 DEF Handles, JoinPcs, BindPcs, Unmounting, Either
  <2>5. QED
    BY <2>3, <2>4
<1>7. ASSUME NEW p \in Calls, Timeout(p) PROVE Handles(q)'
  <2>1. proc'[q] = proc[q] \/ proc'[q] = [proc[q] EXCEPT !.awaited = FALSE]
    BY <1>1, <1>7 DEF Timeout, Inv, TypeOK
  <2>2. proc'[q].pc = proc[q].pc /\ proc'[q].op = proc[q].op /\ proc'[q].path = proc[q].path
    BY <1>1, <2>1 DEF Inv, TypeOK, Process
  <2>3. QED
    BY <1>1, <2>2 DEF Handles
<1>8. ASSUME Crash PROVE Handles(q)'
  BY <1>1, <1>8, IdleHandles DEF Crash
<1>9. CASE Outside \/ \E s \in Stagings : KubeletCleans(s)
  BY <1>2, <1>9 DEF Outside, KubeletCleans, KubeletRemoves
<1>10. QED
  BY <1>3, <1>4, <1>5, <1>6, <1>7, <1>8, <1>9, KubeletSteps

-----------------------------------------------------------------------------
(* What the state files tell *)

(* Where 4.0.0 mounted an id. *)
LegacyAt(i) == {Legacy[j] : j \in DOMAIN Legacy \cap {i}}

(* An id is mounted at its own mount point, or where 4.0.0 mounted it.     *)
(* Volumes are staged or ephemeral users, and published targets.           *)
Sites ==
    \A i \in Ids : /\ state[i].at \in {i} \cup LegacyAt(i)
                   /\ state[i].users \subseteq Stagings \cup Ephemerals
                   /\ state[i].targets \subseteq Published

(* Only a step under a lock writes a state file. *)
LEMMA StatesOfSteps ==
  ASSUME Inv, [KubeletNext]_vars
  PROVE  (\E p \in Procs : Work(p)) \/ UNCHANGED state
<1>1. ASSUME NEW p \in Calls, NEW i \in Ids, Locking(p, i) PROVE UNCHANGED state
  BY <1>1, LockingFrame DEF Procs
<1>2. ASSUME NEW i \in Ids, Reconcile(i) PROVE UNCHANGED state
  BY <1>2, ReconcileFrame
<1>3. ASSUME NEW p \in Calls, NEW r \in Requests, Call(p, r[1], r[2]) PROVE UNCHANGED state
  BY <1>3, CallFrame
<1>4. QED
  BY <1>1, <1>2, <1>3, KubeletSteps DEF KubeletCleans, KubeletRemoves, Timeout, Crash, Outside

(* The mount point and the users of a mount. *)
LEMMA SitesUsers ==
  ASSUME Sites, NEW i \in Ids
  PROVE  /\ Mountpoint(i) = i \/ Mountpoint(i) \in Stagings
         /\ Mountpoint(i) # i => i \in DOMAIN Legacy /\ Mountpoint(i) = Legacy[i]
         /\ Users(i) \subseteq Stagings \cup Ephemerals
  BY ConstantsAssumption DEF Sites, LegacyAt, Users, Mountpoint

(* A call adds paths of the right kind. *)
LEMMA SitesStep == Inv /\ Handling /\ Sites /\ [KubeletNext]_vars => Sites'
<1> SUFFICES ASSUME Inv, Handling, Sites, [KubeletNext]_vars PROVE Sites'
  OBVIOUS
<1>1. ASSUME NEW p \in Procs, Work(p), NEW i \in Ids
      PROVE  /\ state'[i].at \in {i} \cup LegacyAt(i)
             /\ state'[i].users \subseteq Stagings \cup Ephemerals
             /\ state'[i].targets \subseteq Published
  <2>1. /\ state[i].at \in {i} \cup LegacyAt(i) /\ state[i].targets \subseteq Published
        /\ state[i].users \subseteq Stagings \cup Ephemerals
        /\ Users(i) \subseteq Stagings \cup Ephemerals
    BY SitesUsers DEF Sites
  <2>2. AddUser(p) => proc[p].path \in Stagings \cup Ephemerals
    <3>1. ASSUME AddUser(p) PROVE p \in Calls /\ proc[p].pc \in JoinPcs
      BY <3>1 DEF AddUser, JoinPcs, Inv, Shape, WellFormed, ReconcilePcs, Procs
    <3>2. QED
      BY <3>1 DEF Handling, Handles
  <2>3. Record(p) => proc[p].path \in Published
    <3>1. ASSUME Record(p) PROVE p \in Calls /\ proc[p].pc \in BindPcs /\ Request(proc[p])
      BY <3>1, PathType DEF Record, At, BindPcs, Inv, Shape, WellFormed, ReconcilePcs, Procs
    <3>2. QED
      BY <3>1 DEF Handling, Handles, Request, Published
  <2>4. CASE i # proc[p].id
    BY <1>1, <2>1, <2>4, WorkFrame DEF OnlyTouches
  <2>5. CASE i = proc[p].id
    <3>1. state'[i].at \in {state[i].at, i}
      BY <1>1, <2>5, StateOfWork DEF FileStays, FileBegins, FileChanges
    <3>2. \/ state'[i].users \subseteq state[i].users \cup Users(i)
          \/ AddUser(p) /\ state'[i].users = Users(i) \cup {proc[p].path}
      BY <1>1, <2>5, StateOfWork DEF FileStays, FileBegins, FileChanges
    <3>3. \/ state'[i].targets \subseteq state[i].targets
          \/ Record(p) /\ state'[i].targets = state[i].targets \cup {proc[p].path}
      BY <1>1, <2>5, StateOfWork DEF FileStays, FileBegins, FileChanges
    <3>4. QED
      BY <2>1, <2>2, <2>3, <3>1, <3>2, <3>3
  <2>6. QED
    BY <2>4, <2>5
<1>2. CASE UNCHANGED state
  BY <1>2 DEF Sites
<1>3. QED
  BY <1>1, <1>2, StatesOfSteps DEF Sites

-----------------------------------------------------------------------------
(* What a call has found *)

Past == {"release", "forget"} \cup Unmounting

(* The user a target is published for. *)
UserOf(t) == IF t \in Targets THEN StagingOf[t] ELSE t

(* What lockMountOf found under the lock is still so when the call works   *)
(* on it: a volume that leaves was there, and one that is published has a  *)
(* user, and is recorded before it is bound.                               *)
Finds(p) ==
    LET path == proc[p].path
        i    == proc[p].id
    IN
    /\ proc[p].op = "unstage" /\ proc[p].pc \in Past => path \in Users(i)
    /\ proc[p].op = "unpublish" /\ proc[p].pc \in {"unbind", "rmdir", "forget"} /\ i # NoId
          => Uses(i, path)
    /\ proc[p].op = "unpublish" /\ proc[p].pc \in {"release"} \cup Unmounting => path \in Users(i)
    /\ proc[p].pc \in BindPcs => UserOf(path) \in Users(i)
    /\ proc[p].pc \in {"bindcheck", "bind"} => path \in state[i].targets

Found == \A p \in Calls : Finds(p)

(* A call that looks for a mount, or sets one up, has yet to find it. *)
LEMMA NothingFound ==
  ASSUME NEW p \in Procs, proc'[p].pc \in Unlocked \cup JoinPcs PROVE Finds(p)'
  BY DEF Finds, Past, Unmounting, BindPcs, Unlocked, JoinPcs

(* A call goes on with what it has found. *)
LEMMA WorkFinds ==
  ASSUME Inv, SharedInv, Handling, Sites, NEW p \in Calls, Finds(p), Work(p)
  PROVE  Finds(p)'
<1> USE DEF At
<1>1. p \in Procs /\ p # Reconciler /\ Handles(p) /\ ForItsRequest(p)
  BY ConstantsAssumption DEF Procs, Handling, SharedInv
<1>2. CASE proc'[p] = Idle
  BY <1>1, <1>2, NothingFound DEF Idle, Unlocked
<1>3. CASE CallMoves(p) /\ Continues(p)
  <2>0. PICK i, path : i = proc[p].id /\ path = proc[p].path
    OBVIOUS
  <2>1. /\ proc'[p].op = proc[p].op /\ proc'[p].path = proc[p].path /\ proc'[p].id = proc[p].id
        /\ Request(proc[p])
    BY <1>1, <1>3, PathType DEF Continues
  <2>2. CASE proc'[p].pc \in Unlocked \cup JoinPcs
    BY <1>1, <2>2, NothingFound
  <2>3. CASE NotFound(p) /\ proc'[p].pc = "unbind"
    <3>1. i = NoId
      BY <1>1, <2>0, <2>3, LockedIds DEF NotFound, Unlocked
    <3>2. QED
      BY <2>0, <2>1, <2>3, <3>1 DEF Finds, Past, Unmounting, BindPcs
  <2>4. CASE Unbind(p) /\ proc'[p].pc = "rmdir"
    BY <2>0, <2>1, <2>4 DEF Unbind, Finds, Past, Unmounting, BindPcs, Uses, Users, Mountpoint
  <2>5. CASE /\ Rmdir(p) /\ i # NoId
             /\ \/ path \in Users(i) /\ proc'[p].pc = "release"
                \/ path \notin Users(i) /\ proc'[p].pc = "forget"
    <3>1. UNCHANGED state /\ proc[p].pc = "rmdir" /\ proc[p].op = "unpublish"
      BY <1>1, <2>5 DEF Rmdir, Handles, Either
    <3>2. QED
      BY <2>0, <2>1, <2>5, <3>1 DEF Finds, Past, Unmounting, BindPcs, Uses, Users, Mountpoint
  <2>6. CASE Release(p) /\ proc'[p].pc \in {"drain", "forget"}
    <3>1. UNCHANGED state /\ proc[p].pc = "release" /\ state[i].saved
      BY <1>1, <2>0, <2>6, HeldType DEF Release, Locked
    <3>2. QED
      BY <2>0, <2>1, <2>6, <3>1 DEF Finds, Past, Unmounting, BindPcs, Uses, Users, Mountpoint
  <2>7. CASE (Drain(p) \/ Umount(p) \/ Stop(p)) /\ proc'[p].pc \in Unmounting
    <3>1. UNCHANGED state /\ proc[p].pc \in Unmounting
      BY <2>7 DEF Drain, Umount, Stop, Unmounting
    <3>2. QED
      BY <2>0, <2>1, <2>7, <3>1 DEF Finds, Past, Unmounting, BindPcs, Uses, Users, Mountpoint
  <2>8. CASE AddUser(p) /\ proc[p].op # "stage" /\ proc'[p].pc = "record"
    <3>1. path \in Ephemerals
      BY <1>1, <2>0, <2>1, <2>8, ConstantsAssumption DEF AddUser, Handles, JoinPcs, ForItsRequest, Request
    <3>2. UserOf(path) = path
      BY <3>1, ConstantsAssumption DEF UserOf
    <3>3. state'[i].users = Users(i) \cup {path}
      BY <1>1, <2>0, <2>8, AddUserSaves
    <3>4. path \in Users(i)'
      BY <3>3 DEF Users
    <3>5. QED
      BY <2>0, <2>1, <2>8, <3>2, <3>4 DEF Finds, Past, Unmounting, BindPcs
  <2>9. CASE Record(p) /\ live(Mountpoint(i)) /\ proc'[p].pc = "bindcheck"
    <3>1. /\ state'[i].users = Users(i) /\ state'[i].targets = state[i].targets \cup {path}
          /\ UserOf(path) \in Users(i)
      BY <1>1, <2>0, <2>9, RecordSaves DEF Record, Finds, BindPcs
    <3>2. UserOf(path) \in Users(i)'
      BY <3>1 DEF Users
    <3>3. QED
      BY <2>0, <2>1, <2>9, <3>1, <3>2 DEF Finds, Past, Unmounting, BindPcs
  <2>10. CASE BindCheck(p) /\ proc'[p].pc = "bind"
    BY <2>0, <2>1, <2>10 DEF BindCheck, Finds, Past, Unmounting, BindPcs, Users, Mountpoint
  <2>11. QED
    BY <1>3, <2>0, <2>2, <2>3, <2>4, <2>5, <2>6, <2>7, <2>8, <2>9, <2>10
       DEF CallMoves, JoinPcs, Unlocked, Unmounting
<1>4. QED
  BY <1>1, <1>2, <1>3, MovesOfCall

(* What a call has found under the lock stays. *)
LEMMA FoundStep ==
  Inv /\ SharedInv /\ Handling /\ Sites /\ Found /\ [KubeletNext]_vars => Found'
<1> SUFFICES ASSUME Inv, SharedInv, Handling, Sites, Found, [KubeletNext]_vars, NEW q \in Calls
             PROVE  Finds(q)'
  BY DEF Found
<1>1. q \in Procs /\ q # Reconciler /\ Finds(q) /\ Handles(q) /\ proc[q] \in Process
  BY ConstantsAssumption DEF Procs, Found, Handling, Inv, TypeOK
<1>2. ASSUME /\ proc'[q].pc = proc[q].pc /\ proc'[q].op = proc[q].op
             /\ proc'[q].path = proc[q].path /\ proc'[q].id = proc[q].id,
             proc[q].id \in Ids => state'[proc[q].id] = state[proc[q].id]
      PROVE  Finds(q)'
  <2>1. CASE proc[q].id \in Ids
    BY <1>1, <1>2, <2>1 DEF Finds, Uses, Users, Mountpoint
  <2>2. CASE proc[q].id \notin Ids
    <3>1. proc[q].id = NoId /\ proc[q].pc \notin Locked
      BY <1>1, <2>2, LockedIds DEF Process
    <3>2. QED
      BY <1>2, <3>1 DEF Finds, Past, Unmounting, BindPcs, Locked
  <2>3. QED
    BY <2>1, <2>2
<1>3. ASSUME NEW p \in Procs, Work(p) PROVE Finds(q)'
  <2>1. CASE q # p
    BY <1>1, <1>2, <1>3, <2>1, OthersStates
  <2>2. CASE q = p
    BY <1>1, <1>3, <2>2, WorkFinds
  <2>3. QED
    BY <2>1, <2>2
<1>4. ASSUME NEW p \in Calls, NEW i \in Ids, Locking(p, i) PROVE Finds(q)'
  <2>1. p \in Procs /\ OnlyMoves(p) /\ UNCHANGED state
    BY <1>4, LockingFrame DEF Procs
  <2>2. CASE q # p
    BY <1>1, <1>2, <2>1, <2>2 DEF OnlyMoves
  <2>3. CASE q = p /\ proc'[q] = Idle
    BY <1>1, <2>3, NothingFound DEF Idle, Unlocked
  <2>4. CASE q = p /\ SkipMount(p, i)
    BY <1>1, <2>4, SkipMoves, NothingFound DEF Unlocked
  <2>5. CASE q = p /\ Acquire(p, i) /\ proc'[q] # Idle
    <3>1. proc'[q].pc \in {"mount", "adduser", "remount"}
      BY <2>1, <2>5, AcquireMoves
    <3>2. QED
      BY <1>1, <3>1, NothingFound DEF JoinPcs
  <2>6. CASE q = p /\ LockMountOf(p, i) /\ proc'[q] # Idle
    <3>1. /\ proc'[q].op = proc[q].op /\ proc'[q].path = proc[q].path /\ proc'[q].id = i
          /\ Uses(i, Key(q)) /\ proc[q].pc = "lockof"
          /\ \/ proc'[q].pc = "release" /\ proc[q].op = "unstage"
             \/ proc'[q].pc = "unbind" /\ proc[q].op = "unpublish"
             \/ proc'[q].pc = "record" /\ proc[q].op = "publish"
      BY <2>1, <2>6, LockMountOfMoves DEF Locks
    <3>2. Users(i)' = Users(i) /\ \A x : Uses(i, x)' <=> Uses(i, x)
      BY <2>1, <3>1 DEF Uses, Users, Mountpoint
    <3>3. /\ Request(proc[q]) /\ state[i].targets \subseteq Published
      BY <1>1, <3>1, PathType DEF Sites
    <3>4. CASE proc'[q].pc = "release"
      <4>1. proc[q].path \in Stagings /\ Uses(i, proc[q].path)
        BY <3>1, <3>3, <3>4 DEF Request, Key
      <4>2. proc[q].path \in Users(i)
        BY <3>3, <4>1, ConstantsAssumption DEF Uses, Published
      <4>3. QED
        BY <3>1, <3>2, <3>4, <4>2 DEF Finds, Past, Unmounting, BindPcs
    <3>5. CASE proc'[q].pc = "unbind"
      BY <3>1, <3>2, <3>5 DEF Finds, Past, Unmounting, BindPcs, Key
    <3>6. CASE proc'[q].pc = "record"
      <4>1. proc[q].path \in Targets /\ Uses(i, StagingOf[proc[q].path])
        BY <1>1, <3>1, <3>6 DEF Handles, Key
      <4>2. StagingOf[proc[q].path] \in Users(i)
        BY <3>3, <4>1, ConstantsAssumption DEF Uses, Published
      <4>3. QED
        BY <3>1, <3>2, <3>6, <4>1, <4>2 DEF Finds, Past, Unmounting, BindPcs, UserOf
    <3>7. QED
      BY <3>1, <3>4, <3>5, <3>6
  <2>7. QED
    BY <1>4, <2>2, <2>3, <2>4, <2>5, <2>6 DEF Locking
<1>5. ASSUME NEW i \in Ids, Reconcile(i) PROVE Finds(q)'
  BY <1>1, <1>2, <1>5, ReconcileFrame DEF OnlyMoves
<1>6. ASSUME NEW p \in Calls, NEW r \in Requests, Call(p, r[1], r[2]) PROVE Finds(q)'
  <2>1. OnlyMoves(p) /\ UNCHANGED state /\ proc'[p].pc \in {"args", "find"}
    BY <1>6, CallFrame
  <2>2. CASE q # p
    BY <1>1, <1>2, <2>1, <2>2 DEF OnlyMoves
  <2>3. CASE q = p
    BY <1>1, <2>1, <2>3, NothingFound DEF Unlocked
  <2>4. QED
    BY <2>2, <2>3
<1>7. ASSUME NEW p \in Calls, Timeout(p) PROVE Finds(q)'
  <2>1. UNCHANGED state /\ (proc'[q] = proc[q] \/ proc'[q] = [proc[q] EXCEPT !.awaited = FALSE])
    BY <1>1, <1>7 DEF Timeout, Inv, TypeOK
  <2>2. /\ proc'[q].pc = proc[q].pc /\ proc'[q].op = proc[q].op
        /\ proc'[q].path = proc[q].path /\ proc'[q].id = proc[q].id
    BY <1>1, <2>1 DEF Process
  <2>3. QED
    BY <1>2, <2>1, <2>2
<1>8. ASSUME Crash PROVE Finds(q)'
  BY <1>1, <1>8, NothingFound DEF Crash, Idle, Unlocked
<1>9. CASE Outside \/ \E s \in Stagings : KubeletCleans(s)
  BY <1>2, <1>9 DEF Outside, KubeletCleans, KubeletRemoves
<1>10. QED
  BY <1>3, <1>4, <1>5, <1>6, <1>7, <1>8, <1>9, KubeletSteps

-----------------------------------------------------------------------------
(* Targets that are unpublished *)

(* Each kind of directory is made and removed by steps of its own. *)
LEMMA DirsByKind ==
  ASSUME Inv, Handling, NEW p \in Procs, Work(p)
  PROVE  /\ \A t \in Published :
               /\ t \in dirs' \ dirs => Bind(p) /\ t = proc[p].path
               /\ t \in dirs \ dirs' => Rmdir(p) /\ t = proc[p].path /\ fuse[t] = <<>>
         /\ dirs \cap Stagings \subseteq dirs'
         /\ \A i \in Ids : i \in dirs \ dirs' => Stop(p) /\ i = proc[p].id
<1> USE DEF At
<1>1. Mount(p) \/ Stop(p) => proc[p].id \in Ids
  BY HeldType DEF Mount, Stop, Locked
<1>2. ASSUME Rmdir(p) \/ Bind(p) \/ Args(p) PROVE p \in Calls /\ Request(proc[p])
  BY <1>2, PathType DEF Rmdir, Bind, Args, Inv, Shape, WellFormed, ReconcilePcs, Procs
<1>3. Args(p) /\ proc[p].op = "stage" => proc[p].path \in Stagings
  BY <1>2 DEF Request
<1>4. Rmdir(p) => proc[p].path \in Published
  BY <1>2 DEF Rmdir, Handling, Handles, Either, Request, Published
<1>5. Bind(p) => proc[p].path \in Published
  BY <1>2 DEF Bind, Handling, Handles, BindPcs, Request, Published
<1>6. QED
  BY <1>1, <1>3, <1>4, <1>5, DirsOfWork, ConstantsAssumption DEF Published

(* A target without a directory has no mount, one that kubelet was told is *)
(* unpublished has no directory, and a call that has removed it goes on    *)
(* without it.                                                             *)
Bare ==
    /\ \A t \in Published : /\ t \notin dirs => fuse[t] = <<>>
                            /\ told[t] = "none" => t \notin dirs
    /\ \A p \in Calls :
          proc[p].op = "unpublish" /\ proc[p].pc \in Past => proc[p].path \notin dirs

(* A step of a call or a pass, while reconcile may bind the target again. *)
LEMMA WorkBares ==
  ASSUME Inv, SharedInv, Orderly, Handling, Sites, Bare, NEW p \in Procs, Work(p)
  PROVE  Bare'
<1> USE DEF At
<1>1. OnlyMoves(p) /\ (proc'[p] = Idle \/ Continues(p)) /\ proc[p].pc # "idle"
  BY WorkFrame, WorkIsBusy
<1>2. ASSUME NEW t \in Published, t \notin dirs' PROVE fuse'[t] = <<>>
  <2>1. t \in Paths /\ fuse[t] = <<>>
    BY <1>2, DirsByKind DEF Published, Paths, Bare
  <2>2. NothingNew(t) \/ t \in dirs'
    BY <2>1, MountsOfWork DEF Binds
  <2>3. QED
    BY <1>2, <2>1, <2>2 DEF NothingNew
<1>3. Bind(p) => p \in Calls /\ proc[p].op = "publish"
  <2>1. ASSUME Bind(p) PROVE p \in Calls /\ proc[p].pc = "bind"
    BY <2>1 DEF Bind, Inv, Shape, WellFormed, ReconcilePcs, Procs
  <2>2. QED
    BY <2>1 DEF Handling, Handles, BindPcs
<1>4. ASSUME NEW t \in Published, told'[t] = "none" PROVE t \notin dirs'
  <2>1. CASE told' = told
    <3>1. t \notin dirs /\ told[t] = "none"
      BY <1>4, <2>1 DEF Bare
    <3>2. ~(Bind(p) /\ t = proc[p].path)
      BY <1>1, <1>3, <3>1 DEF Orderly
    <3>3. QED
      BY <3>1, <3>2, DirsByKind
  <2>2. CASE Answers(p) /\ t # proc[p].path
    <3>1. told[t] = "none"
      BY <1>4, <2>2 DEF Answers, Inv, TypeOK, Published, Paths
    <3>2. QED
      BY <2>2, <3>1, DirsByKind DEF Bare
  <2>3. CASE Answers(p) /\ t = proc[p].path
    <3>1. proc[p].op \notin {"stage", "publish"} /\ p \in Calls /\ Request(proc[p])
      BY <1>4, <2>3, PathType DEF Answers, Inv, TypeOK, Published, Paths, Procs
    <3>2. proc[p].op = "unpublish"
      BY <2>3, <3>1, ConstantsAssumption DEF Request, Published
    <3>3. CASE dirs' = dirs \ {proc[p].path}
      BY <2>3, <3>3
    <3>4. CASE Forget(p) \/ RmState(p)
      <4>1. proc[p].pc \in Past /\ dirs' = dirs
        BY <3>4 DEF Forget, RmState, Past, Unmounting
      <4>2. QED
        BY <2>3, <3>1, <3>2, <4>1 DEF Bare
    <3>5. CASE AddUser(p) \/ Bind(p) \/ BindCheck(p)
      <4>1. proc[p].pc \in JoinPcs \cup BindPcs
        BY <3>5 DEF AddUser, Bind, BindCheck, JoinPcs, BindPcs
      <4>2. proc[p].op \in {"stage", "publish"}
        BY <3>1, <4>1 DEF SharedInv, ForItsRequest, Handling, Handles, JoinPcs, BindPcs
      <4>3. QED
        BY <3>1, <4>2
    <3>6. told'[t] # told[t]
      BY <1>1, <1>4, <2>3, <3>1 DEF Orderly
    <3>7. QED
      BY <3>2, <3>3, <3>4, <3>5, <3>6, AnswersOfWork
  <2>4. QED
    BY <2>1, <2>2, <2>3, AnswersOfWork
<1>5. ASSUME NEW q \in Calls, proc'[q].op = "unpublish", proc'[q].pc \in Past
      PROVE  proc'[q].path \notin dirs'
  <2>1. q \in Procs /\ q # Reconciler
    BY ConstantsAssumption DEF Procs
  <2>2. CASE q # p
    <3>1. proc[q] = proc'[q] /\ proc[q].path \notin dirs /\ proc[q].pc # "idle"
      BY <1>1, <1>5, <2>1, <2>2 DEF OnlyMoves, Bare, Past, Unmounting
    <3>2. proc[q].path \in Published
      BY <1>5, <2>1, <3>1, PathType, ConstantsAssumption DEF Request, Published
    <3>3. ~(Bind(p) /\ proc[q].path = proc[p].path)
      BY <1>1, <1>3, <2>2, <3>1 DEF Orderly
    <3>4. QED
      BY <3>1, <3>2, <3>3, DirsByKind
  <2>3. CASE q = p
    <3>1. CallMoves(q) /\ proc'[q].path = proc[q].path /\ proc'[q].op = proc[q].op
      BY <1>5, <2>1, <2>3, MovesOfCall DEF Continues, Idle, Past, Unmounting
    <3>2. \/ dirs' = dirs \ {proc[q].path}
          \/ proc[q].pc \in Past /\ ~Bind(p)
      BY <1>5, <3>1, <2>3 DEF CallMoves, Past, Unmounting, Release, Drain, Umount, Stop, Bind
    <3>3. proc[q].path \in Published
      BY <1>1, <1>5, <2>1, <2>3, <3>1, PathType DEF Request, Published
    <3>4. QED
      BY <1>5, <2>3, <3>1, <3>2, <3>3, DirsByKind DEF Bare
  <2>4. QED
    BY <2>2, <2>3
<1>6. QED
  BY <1>2, <1>4, <1>5 DEF Bare

(* Nothing is mounted again on a target that is unpublished. *)
LEMMA BareStep ==
  Inv /\ SharedInv /\ Orderly /\ Handling /\ Sites /\ Bare /\ [KubeletNext]_vars => Bare'
<1> SUFFICES ASSUME Inv, SharedInv, Orderly, Handling, Sites, Bare, [KubeletNext]_vars PROVE Bare'
  OBVIOUS
<1>1. ASSUME NEW p \in Procs, Work(p) PROVE Bare'
  BY <1>1, WorkBares
<1>2. ASSUME NEW p \in Calls, NEW i \in Ids, Locking(p, i) PROVE Bare'
  <2>1. p \in Procs /\ OnlyMoves(p) /\ UNCHANGED <<dirs, fuse>> /\ proc[p].pc # "idle"
    BY <1>2, LockingFrame DEF Procs
  <2>2. ASSUME NEW t \in Published, told'[t] = "none" PROVE told[t] = "none"
    BY <2>2, <1>2, AnswersOfLocking DEF Answers, Inv, TypeOK, Published, Paths
  <2>3. ASSUME NEW q \in Calls, proc'[q].op = "unpublish", proc'[q].pc \in Past
        PROVE  proc'[q] = proc[q]
    <3>1. CASE q # p
      BY <2>1, <2>3, <3>1 DEF OnlyMoves, Procs
    <3>2. CASE q = p /\ proc'[p] = Idle
      BY <2>3, <3>2 DEF Idle, Past, Unmounting
    <3>3. CASE q = p /\ SkipMount(p, i)
      BY <2>1, <2>3, <3>3, SkipMoves DEF Past, Unmounting
    <3>4. CASE q = p /\ Acquire(p, i) /\ proc'[p] # Idle
      <4>1. proc'[p].pc \in {"mount", "adduser", "remount"}
        BY <2>1, <3>4, AcquireMoves
      <4>2. QED
        BY <2>3, <3>4, <4>1 DEF Past, Unmounting
    <3>5. CASE q = p /\ LockMountOf(p, i) /\ proc'[p] # Idle
      <4>1. \/ proc'[p].pc \in {"record", "unbind"}
            \/ proc'[p].op = "unstage"
        BY <2>1, <3>5, LockMountOfMoves DEF Locks
      <4>2. QED
        BY <2>3, <3>5, <4>1 DEF Past, Unmounting
    <3>6. QED
      BY <1>2, <3>1, <3>2, <3>3, <3>4, <3>5 DEF Locking
  <2>4. QED
    BY <2>1, <2>2, <2>3 DEF Bare
<1>3. ASSUME NEW i \in Ids, Reconcile(i) PROVE Bare'
  <2>1. OnlyMoves(Reconciler) /\ UNCHANGED <<dirs, fuse, told>>
    BY <1>3, ReconcileFrame
  <2>2. \A q \in Calls : proc'[q] = proc[q]
    BY <2>1, ConstantsAssumption DEF OnlyMoves, Procs
  <2>3. QED
    BY <2>1, <2>2 DEF Bare
<1>4. ASSUME NEW p \in Calls, NEW r \in Requests, Call(p, r[1], r[2]) PROVE Bare'
  <2>1. OnlyMoves(p) /\ UNCHANGED <<dirs, fuse>> /\ proc'[p].pc \in {"args", "find"}
    BY <1>4, CallFrame
  <2>2. \A t \in Published : told'[t] = "none" => told[t] = "none"
    BY <1>4 DEF Call, Inv, TypeOK, Published, Paths
  <2>3. \A q \in Calls : proc'[q].pc \in Past => proc'[q] = proc[q]
    BY <2>1 DEF OnlyMoves, Procs, Past, Unmounting
  <2>4. QED
    BY <2>1, <2>2, <2>3 DEF Bare
<1>5. ASSUME Crash PROVE Bare'
  <2>1. (\A q \in Procs : proc'[q] = Idle) /\ Calls \subseteq Procs /\ UNCHANGED <<dirs, told>>
    BY <1>5 DEF Crash, Procs
  <2>2. Idle.pc \notin Past
    BY DEF Idle, Past, Unmounting
  <2>3. \A t \in Published : fuse[t] = <<>> => fuse'[t] = <<>>
    BY <1>5, CrashShows DEF NothingNew, Published, Paths
  <2>4. QED
    BY <2>1, <2>2, <2>3 DEF Bare
<1>6. ASSUME Outside PROVE Bare'
  <2>1. UNCHANGED <<dirs, proc, told>>
    BY <1>6 DEF Outside
  <2>2. ASSUME NEW t \in Published, fuse[t] = <<>> PROVE fuse'[t] = <<>>
    <3>1. t \in Paths /\ \A j \in Ids : t # Mountpoint(j)
      BY SitesUsers, ConstantsAssumption DEF Published, Paths
    <3>2. QED
      BY <1>6, <2>2, <3>1 DEF Outside, NothingNew
  <2>3. QED
    BY <2>1, <2>2 DEF Bare
<1>7. ASSUME NEW s \in Stagings, KubeletCleans(s) PROVE Bare'
  <2>1. UNCHANGED <<fuse, proc, told>> /\ dirs' = dirs \ {s}
    BY <1>7 DEF KubeletCleans, KubeletRemoves
  <2>2. s \notin Published
    BY ConstantsAssumption DEF Published
  <2>3. QED
    BY <2>1, <2>2 DEF Bare
<1>8. CASE \E p \in Calls : Timeout(p)
  BY <1>8 DEF Timeout, Orderly
<1>9. QED
  BY <1>1, <1>2, <1>3, <1>4, <1>5, <1>6, <1>7, <1>8, KubeletSteps

(* The invariants of a node that begins. *)
LEMMA KubeletBegins ==
  Init => Handling /\ Sites /\ Found /\ Bare /\ ("timeout" \notin Faults => Orderly)
<1> SUFFICES ASSUME Init
             PROVE  Handling /\ Sites /\ Found /\ Bare /\ ("timeout" \notin Faults => Orderly)
  OBVIOUS
<1>1. (\A p \in Procs : proc[p] = Idle) /\ Calls \subseteq Procs
  BY DEF Init, Procs
<1>2. Idle.pc = "idle" /\ Idle.awaited
  BY DEF Idle
<1>3. Handling /\ Found
  BY <1>1, <1>2 DEF Handling, Handles, Found, Finds, JoinPcs, BindPcs, Unmounting, Either, Past
<1>4. Sites
  <2>1. ASSUME NEW i \in Ids
        PROVE  /\ state[i].users = {} /\ state[i].targets = {}
               /\ state[i].at \in {i} \cup LegacyAt(i)
    BY DEF Init, NoState, LegacyAt
  <2>2. QED
    BY <2>1 DEF Sites
<1>5. Bare
  <2>1. dirs \subseteq Stagings
    BY ConstantsAssumption DEF Init
  <2>2. \A t \in Published : t \in Paths /\ t \notin dirs
    BY <2>1, ConstantsAssumption DEF Published, Paths
  <2>3. \A t \in Published : fuse[t] = <<>>
    BY <2>2 DEF Init
  <2>4. QED
    BY <1>1, <1>2, <2>2, <2>3 DEF Bare, Past, Unmounting
<1>6. "timeout" \notin Faults => Orderly
  BY <1>1, <1>2 DEF Orderly, Init
<1>7. QED
  BY <1>3, <1>4, <1>5, <1>6

(* What holds of the handlers and the state files in kubelet's order,      *)
(* whatever fails.                                                         *)
LEMMA HandlersInvariant == KubeletSpec => [](Inv /\ SharedInv /\ Handling /\ Sites /\ Found)
<1> DEFINE I == Inv /\ SharedInv /\ Handling /\ Sites /\ Found
<1>1. Init => I
  BY InitInv, SharedInit, KubeletBegins
<1>2. I /\ [KubeletNext]_vars => I'
  BY KubeletKeeps, HandlingStep, SitesStep, FoundStep
<1>3. QED
  BY <1>1, <1>2, PTL DEF KubeletSpec

(* After NodeUnpublishVolume has answered, nothing is mounted on the       *)
(* target, although reconcile may bind targets again at the same time,     *)
(* the plugin may restart and rclone may die at any moment.  Kubelet has   *)
(* to wait for its calls: one that it gave up may still bind the target.   *)
THEOREM UnpublishedStaysBare ==
  ASSUME "timeout" \notin Faults
  PROVE  KubeletSpec => []UnpublishedIsBare
<1> DEFINE I == Inv /\ SharedInv /\ Handling /\ Sites
           J == Orderly /\ Bare
<1>1. KubeletSpec => []I
  BY HandlersInvariant, PTL
<1>2. Init => J
  BY KubeletBegins
<1>3. I /\ J /\ [KubeletNext]_vars => J'
  BY OrderlyStep, BareStep
<1>4. J => UnpublishedIsBare
  BY DEF Bare, UnpublishedIsBare, Published
<1>5. QED
  BY <1>1, <1>2, <1>3, <1>4, PTL DEF KubeletSpec

=============================================================================
