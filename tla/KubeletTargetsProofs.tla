------------------------ MODULE KubeletTargetsProofs ------------------------
(***************************************************************************)
(* A volume that is staged or published in kubelet's order is recorded,    *)
(* uses one mount, and keeps it while it is published.                     *)
(***************************************************************************)
EXTENDS KubeletNodeProofs

-----------------------------------------------------------------------------
(* The users of a mount *)

UsersStay(i) ==
    /\ state'[i].saved = state[i].saved /\ Mountpoint(i)' = Mountpoint(i)
    /\ Users(i)' = Users(i) /\ state'[i].targets = state[i].targets

UsersBegin(i) ==
    Mountpoint(i)' = i /\ Users(i)' = {} /\ state'[i].targets = {}

UsersChange(i, users, targets) ==
    /\ state[i].saved /\ state'[i].saved /\ Mountpoint(i)' = Mountpoint(i)
    /\ Users(i)' = users /\ state'[i].targets = targets

(* What a step does to the users and the targets of the mount its process  *)
(* has locked.                                                             *)
LEMMA UsersOfWork ==
  ASSUME Inv, SharedInv, NEW p \in Procs, Work(p), NEW i \in Ids, i = proc[p].id
  PROVE  \/ UsersStay(i)
         \/ Save(p) /\ ~state[i].saved /\ state'[i].saved /\ UsersBegin(i)
         \/ Removes(p) /\ ~state'[i].saved /\ UsersBegin(i)
         \/ AddUser(p) /\ UsersChange(i, Users(i) \cup {proc[p].path}, state[i].targets)
         \/ /\ Record(p) /\ live(Mountpoint(i))
            /\ UsersChange(i, Users(i), state[i].targets \cup {proc[p].path})
         \/ /\ Forget(p)
            /\ UsersChange(i, Users(i) \ {proc[p].path}, state[i].targets \ {proc[p].path})
         \/ DropUsers(p) /\ UsersChange(i, Users(i) \cap dirs, state[i].targets \cap dirs)
<1>1. Sharing(p)
  BY DEF SharedInv
<1>2. Save(p) => ~state[i].saved
  BY <1>1 DEF Save, At, Sharing
<1>3. Forget(p) => Mountpoint(i) = i \/ Users(i) \ {proc[p].path} # {}
  BY <1>1 DEF Forget, At, Sharing
<1>4. Users(i) = {} => Mountpoint(i) = i
  BY DEF Users
<1>5. Users(i)' = IF state'[i].users = {} /\ Mountpoint(i)' # i THEN {Mountpoint(i)'} ELSE state'[i].users
  BY DEF Users
<1>6. Mountpoint(i) = state[i].at /\ Mountpoint(i)' = state'[i].at
  BY DEF Mountpoint
<1>7. FileStays(i) => UsersStay(i)
  BY <1>5, <1>6 DEF FileStays, UsersStay, Users
<1>8. FileBegins(i) => UsersBegin(i)
  BY <1>5, <1>6 DEF FileBegins, UsersBegin
<1>9. ASSUME NEW users, NEW targets, FileChanges(i, users, targets), users # {} \/ Mountpoint(i) = i
      PROVE  UsersChange(i, users, targets)
  BY <1>5, <1>6, <1>9 DEF FileChanges, UsersChange
<1>10. ASSUME AddUser(p), FileChanges(i, Users(i) \cup {proc[p].path}, state[i].targets)
       PROVE  UsersChange(i, Users(i) \cup {proc[p].path}, state[i].targets)
  <2>1. Users(i) \cup {proc[p].path} # {}
    OBVIOUS
  <2>2. QED
    BY <1>9, <1>10, <2>1
<1>11. ASSUME FileChanges(i, Users(i), state[i].targets \cup {proc[p].path})
       PROVE  UsersChange(i, Users(i), state[i].targets \cup {proc[p].path})
  BY <1>4, <1>9, <1>11
<1>12. ASSUME Forget(p), FileChanges(i, Users(i) \ {proc[p].path}, state[i].targets \ {proc[p].path})
       PROVE  UsersChange(i, Users(i) \ {proc[p].path}, state[i].targets \ {proc[p].path})
  BY <1>3, <1>9, <1>12
<1>13. ASSUME Users(i) \cap dirs # {}, FileChanges(i, Users(i) \cap dirs, state[i].targets \cap dirs)
       PROVE  UsersChange(i, Users(i) \cap dirs, state[i].targets \cap dirs)
  BY <1>9, <1>13
<1>14. QED
  BY <1>2, <1>7, <1>8, <1>10, <1>11, <1>12, <1>13, StateOfWork

(* A path comes to use a mount by acquire, or by the record of a target. *)
LEMMA UsesOfWork ==
  ASSUME Inv, SharedInv, NEW p \in Procs, Work(p), NEW j \in Ids, NEW x, Uses(j, x)'
  PROVE  Uses(j, x) \/ ((AddUser(p) \/ Record(p)) /\ j = proc[p].id /\ x = proc[p].path)
<1>1. CASE j # proc[p].id
  BY <1>1, WorkFrame DEF OnlyTouches, Uses, Users, Mountpoint
<1>2. CASE j = proc[p].id
  <2>1. state'[j].saved /\ x \in Users(j)' \cup state'[j].targets
    BY DEF Uses
  <2>2. UsersStay(j) => Uses(j, x)
    BY <2>1 DEF UsersStay, Uses
  <2>3. ~UsersBegin(j)
    BY <2>1 DEF UsersBegin
  <2>4. ASSUME NEW users, NEW targets, UsersChange(j, users, targets)
        PROVE  state[j].saved /\ x \in users \cup targets
    BY <2>1, <2>4 DEF UsersChange
  <2>5. ASSUME AddUser(p), UsersChange(j, Users(j) \cup {proc[p].path}, state[j].targets)
        PROVE  Uses(j, x) \/ x = proc[p].path
    BY <2>4, <2>5 DEF Uses
  <2>6. ASSUME Record(p), UsersChange(j, Users(j), state[j].targets \cup {proc[p].path})
        PROVE  Uses(j, x) \/ x = proc[p].path
    BY <2>4, <2>6 DEF Uses
  <2>7. ASSUME UsersChange(j, Users(j) \ {proc[p].path}, state[j].targets \ {proc[p].path})
        PROVE  Uses(j, x)
    BY <2>4, <2>7 DEF Uses
  <2>8. ASSUME UsersChange(j, Users(j) \cap dirs, state[j].targets \cap dirs)
        PROVE  Uses(j, x)
    BY <2>4, <2>8 DEF Uses
  <2>9. QED
    BY <1>2, <2>2, <2>3, <2>5, <2>6, <2>7, <2>8, UsersOfWork
<1>3. QED
  BY <1>1, <1>2

-----------------------------------------------------------------------------
(* What a call has looked for *)

(* NodeStageVolume, NodeUnstageVolume and NodeUnpublishVolume look at      *)
(* every mount their path uses, so that a volume is staged once.           *)
Seeks(p) ==
    LET path == proc[p].path IN
    /\ proc[p].pc = "lockof" /\ proc[p].op # "publish"
          => \A j \in Ids : Uses(j, path) => j \in proc[p].left
    /\ proc[p].op = "stage" /\ proc[p].pc \in JoinPcs => \A j \in Ids : ~Uses(j, path)
    /\ proc[p].pc \in Either /\ proc[p].id = NoId => \A j \in Ids : ~Uses(j, path)

Searched == /\ "load" \notin faults
            /\ OneMountPerStaging
            /\ \A p \in Calls : Seeks(p)

(* A call that has yet to look, or has found a mount. *)
LEMMA SeeksNothing ==
  ASSUME NEW p \in Procs,
         \/ proc'[p].pc \notin {"lockof"} \cup JoinPcs \cup Either
         \/ proc'[p].pc \in JoinPcs /\ proc'[p].op # "stage"
         \/ proc'[p].pc \in Either /\ proc'[p].id # NoId
  PROVE  Seeks(p)'
  BY DEF Seeks, JoinPcs, Either

(* What a call has looked for stays so, if no other path comes to use a mount. *)
LEMMA SeeksStays ==
  ASSUME NEW q \in Procs, Seeks(q), proc'[q].pc = proc[q].pc, proc'[q].op = proc[q].op,
         proc'[q].path = proc[q].path, proc'[q].id = proc[q].id, proc'[q].left = proc[q].left,
         NEW x, x = proc[q].path, \A j \in Ids : Uses(j, x)' => Uses(j, x)
  PROVE  Seeks(q)'
  BY DEF Seeks

(* A staging path comes to use a mount by NodeStageVolume only. *)
LEMMA StagingUses ==
  ASSUME Inv, SharedInv, Handling, NEW p \in Procs, Work(p), NEW j \in Ids, NEW s \in Stagings,
         Uses(j, s)', ~Uses(j, s)
  PROVE  /\ AddUser(p) /\ j = proc[p].id /\ s = proc[p].path
         /\ p \in Calls /\ proc[p].op = "stage" /\ proc[p].pc \in JoinPcs
<1>1. (AddUser(p) \/ Record(p)) /\ j = proc[p].id /\ s = proc[p].path
  BY UsesOfWork
<1>2. p \in Calls /\ Request(proc[p]) /\ proc[p].pc # "idle"
  BY <1>1, PathType DEF AddUser, Record, At, Inv, Shape, WellFormed, ReconcilePcs, Procs
<1>3. ~Record(p)
  <2>1. Record(p) => proc[p].op = "publish"
    BY <1>2 DEF Record, At, Handling, Handles, BindPcs
  <2>2. QED
    BY <1>1, <1>2, <2>1, ConstantsAssumption DEF Request
<1>4. proc[p].pc \in JoinPcs
  BY <1>1, <1>3 DEF AddUser, JoinPcs
<1>5. proc[p].op = "stage"
  BY <1>1, <1>2, <1>4, ConstantsAssumption DEF Request, SharedInv, ForItsRequest, JoinPcs
<1>6. QED
  BY <1>1, <1>2, <1>3, <1>4, <1>5

(* A step of a call or a pass. *)
LEMMA WorkSearches ==
  ASSUME Inv, SharedInv, Orderly, Handling, Searched, NEW p \in Procs, Work(p)
  PROVE  Searched'
<1> USE DEF At
<1>1. /\ OnlyMoves(p) /\ proc[p].pc # "idle" /\ "load" \notin faults
      /\ faults' = faults
  BY WorkFrame, WorkIsBusy DEF Searched
<1>2. OneMountPerStaging'
  <2> SUFFICES ASSUME NEW s \in Stagings, NEW i \in Ids, NEW j \in Ids, Uses(i, s)', Uses(j, s)'
               PROVE  i = j
    BY DEF OneMountPerStaging
  <2>1. CASE Uses(i, s) /\ Uses(j, s)
    BY <2>1 DEF Searched, OneMountPerStaging
  <2>2. CASE ~Uses(i, s) /\ ~Uses(j, s)
    BY <2>2, StagingUses
  <2>3. ASSUME NEW k \in Ids, Uses(k, s)', ~Uses(k, s) PROVE \A h \in Ids : ~Uses(h, s)
    <3>1. s = proc[p].path /\ p \in Calls /\ proc[p].op = "stage" /\ proc[p].pc \in JoinPcs
      BY <2>3, StagingUses
    <3>2. QED
      BY <3>1 DEF Searched, Seeks
  <2>4. QED
    BY <2>1, <2>2, <2>3
<1>3. ASSUME NEW q \in Calls PROVE Seeks(q)'
  <2>1. q \in Procs /\ q # Reconciler /\ Seeks(q)
    BY ConstantsAssumption DEF Procs, Searched
  <2>2. CASE q # p
    <3>1. proc'[q] = proc[q]
      BY <1>1, <2>1, <2>2 DEF OnlyMoves
    <3>2. CASE proc[q].pc = "idle"
      BY <2>1, <3>1, <3>2, SeeksNothing DEF JoinPcs, Either
    <3>3. CASE proc[q].pc # "idle"
      <4>0. PICK x : x = proc[q].path
        OBVIOUS
      <4>1. p \in Calls => x # proc[p].path
        BY <1>1, <2>2, <3>3, <4>0 DEF Orderly
      <4>2. AddUser(p) \/ Record(p) => p \in Calls
        BY DEF AddUser, Record, Inv, Shape, WellFormed, ReconcilePcs, Procs
      <4>3. \A j \in Ids : Uses(j, x)' => Uses(j, x)
        BY <4>1, <4>2, UsesOfWork
      <4>4. QED
        BY <2>1, <3>1, <4>0, <4>3, SeeksStays
    <3>4. QED
      BY <3>2, <3>3
  <2>3. CASE q = p /\ proc'[q] = Idle
    BY <2>1, <2>3, SeeksNothing DEF Idle, JoinPcs, Either
  <2>4. CASE q = p /\ CallMoves(q) /\ Continues(q)
    <3>0. PICK x : x = proc[q].path
      OBVIOUS
    <3>1. /\ proc'[q].op = proc[q].op /\ proc'[q].path = x /\ proc'[q].id = proc[q].id
          /\ proc[q].op \in {"stage", "unstage", "publish", "unpublish"}
      BY <2>1, <2>4, <3>0, PathType DEF Continues, Request
    <3>2. CASE Find(q)
      <4>1. /\ proc'[q].pc = "lockof" /\ proc'[q].left = {i \in Ids : Uses(i, Key(q))}
            /\ UNCHANGED state
        BY <1>1, <2>1, <3>2, FindMoves DEF Find
      <4>2. proc[q].op # "publish" => Key(q) = x
        BY <3>0 DEF Key
      <4>3. \A j \in Ids : Uses(j, x)' => Uses(j, x)
        BY <4>1 DEF Uses, Users, Mountpoint
      <4>4. QED
        BY <3>1, <4>1, <4>2, <4>3 DEF Seeks, JoinPcs, Either
    <3>3. CASE NotFound(q)
      <4>1. /\ proc[q].pc = "lockof" /\ proc[q].left = {} /\ UNCHANGED state
            /\ \/ proc[q].op = "stage" /\ proc'[q].pc = "args"
               \/ proc[q].op = "unpublish" /\ proc'[q].pc = "unbind"
        BY <2>4, <3>3 DEF NotFound, CallMoves, Find, Args, Mount, Save, Start, Ready, SetMounted,
             AddUser, Remount, StopOld, Record, BindCheck, Unbind, Rmdir, Release, Drain, Umount, Stop
      <4>2. \A j \in Ids : ~Uses(j, x)
        BY <2>1, <3>0, <4>1 DEF Seeks
      <4>3. \A j \in Ids : ~Uses(j, x)'
        BY <4>1, <4>2 DEF Uses, Users, Mountpoint
      <4>4. QED
        BY <3>1, <4>1, <4>3 DEF Seeks, JoinPcs, Either
    <3>4. CASE proc[q].pc \in JoinPcs /\ proc'[q].pc \in JoinPcs
      <4>1. CASE proc[q].op # "stage"
        BY <2>1, <3>1, <3>4, <4>1, SeeksNothing
      <4>2. CASE proc[q].op = "stage"
        <5>1. ~Record(q) /\ ~AddUser(q)
          BY <2>4, <3>4, ZenonT(40)
            DEF Record, AddUser, CallMoves, JoinPcs, Find, NotFound, Args, Mount, Save,
               Start, Ready, SetMounted, Remount, StopOld, BindCheck, Unbind, Rmdir, Release, Drain,
               Umount, Stop
        <5>2. \A j \in Ids : ~Uses(j, x)
          BY <2>1, <3>0, <3>4, <4>2 DEF Seeks
        <5>3. \A j \in Ids : ~Uses(j, x)'
          BY <2>4, <5>1, <5>2, UsesOfWork
        <5>4. QED
          BY <3>1, <3>4, <5>3 DEF Seeks, JoinPcs, Either
      <4>3. QED
        BY <4>1, <4>2
    <3>5. CASE Unbind(q)
      <4>1. proc[q].pc = "unbind" /\ proc'[q].pc = "rmdir" /\ UNCHANGED state
        BY <2>1, <3>5, StepMoves DEF Unbind, Either
      <4>2. proc[q].id = NoId => \A j \in Ids : ~Uses(j, x)
        BY <2>1, <3>0, <4>1 DEF Seeks, Either
      <4>3. proc[q].id = NoId => \A j \in Ids : ~Uses(j, x)'
        BY <4>1, <4>2 DEF Uses, Users, Mountpoint
      <4>4. QED
        BY <3>1, <4>1, <4>3 DEF Seeks, JoinPcs, Either
    <3>6. CASE proc'[q].pc \notin {"lockof"} \cup JoinPcs \cup Either
      BY <2>1, <3>6, SeeksNothing
    <3>7. QED
      BY <2>4, <3>2, <3>3, <3>4, <3>5, <3>6
         DEF CallMoves, JoinPcs, Either, Args, Mount, Save, Start, Ready, SetMounted, Remount, StopOld
  <2>5. QED
    BY <2>1, <2>2, <2>3, <2>4, MovesOfCall
<1>4. QED
  BY <1>1, <1>2, <1>3 DEF Searched

(* Whatever runs at the same time, a call that has looked for the mounts   *)
(* of its path has seen them all.                                          *)
LEMMA SearchedStep ==
  Inv /\ SharedInv /\ Orderly /\ Handling /\ Searched /\ [KubeletNext]_vars => Searched'
<1> SUFFICES ASSUME Inv, SharedInv, Orderly, Handling, Searched, [KubeletNext]_vars PROVE Searched'
  OBVIOUS
<1>1. ASSUME NEW p \in Procs, Work(p) PROVE Searched'
  BY <1>1, WorkSearches
<1>2. ASSUME UNCHANGED state, faults' \subseteq faults, \A q \in Calls : Seeks(q)' PROVE Searched'
  <2>1. \A j \in Ids, s \in Stagings : Uses(j, s)' <=> Uses(j, s)
    BY <1>2 DEF Uses, Users, Mountpoint
  <2>2. QED
    BY <1>2, <2>1 DEF Searched, OneMountPerStaging
<1>3. ASSUME UNCHANGED state, NEW q \in Calls, proc'[q] = proc[q] PROVE Seeks(q)'
  <2>1. Seeks(q)
    BY DEF Searched
  <2>2. \A j \in Ids, x \in {proc[q].path} : Uses(j, x)' <=> Uses(j, x)
    BY <1>3 DEF Uses, Users, Mountpoint
  <2>3. QED
    BY <1>3, <2>1, <2>2, SeeksStays DEF Procs
<1>4. ASSUME NEW p \in Calls, NEW i \in Ids, Locking(p, i) PROVE Searched'
  <2>1. p \in Procs /\ OnlyMoves(p) /\ UNCHANGED state /\ faults' = faults
    BY <1>4, LockingFrame DEF Procs
  <2>2. ASSUME NEW q \in Calls PROVE Seeks(q)'
    <3>0. PICK x : x = proc[q].path
      OBVIOUS
    <3>1. q \in Procs /\ q # Reconciler /\ Seeks(q) /\ \A j \in Ids : Uses(j, x)' <=> Uses(j, x)
      BY <2>1, ConstantsAssumption DEF Procs, Searched, Uses, Users, Mountpoint
    <3>2. CASE q # p
      BY <1>3, <2>1, <3>1, <3>2 DEF OnlyMoves
    <3>3. CASE q = p /\ proc'[q] = Idle
      BY <3>1, <3>3, SeeksNothing DEF Idle, JoinPcs, Either
    <3>4. CASE q = p /\ SkipMount(p, i)
      <4>1. /\ proc[q].pc = "lockof" /\ proc'[q].pc = "lockof" /\ proc'[q].left = proc[q].left \ {i}
            /\ proc'[q].op = proc[q].op /\ proc'[q].path = x
        BY <3>0, <3>1, <3>4, SkipMoves DEF Continues
      <4>2. proc[q].op # "publish" => ~Uses(i, x)
        BY <3>0, <3>4 DEF SkipMount, Key, Searched
      <4>3. QED
        BY <3>0, <3>1, <4>1, <4>2 DEF Seeks, JoinPcs, Either
    <3>5. CASE q = p /\ Acquire(p, i) /\ proc'[q] # Idle
      <4>1. /\ proc[q].pc = "acquire" /\ proc'[q].pc \in {"mount", "adduser", "remount"}
            /\ proc'[q].op = proc[q].op /\ proc'[q].path = x
        BY <3>0, <3>1, <3>5, AcquireMoves DEF Locks
      <4>2. QED
        BY <3>0, <3>1, <4>1 DEF Seeks, JoinPcs, Either
    <3>6. CASE q = p /\ LockMountOf(p, i) /\ proc'[q] # Idle
      <4>1. /\ proc'[q].pc \in {"release", "record", "unbind"} /\ proc'[q].id = i /\ i # NoId
        BY <3>1, <3>6, LockMountOfMoves, ConstantsAssumption, ZenonT(40) DEF Locks, Paths
      <4>2. QED
        BY <3>1, <4>1, SeeksNothing DEF JoinPcs, Either
    <3>7. QED
      BY <1>4, <3>2, <3>3, <3>4, <3>5, <3>6 DEF Locking
  <2>3. QED
    BY <1>2, <2>1, <2>2
<1>5. ASSUME NEW i \in Ids, Reconcile(i) PROVE Searched'
  <2>1. OnlyMoves(Reconciler) /\ UNCHANGED state /\ faults' = faults
    BY <1>5, ReconcileFrame
  <2>2. \A q \in Calls : proc'[q] = proc[q]
    BY <2>1, ConstantsAssumption DEF OnlyMoves, Procs
  <2>3. QED
    BY <1>2, <1>3, <2>1, <2>2
<1>6. ASSUME NEW p \in Calls, NEW r \in Requests, Call(p, r[1], r[2]) PROVE Searched'
  <2>1. /\ OnlyMoves(p) /\ UNCHANGED state /\ faults' = faults
        /\ proc'[p].pc = "find" \/ (proc'[p].pc = "args" /\ proc'[p].op = "publish")
    BY <1>6, CallFrame
  <2>2. ASSUME NEW q \in Calls PROVE Seeks(q)'
    <3>1. CASE q # p
      BY <1>3, <2>1, <3>1 DEF OnlyMoves, Procs
    <3>2. CASE q = p
      BY <2>1, <3>2, SeeksNothing DEF Procs, JoinPcs, Either
    <3>3. QED
      BY <3>1, <3>2
  <2>3. QED
    BY <1>2, <2>1, <2>2
<1>7. ASSUME Crash PROVE Searched'
  <2>1. UNCHANGED state /\ faults' = faults /\ \A q \in Calls : q \in Procs /\ proc'[q] = Idle
    BY <1>7 DEF Crash, Procs
  <2>2. \A q \in Calls : Seeks(q)'
    BY <2>1, SeeksNothing DEF Idle, JoinPcs, Either
  <2>3. QED
    BY <1>2, <2>1, <2>2
<1>8. CASE Outside \/ \E s \in Stagings : KubeletCleans(s)
  BY <1>2, <1>3, <1>8 DEF Outside, KubeletCleans, KubeletRemoves
<1>9. CASE \E p \in Calls : Timeout(p)
  BY <1>9 DEF Timeout, Orderly
<1>10. QED
  BY <1>1, <1>4, <1>5, <1>6, <1>7, <1>8, <1>9, KubeletSteps

(* 4.0.0 had one mount per staging path. *)
LEMMA SearchedBegins == Init /\ "load" \notin Faults => Searched
<1> SUFFICES ASSUME Init, "load" \notin Faults PROVE Searched
  OBVIOUS
<1>1. \A q \in Calls : q \in Procs /\ proc[q] = Idle
  BY DEF Init, Procs
<1>2. \A q \in Calls : Seeks(q)
  BY <1>1 DEF Seeks, Idle, JoinPcs, Either
<1>3. ASSUME NEW i \in Ids, NEW s \in Stagings, Uses(i, s)
      PROVE  i \in DOMAIN Legacy /\ s = Legacy[i]
  <2>1. i \in DOMAIN Legacy
    BY <1>3 DEF Init, Uses, NoState
  <2>2. state[i].users = {} /\ state[i].targets = {} /\ state[i].at = Legacy[i]
    BY <2>1 DEF Init, NoState
  <2>3. Legacy[i] # i
    BY <2>1, ConstantsAssumption
  <2>4. QED
    BY <1>3, <2>1, <2>2, <2>3 DEF Uses, Users, Mountpoint
<1>4. OneMountPerStaging
  BY <1>3, ConstantsAssumption DEF OneMountPerStaging
<1>5. QED
  BY <1>2, <1>4 DEF Searched, Init

(* A staging path uses one mount, even if the arguments of its volume      *)
(* change before a call is repeated, after an error or a restart of the    *)
(* plugin: NodeStageVolume looks for a mount first, and kubelet waits for  *)
(* its calls.  A state file that cannot be read would hide a mount.        *)
THEOREM StagedOnce ==
  ASSUME {"timeout", "load"} \cap Faults = {}
  PROVE  KubeletSpec => []OneMountPerStaging
<1> DEFINE I == Inv /\ SharedInv /\ Handling
           J == Orderly /\ Searched
<1>1. KubeletSpec => []I
  BY HandlersInvariant, PTL
<1>2. Init => J
  BY KubeletBegins, SearchedBegins
<1>3. I /\ J /\ [KubeletNext]_vars => J'
  BY OrderlyStep, SearchedStep
<1>4. J => OneMountPerStaging
  BY DEF Searched
<1>5. QED
  BY <1>1, <1>2, <1>3, <1>4, PTL DEF KubeletSpec

-----------------------------------------------------------------------------
(* What kubelet was told *)

(* A volume is published only while it is staged. *)
InOrder == \A t \in Targets : told[t] # "none" => told[StagingOf[t]] = "up"

(* What kubelet is told of a path changes from unsure to what came of the call. *)
LEMMA ToldOfWork ==
  ASSUME Inv, Orderly, NEW p \in Procs, Work(p), NEW x \in Paths, told'[x] # told[x]
  PROVE  /\ p \in Calls /\ x = proc[p].path /\ told[x] = "unsure" /\ Request(proc[p])
         /\ told'[x] = IF proc[p].op \in {"stage", "publish"} THEN "up" ELSE "none"
         /\ \/ NotFound(p) /\ proc[p].op = "unstage"
            \/ AddUser(p) /\ proc[p].op = "stage"
            \/ BindCheck(p) /\ live(proc[p].path)
            \/ Bind(p) /\ dirs' = dirs \cup {proc[p].path}
            \/ Rmdir(p) /\ proc[p].id = NoId /\ dirs' = dirs \ {proc[p].path}
            \/ Forget(p)
            \/ RmState(p)
<1>1. Answers(p)
  BY AnswersOfWork
<1>2. p \in Calls /\ Request(proc[p]) /\ x = proc[p].path
  BY <1>1, PathType DEF Answers, Procs, Inv, TypeOK
<1>3. told[x] = "unsure" /\ told'[x] = IF proc[p].op \in {"stage", "publish"} THEN "up" ELSE "none"
  BY <1>1, <1>2 DEF Answers, Orderly, Inv, TypeOK
<1>4. QED
  BY <1>2, <1>3, AnswersOfWork

(* ... or from anything to unsure, when a call begins, and to up when      *)
(* NodeStageVolume finds its volume.                                       *)
LEMMA ToldOfSteps ==
  ASSUME Inv, Orderly, [KubeletNext]_vars, NEW x \in Paths, told'[x] # told[x]
  PROVE  \/ \E p \in Procs : Work(p)
         \/ told[x] = "unsure" /\ told'[x] = "up"
         \/ /\ told'[x] = "unsure"
            /\ \E p \in Calls, r \in Requests : /\ Allowed(r[1], r[2]) /\ Call(p, r[1], r[2]) /\ x = r[2]
                                               /\ told' = [told EXCEPT ![x] = "unsure"]
<1>1. ASSUME NEW p \in Calls, NEW i \in Ids, Locking(p, i)
      PROVE  told[x] = "unsure" /\ told'[x] = "up"
  <2>1. Answers(p) /\ proc[p].op = "stage"
    BY <1>1, AnswersOfLocking
  <2>2. x = proc[p].path
    BY <2>1 DEF Answers, Inv, TypeOK
  <2>3. QED
    BY <2>1, <2>2 DEF Answers, Orderly, Inv, TypeOK
<1>2. ASSUME NEW i \in Ids, Reconcile(i) PROVE FALSE
  BY <1>2, ReconcileFrame
<1>3. ASSUME NEW p \in Calls, NEW r \in Requests, Call(p, r[1], r[2])
      PROVE  told'[x] = "unsure" /\ x = r[2] /\ told' = [told EXCEPT ![x] = "unsure"]
  BY <1>3 DEF Call, Inv, TypeOK
<1>4. QED
  BY <1>1, <1>2, <1>3, KubeletSteps DEF KubeletCleans, KubeletRemoves, Timeout, Crash, Outside

(* Kubelet publishes a volume that is staged, and unstages one that is not *)
(* published.                                                              *)
LEMMA InOrderStep == Inv /\ Orderly /\ InOrder /\ [KubeletNext]_vars => InOrder'
<1> SUFFICES ASSUME Inv, Orderly, InOrder, [KubeletNext]_vars, NEW t \in Targets, told'[t] # "none"
             PROVE  told'[StagingOf[t]] = "up"
  BY DEF InOrder
<1>0. PICK s : s = StagingOf[t]
  OBVIOUS
<1>1. t \in Paths /\ s \in Paths /\ s \in Stagings /\ s # t
  BY <1>0, ConstantsAssumption DEF Paths
<1>2. told[t] # "none" => told[s] = "up"
  BY <1>0 DEF InOrder
<1>3. CASE told'[t] = told[t] /\ told'[s] = told[s]
  BY <1>0, <1>2, <1>3
<1>4. CASE \E p \in Procs : Work(p)
  <2>1. PICK p \in Procs : Work(p)
    BY <1>4
  <2>2. told'[s] = told[s] \/ told[s] = "unsure"
    BY <1>1, <2>1, ToldOfWork
  <2>3. told'[t] = told[t] \/ told[t] = "unsure"
    BY <1>1, <2>1, ToldOfWork
  <2>4. QED
    BY <1>0, <1>2, <2>2, <2>3
<1>5. CASE ~\E p \in Procs : Work(p)
  <2>1. CASE told'[t] # told[t] /\ told[t] = "unsure" /\ told'[t] = "up"
    <3>1. told[s] = "up"
      BY <1>2, <2>1
    <3>2. CASE told'[s] # told[s]
      BY <1>1, <1>5, <2>1, <3>1, <3>2, ToldOfSteps DEF Inv, TypeOK
    <3>3. QED
      BY <1>0, <3>1, <3>2
  <2>2. ASSUME NEW p \in Calls, NEW r \in Requests, Allowed(r[1], r[2]), Call(p, r[1], r[2]),
               t = r[2], told' = [told EXCEPT ![t] = "unsure"]
        PROVE  told'[s] = "up"
    <3>1. r[1] \in {"publish", "unpublish"}
      BY <2>2, ConstantsAssumption DEF Requests
    <3>2. told[s] = "up"
      BY <1>0, <1>2, <2>2, <3>1 DEF Allowed
    <3>3. QED
      BY <1>1, <2>2, <3>2 DEF Inv, TypeOK
  <2>3. ASSUME NEW p \in Calls, NEW r \in Requests, Allowed(r[1], r[2]), Call(p, r[1], r[2]),
               s = r[2], told' = [told EXCEPT ![s] = "unsure"]
        PROVE  FALSE
    <3>1. r[1] \in {"stage", "unstage"}
      BY <1>1, <2>3, ConstantsAssumption DEF Requests
    <3>2. told[t] # "none"
      BY <1>1, <2>3 DEF Inv, TypeOK
    <3>3. told[s] = "up" /\ t \in TargetsOf(s)
      BY <1>0, <1>2, <3>2 DEF TargetsOf
    <3>4. QED
      BY <2>3, <3>1, <3>2, <3>3 DEF Allowed
  <2>4. CASE told'[t] # told[t]
    BY <1>0, <1>1, <1>5, <2>1, <2>2, <2>4, ToldOfSteps
  <2>5. CASE told'[t] = told[t] /\ told'[s] # told[s]
    <3>1. told[s] = "up"
      BY <1>2, <2>5
    <3>2. QED
      BY <1>1, <1>5, <2>3, <2>5, <3>1, ToldOfSteps
  <2>6. QED
    BY <1>3, <2>4, <2>5
<1>6. QED
  BY <1>4, <1>5

-----------------------------------------------------------------------------
(* What is recorded of a volume *)

(* A path that uses a mount has yet to leave it; a staging path is there,  *)
(* and so is the user of the mount that a target was published with.       *)
Staged ==
    /\ \A i \in Ids, x \in Stagings \cup Targets : Uses(i, x) => told[x] # "none"
    /\ \A i \in Ids, s \in Stagings : Uses(i, s) => s \in dirs
    /\ \A i \in Ids : state[i].saved => \A t \in state[i].targets : UserOf(t) \in Users(i)
    /\ \A p \in Calls : proc[p].op = "stage" /\ proc[p].pc \in JoinPcs \ {"args"}
                           => proc[p].path \in dirs

Order == /\ Inv /\ SharedInv /\ Handling /\ Sites /\ Found
         /\ Orderly /\ Searched /\ InOrder

(* A target becomes one of a mount by NodePublishVolume only. *)
LEMMA TargetsOfWork ==
  ASSUME Inv, SharedInv, NEW p \in Procs, Work(p), NEW j \in Ids, NEW x,
         state'[j].saved, x \in state'[j].targets
  PROVE  \/ state[j].saved /\ x \in state[j].targets
         \/ Record(p) /\ j = proc[p].id /\ x = proc[p].path /\ live(Mountpoint(j)) /\ state[j].saved
<1>1. CASE j # proc[p].id
  BY <1>1, WorkFrame DEF OnlyTouches
<1>2. CASE j = proc[p].id
  <2>1. UsersStay(j) => state[j].saved /\ x \in state[j].targets
    BY DEF UsersStay
  <2>2. ~UsersBegin(j)
    BY DEF UsersBegin
  <2>3. ASSUME NEW users, NEW targets, UsersChange(j, users, targets)
        PROVE  state[j].saved /\ x \in targets
    BY <2>3 DEF UsersChange
  <2>4. ASSUME UsersChange(j, Users(j) \cup {proc[p].path}, state[j].targets)
        PROVE  state[j].saved /\ x \in state[j].targets
    BY <2>3, <2>4
  <2>5. ASSUME UsersChange(j, Users(j), state[j].targets \cup {proc[p].path})
        PROVE  state[j].saved /\ (x \in state[j].targets \/ x = proc[p].path)
    BY <2>3, <2>5
  <2>6. ASSUME UsersChange(j, Users(j) \ {proc[p].path}, state[j].targets \ {proc[p].path})
        PROVE  state[j].saved /\ x \in state[j].targets
    BY <2>3, <2>6
  <2>7. ASSUME UsersChange(j, Users(j) \cap dirs, state[j].targets \cap dirs)
        PROVE  state[j].saved /\ x \in state[j].targets
    BY <2>3, <2>7
  <2>8. QED
    BY <1>2, <2>1, <2>2, <2>4, <2>5, <2>6, <2>7, UsersOfWork
<1>3. QED
  BY <1>1, <1>2

(* A path of a persistent volume uses one mount. *)
LEMMA UsesOne ==
  ASSUME Sites, Searched, Staged, NEW x \in Stagings \cup Targets, NEW i \in Ids, NEW j \in Ids,
         Uses(i, x), Uses(j, x)
  PROVE  i = j
<1>1. CASE x \in Stagings
  BY <1>1 DEF Searched, OneMountPerStaging
<1>2. CASE x \in Targets
  <2>1. ASSUME NEW k \in Ids, Uses(k, x) PROVE Uses(k, StagingOf[x])
    <3>0. Users(k) \subseteq Stagings \cup Ephemerals
      BY SitesUsers
    <3>1. x \in state[k].targets /\ state[k].saved
      BY <1>2, <2>1, <3>0, ConstantsAssumption DEF Uses
    <3>2. UserOf(x) \in Users(k) /\ UserOf(x) = StagingOf[x]
      BY <1>2, <3>1 DEF Staged, UserOf
    <3>3. QED
      BY <3>1, <3>2 DEF Uses
  <2>2. StagingOf[x] \in Stagings
    BY <1>2, ConstantsAssumption
  <2>3. QED
    BY <2>1, <2>2 DEF Searched, OneMountPerStaging
<1>3. QED
  BY <1>1, <1>2

(* NodeUnstageVolume and NodeUnpublishVolume remove the path they answer   *)
(* for from every mount.                                                   *)
LEMMA LeftIsUnused ==
  ASSUME Order, Staged, NEW p \in Procs, Work(p), NEW x \in Stagings \cup Targets,
         told'[x] # told[x], told'[x] = "none", NEW j \in Ids, Uses(j, x)'
  PROVE  FALSE
<1> USE DEF Order
<1>1. /\ p \in Calls /\ x = proc[p].path /\ Request(proc[p])
      /\ proc[p].op \notin {"stage", "publish"} /\ x \in Paths
      /\ \/ NotFound(p) /\ proc[p].op = "unstage"
         \/ AddUser(p) /\ proc[p].op = "stage"
         \/ BindCheck(p) /\ live(proc[p].path)
         \/ Bind(p) /\ dirs' = dirs \cup {proc[p].path}
         \/ Rmdir(p) /\ proc[p].id = NoId /\ dirs' = dirs \ {proc[p].path}
         \/ Forget(p)
         \/ RmState(p)
  BY ToldOfWork DEF Paths
<1>2. Seeks(p) /\ Finds(p) /\ Handles(p)
  BY <1>1 DEF Searched, Found, Handling
<1>3. ~(AddUser(p) /\ proc[p].op = "stage") /\ ~BindCheck(p) /\ ~Bind(p)
  BY <1>1, <1>2 DEF BindCheck, Bind, At, Handles, BindPcs
<1>4. CASE UNCHANGED state /\ \A k \in Ids : ~Uses(k, x)
  BY <1>4 DEF Uses, Users, Mountpoint
<1>5. CASE NotFound(p) /\ proc[p].op = "unstage"
  <2>1. UNCHANGED state /\ \A k \in Ids : ~Uses(k, x)
    BY <1>1, <1>2, <1>5 DEF NotFound, At, Seeks
  <2>2. QED
    BY <1>4, <2>1
<1>6. CASE Rmdir(p) /\ proc[p].id = NoId
  <2>1. UNCHANGED state /\ \A k \in Ids : ~Uses(k, x)
    BY <1>1, <1>2, <1>6 DEF Rmdir, At, Seeks, Either
  <2>2. QED
    BY <1>4, <2>1
<1>7. ASSUME Forget(p) \/ RmState(p) PROVE Uses(j, x) /\ j = proc[p].id
  <2>1. Uses(j, x)
    BY <1>7, UsesOfWork DEF Forget, RmState, AddUser, Record, At
  <2>2. proc[p].id \in Ids /\ state[proc[p].id].saved
    BY <1>7, HeldType DEF Forget, RmState, At, Locked
  <2>3. proc[p].op \in {"unstage", "unpublish"}
    BY <1>1 DEF Request
  <2>4. x \in Users(proc[p].id) \/ Uses(proc[p].id, x)
    BY <1>1, <1>2, <1>7, <2>2, <2>3, ConstantsAssumption
       DEF Forget, RmState, At, Finds, Past, Unmounting, Paths
  <2>5. Uses(proc[p].id, x)
    BY <2>2, <2>4 DEF Uses
  <2>6. QED
    BY <2>1, <2>2, <2>5, UsesOne
<1>8. CASE RmState(p)
  <2>1. ~state'[j].saved
    BY <1>7, <1>8 DEF RmState, SaveState, NoState, Inv, TypeOK
  <2>2. QED
    BY <2>1 DEF Uses
<1>9. CASE Forget(p)
  <2>1. j = proc[p].id
    BY <1>7, <1>9
  <2>2. /\ state'[j].at = state[j].at /\ state'[j].targets = state[j].targets \ {x}
        /\ state'[j].users = Users(j) \ {x}
    BY <1>1, <1>9, <2>1, ForgetSaves
  <2>3. Mountpoint(j) = j \/ Users(j) \ {x} # {}
    BY <1>1, <1>9, <2>1 DEF SharedInv, Sharing, Forget, At
  <2>4. x \notin Users(j)'
    BY <2>2, <2>3 DEF Users, Mountpoint
  <2>5. QED
    BY <2>2, <2>4 DEF Uses
<1>10. QED
  BY <1>1, <1>3, <1>5, <1>6, <1>8, <1>9

(* A step of a call or a pass. *)
LEMMA WorkStages ==
  ASSUME Order, Staged, NEW p \in Procs, Work(p)
  PROVE  Staged'
<1> USE DEF Order
<1>1. OnlyMoves(p) /\ proc[p].pc # "idle"
  BY WorkFrame, WorkIsBusy
<1>2. ASSUME NEW s \in Stagings, s \in dirs PROVE s \in dirs'
  BY <1>2, DirsByKind
<1>3. ASSUME AddUser(p) \/ Record(p)
      PROVE  p \in Calls /\ told[proc[p].path] = "unsure" /\ Handles(p) /\ Finds(p)
  <2>1. p \in Calls
    BY <1>3 DEF AddUser, Record, At, Inv, Shape, WellFormed, ReconcilePcs, Procs
  <2>2. QED
    BY <1>1, <2>1 DEF Orderly, Handling, Found
<1>4. ASSUME NEW i \in Ids, NEW x \in Stagings \cup Targets, Uses(i, x)' PROVE told'[x] # "none"
  <2>1. CASE told'[x] = told[x]
    <3>1. Uses(i, x) => told[x] # "none"
      BY DEF Staged
    <3>2. ~Uses(i, x) => told[x] = "unsure"
      BY <1>3, <1>4, UsesOfWork
    <3>3. QED
      BY <2>1, <3>1, <3>2
  <2>2. CASE told'[x] # told[x]
    BY <1>4, <2>2, LeftIsUnused
  <2>3. QED
    BY <2>1, <2>2
<1>5. ASSUME NEW i \in Ids, NEW s \in Stagings, Uses(i, s)' PROVE s \in dirs'
  <2>1. CASE Uses(i, s)
    BY <1>2, <2>1 DEF Staged
  <2>2. CASE ~Uses(i, s)
    <3>1. AddUser(p) /\ s = proc[p].path /\ p \in Calls /\ proc[p].op = "stage"
      BY <1>5, <2>2, StagingUses
    <3>2. s \in dirs
      BY <3>1 DEF Staged, AddUser, JoinPcs
    <3>3. QED
      BY <1>2, <3>2
  <2>3. QED
    BY <2>1, <2>2
<1>6. ASSUME NEW i \in Ids, state'[i].saved, NEW t \in state'[i].targets PROVE UserOf(t) \in Users(i)'
  <2>1. CASE i # proc[p].id
    <3>1. state'[i] = state[i]
      BY <2>1, WorkFrame DEF OnlyTouches
    <3>2. QED
      BY <1>6, <3>1 DEF Staged, Users, Mountpoint
  <2>2. ASSUME i = proc[p].id, state[i].saved, t \in state[i].targets
        PROVE  /\ UserOf(t) \in Users(i) /\ t \in Published
               /\ UserOf(t) \in Stagings => Uses(i, UserOf(t))
    BY <2>2 DEF Staged, Sites, Uses
  <2>3. CASE i = proc[p].id /\ UsersStay(i)
    BY <1>6, <2>2, <2>3 DEF UsersStay
  <2>4. CASE UsersBegin(i)
    BY <1>6, <2>4 DEF UsersBegin
  <2>5. CASE i = proc[p].id /\ UsersChange(i, Users(i) \cup {proc[p].path}, state[i].targets)
    BY <1>6, <2>2, <2>5 DEF UsersChange
  <2>6. CASE i = proc[p].id /\ Record(p) /\ UsersChange(i, Users(i), state[i].targets \cup {proc[p].path})
    <3>1. UserOf(proc[p].path) \in Users(i)
      BY <1>3, <2>6 DEF Finds, Record, At, BindPcs
    <3>2. QED
      BY <1>6, <2>2, <2>6, <3>1 DEF UsersChange
  <2>7. CASE /\ i = proc[p].id /\ Forget(p)
             /\ UsersChange(i, Users(i) \ {proc[p].path}, state[i].targets \ {proc[p].path})
    <3>1. /\ Users(i)' = Users(i) \ {proc[p].path} /\ t \in state[i].targets /\ t # proc[p].path
          /\ state[i].saved
      BY <1>6, <2>7 DEF UsersChange
    <3>2. p \in Calls /\ proc[p].path \in Paths /\ told[proc[p].path] = "unsure"
      BY <1>1, <2>7, PathType
         DEF Forget, At, Inv, Shape, WellFormed, ReconcilePcs, Procs, Orderly
    <3>3. UserOf(t) = proc[p].path => t \in Targets
      BY <3>1 DEF UserOf
    <3>4. t \in Targets => told[StagingOf[t]] = "up"
      <4>1. Uses(i, t)
        BY <3>1 DEF Uses
      <4>2. QED
        BY <4>1 DEF Staged, InOrder
    <3>5. UserOf(t) # proc[p].path
      BY <3>2, <3>3, <3>4 DEF UserOf
    <3>6. QED
      BY <2>2, <2>7, <3>1, <3>5
  <2>8. CASE /\ i = proc[p].id /\ DropUsers(p)
             /\ UsersChange(i, Users(i) \cap dirs, state[i].targets \cap dirs)
    <3>1. Users(i)' = Users(i) \cap dirs /\ t \in state[i].targets /\ t \in dirs /\ state[i].saved
      BY <1>6, <2>8 DEF UsersChange
    <3>2. UserOf(t) \in Users(i) /\ t \in Published /\ (UserOf(t) \in Stagings => Uses(i, UserOf(t)))
      BY <2>2, <2>8, <3>1
    <3>3. UserOf(t) \in dirs
      BY <3>1, <3>2, ConstantsAssumption DEF UserOf, Published, Staged
    <3>4. QED
      BY <3>1, <3>2, <3>3
  <2>9. CASE i = proc[p].id
    BY <2>3, <2>4, <2>5, <2>6, <2>7, <2>8, <2>9, UsersOfWork
  <2>10. QED
    BY <2>1, <2>9
<1>7. ASSUME NEW q \in Calls, proc'[q].op = "stage", proc'[q].pc \in JoinPcs \ {"args"}
      PROVE  proc'[q].path \in dirs'
  <2>1. q \in Procs /\ q # Reconciler
    BY ConstantsAssumption DEF Procs
  <2>2. CASE q # p
    <3>1. proc'[q] = proc[q] /\ proc[q].pc # "idle"
      BY <1>1, <1>7, <2>1, <2>2 DEF OnlyMoves, JoinPcs
    <3>2. proc[q].path \in Stagings /\ proc[q].path \in dirs
      BY <1>7, <2>1, <3>1, PathType DEF Request, Staged
    <3>3. QED
      BY <1>2, <3>1, <3>2
  <2>3. CASE q = p
    <3>1. CallMoves(p) /\ proc'[p].path = proc[p].path /\ proc[p].op = "stage"
      BY <1>7, <2>1, <2>3, MovesOfCall DEF Continues, Idle, JoinPcs
    <3>2. proc[p].path \in Stagings
      BY <1>1, <2>1, <2>3, <3>1, PathType DEF Request
    <3>3. Args(p) \/ proc[p].pc \in JoinPcs \ {"args"}
      BY <1>7, <2>3, <3>1 DEF CallMoves, JoinPcs, Mount, Save, Start, SetMounted, Remount, StopOld, At
    <3>4. CASE Args(p)
      BY <2>3, <3>1, <3>4 DEF Args
    <3>5. CASE proc[p].pc \in JoinPcs \ {"args"}
      BY <1>2, <2>3, <3>1, <3>2, <3>5 DEF Staged
    <3>6. QED
      BY <3>3, <3>4, <3>5
  <2>4. QED
    BY <2>2, <2>3
<1>8. QED
  BY <1>4, <1>5, <1>6, <1>7 DEF Staged

(* What is recorded of a volume stays true in kubelet's order. *)
LEMMA StagedStep == Order /\ Staged /\ [KubeletNext]_vars => Staged'
<1> SUFFICES ASSUME Order, Staged, [KubeletNext]_vars PROVE Staged'
  OBVIOUS
<1> USE DEF Order
<1>1. ASSUME NEW p \in Procs, Work(p) PROVE Staged'
  BY <1>1, WorkStages
<1>2. ASSUME UNCHANGED state,
             \A x \in Stagings \cup Targets : told'[x] = "none" => told[x] = "none",
             \A s \in Stagings : s \in dirs => s \in dirs' \/ told[s] = "none",
             \A q \in Calls : proc'[q].op = "stage" /\ proc'[q].pc \in JoinPcs \ {"args"}
                                 => proc'[q].path \in dirs'
      PROVE  Staged'
  <2>1. \A i \in Ids : \A x : Uses(i, x)' <=> Uses(i, x)
    BY <1>2 DEF Uses, Users, Mountpoint
  <2>2. \A i \in Ids : Users(i)' = Users(i)
    BY <1>2 DEF Users, Mountpoint
  <2>3. \A i \in Ids, x \in Stagings \cup Targets : Uses(i, x)' => told'[x] # "none"
    BY <1>2, <2>1 DEF Staged
  <2>4. \A i \in Ids, s \in Stagings : Uses(i, s)' => s \in dirs'
    BY <1>2, <2>1 DEF Staged
  <2>5. \A i \in Ids : state'[i].saved => \A t \in state'[i].targets : UserOf(t) \in Users(i)'
    BY <1>2, <2>2 DEF Staged
  <2>6. QED
    BY <1>2, <2>3, <2>4, <2>5 DEF Staged
<1>3. ASSUME ~\E p \in Procs : Work(p), NEW x \in Stagings \cup Targets, told'[x] = "none"
      PROVE  told[x] = "none"
  BY <1>3, ToldOfSteps DEF Paths
<1>4. ASSUME NEW q \in Calls, proc[q].op = "stage", proc[q].pc \in JoinPcs \ {"args"}
      PROVE  /\ proc[q].path \in dirs /\ proc[q].path \in Stagings
             /\ told[proc[q].path] = "unsure"
  <2>1. q \in Procs /\ q # Reconciler /\ proc[q].pc # "idle"
    BY <1>4, ConstantsAssumption DEF Procs, JoinPcs
  <2>2. QED
    BY <1>4, <2>1, PathType DEF Request, Staged, Orderly
<1>5. ASSUME NEW p \in Calls, NEW i \in Ids, Locking(p, i), ~\E q \in Procs : Work(q) PROVE Staged'
  <2>1. p \in Procs /\ OnlyMoves(p) /\ UNCHANGED <<state, dirs>>
    BY <1>5, LockingFrame DEF Procs
  <2>2. ASSUME NEW q \in Calls, proc'[q].op = "stage", proc'[q].pc \in JoinPcs \ {"args"}
        PROVE  proc'[q].path \in dirs'
    <3>1. CASE q # p
      BY <1>4, <2>1, <2>2, <3>1 DEF OnlyMoves, Procs
    <3>2. CASE q = p /\ SkipMount(p, i)
      BY <2>1, <2>2, <3>2, SkipMoves DEF JoinPcs
    <3>0. proc'[q] # Idle
      BY <2>2 DEF JoinPcs, Idle
    <3>3. CASE q = p /\ LockMountOf(p, i)
      <4>1. proc'[q].pc \in {"release", "record", "unbind"}
        BY <2>1, <3>0, <3>3, LockMountOfMoves
      <4>2. QED
        BY <2>2, <4>1 DEF JoinPcs
    <3>4. CASE q = p /\ Acquire(p, i)
      <4>1. Locks(p, i) /\ proc[p].pc = "acquire"
        BY <2>1, <3>0, <3>4, AcquireMoves
      <4>2. QED
        BY <1>4, <2>1, <2>2, <3>4, <4>1 DEF Locks, JoinPcs
    <3>5. QED
      BY <1>5, <3>1, <3>2, <3>3, <3>4 DEF Locking
  <2>3. QED
    BY <1>2, <1>3, <1>5, <2>1, <2>2
<1>6. ASSUME NEW i \in Ids, Reconcile(i), ~\E q \in Procs : Work(q) PROVE Staged'
  <2>1. OnlyMoves(Reconciler) /\ UNCHANGED <<state, dirs>>
    BY <1>6, ReconcileFrame
  <2>2. \A q \in Calls : proc'[q] = proc[q]
    BY <2>1, ConstantsAssumption DEF OnlyMoves, Procs
  <2>3. QED
    BY <1>2, <1>3, <1>4, <1>6, <2>1, <2>2
<1>7. ASSUME NEW p \in Calls, NEW r \in Requests, Call(p, r[1], r[2]), ~\E q \in Procs : Work(q)
      PROVE  Staged'
  <2>1. OnlyMoves(p) /\ UNCHANGED <<state, dirs>> /\ proc'[p].pc \in {"args", "find"}
    BY <1>7, CallFrame
  <2>2. \A q \in Calls : q # p => proc'[q] = proc[q]
    BY <2>1 DEF OnlyMoves, Procs
  <2>3. proc'[p].pc \notin JoinPcs \ {"args"}
    BY <2>1 DEF JoinPcs
  <2>4. QED
    BY <1>2, <1>3, <1>4, <1>7, <2>1, <2>2, <2>3
<1>8. ASSUME Crash, ~\E q \in Procs : Work(q) PROVE Staged'
  <2>1. UNCHANGED <<state, dirs>> /\ \A q \in Calls : proc'[q] = Idle
    BY <1>8 DEF Crash, Procs
  <2>2. Idle.pc \notin JoinPcs
    BY DEF Idle, JoinPcs
  <2>3. QED
    BY <1>2, <1>3, <1>8, <2>1, <2>2
<1>9. ASSUME Outside, ~\E q \in Procs : Work(q) PROVE Staged'
  <2>1. UNCHANGED <<state, dirs, proc>>
    BY <1>9 DEF Outside
  <2>2. QED
    BY <1>2, <1>3, <1>4, <1>9, <2>1
<1>10. ASSUME NEW s \in Stagings, KubeletCleans(s), ~\E q \in Procs : Work(q) PROVE Staged'
  <2>1. UNCHANGED <<state, proc>> /\ dirs' = dirs \ {s} /\ told[s] = "none"
    BY <1>10 DEF KubeletCleans, KubeletRemoves
  <2>2. QED
    BY <1>2, <1>3, <1>4, <1>10, <2>1
<1>11. CASE \E p \in Calls : Timeout(p)
  BY <1>11 DEF Timeout, Orderly
<1>12. QED
  BY <1>1, <1>5, <1>6, <1>7, <1>8, <1>9, <1>10, <1>11, KubeletSteps

(* 4.0.0 left staged volumes, and no targets. *)
LEMMA StagedBegins == Init => InOrder /\ Staged
<1> SUFFICES ASSUME Init PROVE InOrder /\ Staged
  OBVIOUS
<1>1. \A q \in Calls : q \in Procs /\ proc[q] = Idle
  BY DEF Init, Procs
<1>2. dirs \subseteq Stagings
  BY ConstantsAssumption DEF Init
<1>3. \A t \in Targets : told[t] = "none"
  BY <1>2, ConstantsAssumption DEF Init, Paths
<1>4. InOrder
  BY <1>3 DEF InOrder
<1>5. ASSUME NEW i \in Ids, state[i].saved
      PROVE  Users(i) \subseteq dirs /\ state[i].targets = {}
  <2>1. i \in DOMAIN Legacy
    BY <1>5 DEF Init, NoState
  <2>2. state[i].users = {} /\ state[i].targets = {} /\ state[i].at = Legacy[i]
    BY <2>1 DEF Init, NoState
  <2>3. Legacy[i] \in dirs
    BY <2>1 DEF Init
  <2>4. QED
    BY <2>2, <2>3 DEF Users, Mountpoint
<1>6. \A x \in dirs : told[x] # "none"
  BY <1>2 DEF Init, Paths
<1>7. \A i \in Ids : \A x : Uses(i, x) => x \in dirs
  BY <1>5 DEF Uses
<1>8. QED
  BY <1>1, <1>4, <1>5, <1>6, <1>7 DEF Staged, Idle, JoinPcs

-----------------------------------------------------------------------------
(* The mounts of 4.0.0 *)

(* 4.0.0 named a mount after its volume: no arguments hash to its id, but  *)
(* perhaps those of the volume itself.                                     *)
LegacyOwn ==
    \A i \in DOMAIN Legacy, path \in Stagings \cup Ephemerals : i \in IdsOf[path] => path = Legacy[i]

(* acquire works on an id of its path. *)
Joins(p) ==
    /\ proc[p].pc = "acquire" => proc[p].left \subseteq IdsOf[proc[p].path]
    /\ proc[p].pc \in JoinPcs \ {"args", "acquire"} => proc[p].id \in IdsOf[proc[p].path]

(* So nobody joins a mount at a staging path. *)
Legacies ==
    /\ \A p \in Calls : Joins(p)
    /\ \A i \in Ids : state[i].saved /\ Mountpoint(i) # i => Users(i) \subseteq {Mountpoint(i)}

(* A step of a call or a pass. *)
LEMMA WorkJoins ==
  ASSUME LegacyOwn, Inv, SharedInv, Handling, Sites, Legacies, NEW p \in Procs, Work(p)
  PROVE  Legacies'
<1>1. OnlyMoves(p)
  BY WorkFrame
<1>2. ASSUME NEW q \in Calls PROVE Joins(q)'
  <2>1. q \in Procs /\ q # Reconciler /\ Joins(q)
    BY ConstantsAssumption DEF Procs, Legacies
  <2>2. CASE q # p
    BY <1>1, <2>1, <2>2 DEF OnlyMoves, Joins
  <2>3. CASE q = p /\ proc'[q] = Idle
    BY <2>3 DEF Joins, Idle, JoinPcs
  <2>4. CASE q = p /\ CallMoves(q) /\ Continues(q)
    <3>1. proc'[q].path = proc[q].path /\ proc'[q].id = proc[q].id
      BY <2>1, <2>4 DEF Continues
    <3>2. CASE Args(q)
      <4>1. /\ proc'[q].pc = "acquire"
            /\ \E i \in Ids : i \in IdsOf[proc[q].path] /\ proc'[q].left = {i}
        BY <2>1, <3>2, ArgsMoves
      <4>2. QED
        BY <3>1, <4>1 DEF Joins, JoinPcs
    <3>3. CASE /\ proc[q].pc \in JoinPcs \ {"args", "acquire"}
               /\ proc'[q].pc \in JoinPcs \ {"args", "acquire"}
      BY <2>1, <3>1, <3>3 DEF Joins
    <3>4. CASE proc'[q].pc \notin JoinPcs \ {"args"}
      BY <3>4 DEF Joins, JoinPcs
    <3>5. QED
      BY <2>4, <3>2, <3>3, <3>4
         DEF CallMoves, JoinPcs, Mount, Save, Start, SetMounted, Remount, StopOld, At
  <2>5. QED
    BY <2>1, <2>2, <2>3, <2>4, MovesOfCall
<1>3. ASSUME NEW i \in Ids, state'[i].saved, Mountpoint(i)' # i
      PROVE  Users(i)' \subseteq {Mountpoint(i)'}
  <2>1. CASE i # proc[p].id
    <3>1. state'[i] = state[i]
      BY <2>1, WorkFrame DEF OnlyTouches
    <3>2. QED
      BY <1>3, <3>1 DEF Legacies, Users, Mountpoint
  <2>2. ASSUME NEW users, NEW targets, UsersChange(i, users, targets)
        PROVE  /\ Users(i)' = users /\ Mountpoint(i)' = Mountpoint(i)
               /\ Users(i) \subseteq {Mountpoint(i)}
    BY <1>3, <2>2 DEF UsersChange, Legacies
  <2>3. CASE i = proc[p].id /\ UsersStay(i)
    BY <1>3, <2>3 DEF UsersStay, Legacies
  <2>4. CASE UsersBegin(i)
    BY <1>3, <2>4 DEF UsersBegin
  <2>5. CASE /\ i = proc[p].id /\ AddUser(p)
             /\ UsersChange(i, Users(i) \cup {proc[p].path}, state[i].targets)
    <3>1. p \in Calls /\ proc[p].pc \in JoinPcs \ {"args", "acquire"}
      BY <2>5 DEF AddUser, JoinPcs, Inv, Shape, WellFormed, ReconcilePcs, Procs
    <3>2. i \in IdsOf[proc[p].path] /\ proc[p].path \in Stagings \cup Ephemerals
      BY <2>5, <3>1 DEF Legacies, Joins, Handling, Handles
    <3>3. i \in DOMAIN Legacy /\ Mountpoint(i) = Legacy[i]
      BY <1>3, <2>2, <2>5, SitesUsers
    <3>4. proc[p].path = Mountpoint(i)
      BY <3>2, <3>3 DEF LegacyOwn
    <3>5. QED
      BY <2>2, <2>5, <3>4
  <2>6. CASE UsersChange(i, Users(i), state[i].targets \cup {proc[p].path})
    BY <2>2, <2>6
  <2>7. CASE UsersChange(i, Users(i) \ {proc[p].path}, state[i].targets \ {proc[p].path})
    BY <2>2, <2>7
  <2>8. CASE UsersChange(i, Users(i) \cap dirs, state[i].targets \cap dirs)
    BY <2>2, <2>8
  <2>9. CASE i = proc[p].id
    BY <2>3, <2>4, <2>5, <2>6, <2>7, <2>8, <2>9, UsersOfWork
  <2>10. QED
    BY <2>1, <2>9
<1>4. QED
  BY <1>2, <1>3 DEF Legacies

(* Nobody comes to share a mount of 4.0.0. *)
LEMMA LegaciesStep ==
  ASSUME LegacyOwn
  PROVE  Inv /\ SharedInv /\ Handling /\ Sites /\ Legacies /\ [KubeletNext]_vars => Legacies'
<1> SUFFICES ASSUME Inv, SharedInv, Handling, Sites, Legacies, [KubeletNext]_vars PROVE Legacies'
  OBVIOUS
<1>1. ASSUME NEW p \in Procs, Work(p) PROVE Legacies'
  BY <1>1, WorkJoins
<1>2. ASSUME UNCHANGED state, \A q \in Calls : Joins(q)' PROVE Legacies'
  BY <1>2 DEF Legacies, Users, Mountpoint
<1>3. ASSUME NEW q \in Calls, proc'[q] = proc[q] PROVE Joins(q)'
  BY <1>3 DEF Joins, Legacies
<1>4. ASSUME NEW q \in Calls, proc'[q].pc \notin JoinPcs \ {"args"} PROVE Joins(q)'
  BY <1>4 DEF Joins, JoinPcs
<1>5. ASSUME NEW p \in Calls, NEW i \in Ids, Locking(p, i) PROVE Legacies'
  <2>1. p \in Procs /\ OnlyMoves(p) /\ UNCHANGED state /\ Joins(p)
    BY <1>5, LockingFrame DEF Procs, Legacies
  <2>2. ASSUME NEW q \in Calls PROVE Joins(q)'
    <3>1. CASE q # p
      BY <1>3, <2>1, <3>1 DEF OnlyMoves, Procs
    <3>2. CASE q = p /\ proc'[q] = Idle
      BY <1>4, <3>2 DEF Idle, JoinPcs
    <3>3. CASE q = p /\ SkipMount(p, i)
      BY <1>4, <2>1, <3>3, SkipMoves DEF JoinPcs
    <3>4. CASE q = p /\ LockMountOf(p, i) /\ proc'[q] # Idle
      <4>1. proc'[q].pc \in {"release", "record", "unbind"}
        BY <2>1, <3>4, LockMountOfMoves
      <4>2. QED
        BY <1>4, <4>1 DEF JoinPcs
    <3>5. CASE q = p /\ Acquire(p, i) /\ proc'[q] # Idle
      <4>1. /\ proc[q].pc = "acquire" /\ i \in proc[q].left /\ proc'[q].id = i
            /\ proc'[q].path = proc[q].path /\ proc'[q].pc \in {"mount", "adduser", "remount"}
        BY <2>1, <3>5, AcquireMoves DEF Locks
      <4>2. i \in IdsOf[proc[q].path]
        BY <2>1, <3>5, <4>1 DEF Joins
      <4>3. QED
        BY <4>1, <4>2 DEF Joins, JoinPcs
    <3>6. QED
      BY <1>5, <3>1, <3>2, <3>3, <3>4, <3>5 DEF Locking
  <2>3. QED
    BY <1>2, <2>1, <2>2
<1>6. ASSUME NEW i \in Ids, Reconcile(i) PROVE Legacies'
  <2>1. OnlyMoves(Reconciler) /\ UNCHANGED state
    BY <1>6, ReconcileFrame
  <2>2. \A q \in Calls : proc'[q] = proc[q]
    BY <2>1, ConstantsAssumption DEF OnlyMoves, Procs
  <2>3. QED
    BY <1>2, <1>3, <2>1, <2>2
<1>7. ASSUME NEW p \in Calls, NEW r \in Requests, Call(p, r[1], r[2]) PROVE Legacies'
  <2>1. OnlyMoves(p) /\ UNCHANGED state /\ proc'[p].pc \in {"args", "find"}
    BY <1>7, CallFrame
  <2>2. \A q \in Calls : q # p => proc'[q] = proc[q]
    BY <2>1 DEF OnlyMoves, Procs
  <2>3. proc'[p].pc \notin JoinPcs \ {"args"}
    BY <2>1 DEF JoinPcs
  <2>4. QED
    BY <1>2, <1>3, <1>4, <2>1, <2>2, <2>3
<1>8. ASSUME Crash PROVE Legacies'
  <2>1. UNCHANGED state /\ \A q \in Calls : proc'[q] = Idle
    BY <1>8 DEF Crash, Procs
  <2>2. Idle.pc \notin JoinPcs
    BY DEF Idle, JoinPcs
  <2>3. QED
    BY <1>2, <1>4, <2>1, <2>2
<1>9. CASE Outside \/ \E s \in Stagings : KubeletCleans(s)
  BY <1>2, <1>3, <1>9 DEF Outside, KubeletCleans, KubeletRemoves
<1>10. ASSUME NEW p \in Calls, Timeout(p) PROVE Legacies'
  <2>1. UNCHANGED state /\ proc' = [proc EXCEPT ![p].awaited = FALSE]
    BY <1>10 DEF Timeout
  <2>2. ASSUME NEW q \in Calls
        PROVE  /\ proc'[q].pc = proc[q].pc /\ proc'[q].id = proc[q].id
               /\ proc'[q].path = proc[q].path /\ proc'[q].left = proc[q].left
    BY <2>1 DEF Inv, TypeOK, Process, Procs
  <2>3. \A q \in Calls : Joins(q)'
    BY <2>2 DEF Joins, Legacies
  <2>4. QED
    BY <1>2, <2>1, <2>3
<1>11. QED
  BY <1>1, <1>5, <1>6, <1>7, <1>8, <1>9, <1>10, KubeletSteps

(* 4.0.0 had no other users. *)
LEMMA LegaciesBegin == Init => Legacies
<1> SUFFICES ASSUME Init PROVE Legacies
  OBVIOUS
<1>1. \A q \in Calls : Joins(q)
  BY DEF Init, Procs, Joins, Idle, JoinPcs
<1>2. \A i \in Ids : state[i].users = {}
  BY DEF Init, NoState
<1>3. QED
  BY <1>1, <1>2 DEF Legacies, Users

-----------------------------------------------------------------------------
(* The mount of a target *)

(* A mount has a state file and a mount point, and nobody takes it down. *)
Serves(i) ==
    /\ state[i].saved
    /\ Mountpoint(i) \in dirs
    /\ \A p \in Procs : proc[p].id = i => proc[p].pc \notin ClosingPcs

(* Its state file records the target. *)
Holds(i, t) == Serves(i) /\ t \in state[i].targets

Kept == Order /\ Staged /\ Legacies /\ Bare

(* A mount is taken down for its last user, or when its users are gone. *)
LEMMA ClosingBegins ==
  ASSUME Inv, NEW p \in Procs, Work(p), proc'[p].pc \in ClosingPcs, proc[p].pc \notin ClosingPcs
  PROVE  /\ proc[p].id \in Ids
         /\ \/ p \in Calls /\ Release(p) /\ Users(proc[p].id) \subseteq {proc[p].path}
            \/ DropUsers(p) /\ Users(proc[p].id) \cap dirs = {}
<1>1. proc'[p] # Idle
  BY DEF Idle, ClosingPcs
<1>2. CASE p # Reconciler
  <2>1. Release(p) /\ Users(proc[p].id) \subseteq {proc[p].path}
    BY <1>1, <1>2, MovesOfCall DEF CallMoves, ClosingPcs, Drain, Umount, Stop, At
  <2>2. QED
    BY <1>2, <2>1, LockedIds DEF Release, At, Locked, Procs
<1>3. CASE p = Reconciler
  <2>1. proc[p].pc \in {"remount", "stopold", "remountwait", "targets", "rebind"}
    BY <1>3, WorkIsBusy DEF Inv, Shape, WellFormed, ReconcilePcs, ClosingPcs
  <2>2. CASE Remount(p) \/ StopOld(p)
    BY <2>2, StepMoves DEF Remount, StopOld, At, ClosingPcs, Locked
  <2>3. CASE Ready(p)
    <3>1. proc'[p].pc = "targets"
      BY <1>3, <2>3, ReadyMoves
    <3>2. QED
      BY <3>1 DEF ClosingPcs
  <2>4. CASE Rebind(p) \/ \E t \in Paths : Target(p, t)
    <3>1. proc'[p].pc \in {"targets", "rebind"}
      BY <2>4, TargetMoves
    <3>2. QED
      BY <3>1 DEF ClosingPcs
  <2>5. CASE Fail(p) \/ StartFails(p)
    BY <1>1, <2>5, ReturnMoves DEF Fail, StartFails
  <2>6. CASE DropUsers(p)
    <3>1. Users(proc[p].id) \cap dirs = {}
      BY <1>1, <2>6, ReturnMoves DEF DropUsers
    <3>2. QED
      BY <2>6, <3>1, LockedIds DEF DropUsers, At, Locked
  <2>7. QED
    BY <2>1, <2>2, <2>3, <2>4, <2>5, <2>6
       DEF Work, Find, NotFound, Args, Mount, Save, Start, SetMounted, AddUser, Record, BindCheck,
           Bind, Unbind, Rmdir, Forget, Release, Drain, Umount, Stop, RmState, Gone, At
<1>4. QED
  BY <1>2, <1>3

(* A call or a pass removes the mount point of no mount but its own. *)
LEMMA WorkMountpoint ==
  ASSUME Inv, Handling, Sites, NEW p \in Procs, Work(p), NEW i \in Ids, Mountpoint(i) \in dirs
  PROVE  Mountpoint(i) \in dirs' \/ (Stop(p) /\ i = proc[p].id)
<1>1. Mountpoint(i) = i \/ Mountpoint(i) \in Stagings
  BY SitesUsers
<1>2. /\ i \in dirs \ dirs' => Stop(p) /\ i = proc[p].id
      /\ dirs \cap Stagings \subseteq dirs'
  BY DirsByKind
<1>3. QED
  BY <1>1, <1>2

(* Kubelet removes no staging path that is a mount point. *)
LEMMA MountpointIsStaged ==
  ASSUME Kept, NEW s \in Stagings, KubeletCleans(s), NEW i \in Ids, state[i].saved
  PROVE  Mountpoint(i) # s
<1> USE DEF Kept, Order
<1>1. i # s /\ told[s] = "none"
  BY ConstantsAssumption DEF KubeletCleans
<1>2. Mountpoint(i) = s => Users(i) \subseteq {s} /\ Users(i) # {}
  BY <1>1 DEF Legacies, Users
<1>3. Mountpoint(i) = s => Uses(i, s)
  BY <1>2 DEF Uses
<1>4. QED
  BY <1>1, <1>3 DEF Staged

(* The mount point of a mount goes with the mount. *)
LEMMA MountpointStays ==
  ASSUME Kept, [KubeletNext]_vars, NEW i \in Ids, state[i].saved, Mountpoint(i) \in dirs,
         \A p \in Procs : proc[p].id = i => proc[p].pc # "stop"
  PROVE  Mountpoint(i) \in dirs'
<1> USE DEF Kept, Order
<1>1. ASSUME NEW p \in Procs, Work(p) PROVE Mountpoint(i) \in dirs'
  BY <1>1, WorkMountpoint DEF Stop, At
<1>2. ASSUME NEW s \in Stagings, KubeletCleans(s) PROVE Mountpoint(i) \in dirs'
  BY <1>2, MountpointIsStaged DEF KubeletCleans, KubeletRemoves
<1>3. CASE dirs' = dirs
  BY <1>3
<1>4. QED
  BY <1>1, <1>2, <1>3, KubeletSteps, LockingFrame, ReconcileFrame, CallFrame
     DEF Timeout, Crash, Outside, Procs

(* A mount that holds a target whose directory is there is used. *)
LEMMA TargetUses ==
  ASSUME Kept, NEW i \in Ids, state[i].saved, NEW t \in state[i].targets, t \in dirs
  PROVE  /\ t \in Published /\ UserOf(t) \in Users(i) /\ UserOf(t) \in dirs
         /\ t \in Targets => told[StagingOf[t]] = "up"
<1> USE DEF Kept, Order
<1>1. t \in Published /\ UserOf(t) \in Users(i)
  BY DEF Sites, Staged
<1>2. Uses(i, UserOf(t)) /\ Uses(i, t)
  BY <1>1 DEF Uses
<1>3. t \in Targets => StagingOf[t] \in Stagings
  BY ConstantsAssumption
<1>4. t \in Targets => told[StagingOf[t]] = "up"
  BY <1>2 DEF Staged, InOrder
<1>5. UserOf(t) \in dirs
  BY <1>2, <1>3 DEF UserOf, Staged
<1>6. QED
  BY <1>1, <1>4, <1>5

(* A step of a call or a pass does not take down a mount in use. *)
LEMMA WorkHolds ==
  ASSUME Kept, NEW p \in Procs, Work(p), NEW i \in Ids, NEW t, Holds(i, t), t \in dirs
  PROVE  /\ state'[i].saved /\ t \in state'[i].targets /\ Mountpoint(i)' = Mountpoint(i)
         /\ \A q \in Procs : proc'[q].id = i => proc'[q].pc \notin ClosingPcs
<1> USE DEF Kept, Order
<1>1. /\ state[i].saved /\ t \in state[i].targets
      /\ \A q \in Procs : proc[q].id = i => proc[q].pc \notin ClosingPcs
  BY DEF Holds, Serves
<1>2. /\ t \in Published /\ UserOf(t) \in Users(i) /\ UserOf(t) \in dirs
      /\ t \in Targets => told[StagingOf[t]] = "up"
  BY <1>1, TargetUses
<1>3. OnlyMoves(p) /\ OnlyTouches(p) /\ proc[p].pc # "idle" /\ (proc'[p] = Idle \/ Continues(p))
  BY WorkFrame, WorkIsBusy
<1>4. CASE i # proc[p].id
  <2>1. state'[i] = state[i] /\ proc'[p].id # i
    BY <1>3, <1>4, ConstantsAssumption DEF OnlyTouches, Continues, Idle, Paths
  <2>2. QED
    BY <1>1, <1>3, <2>1 DEF OnlyMoves, Mountpoint
<1>5. CASE i = proc[p].id
  <2>1. proc[p].pc \notin ClosingPcs /\ \A q \in Procs : proc[q].id = i => q = p
    BY <1>1, <1>5, ConstantsAssumption DEF Inv, Safe, OneHolder, Paths
  <2>2. ASSUME p \in Calls, proc[p].op \in {"unstage", "unpublish"}, proc[p].pc \in Past
        PROVE  UserOf(t) # proc[p].path /\ t # proc[p].path
    <3>1. p # Reconciler /\ told[proc[p].path] = "unsure" /\ Request(proc[p])
      BY <1>3, <2>2, PathType, ConstantsAssumption DEF Orderly
    <3>2. proc[p].op = "unpublish" => proc[p].path \notin dirs
      BY <2>2 DEF Bare
    <3>3. proc[p].op = "unstage" => proc[p].path \in Stagings /\ proc[p].path \notin Published
      BY <3>1, ConstantsAssumption DEF Request, Published
    <3>4. UserOf(t) # t => told[UserOf(t)] = "up"
      BY <1>2 DEF UserOf
    <3>5. QED
      BY <1>2, <2>2, <3>1, <3>2, <3>3, <3>4
  <2>3. proc'[p].pc \notin ClosingPcs
    <3>1. SUFFICES ASSUME proc'[p].pc \in ClosingPcs PROVE FALSE
      OBVIOUS
    <3>2. CASE p \in Calls /\ Release(p) /\ Users(i) \subseteq {proc[p].path}
      <4>1. proc[p].op \in {"unstage", "unpublish"} /\ proc[p].pc \in Past
        BY <3>2 DEF Release, At, SharedInv, ForItsRequest, Past
      <4>2. QED
        BY <1>2, <2>2, <3>2, <4>1
    <3>3. CASE Users(i) \cap dirs = {}
      BY <1>2, <3>3
    <3>4. QED
      BY <1>5, <2>1, <3>1, <3>2, <3>3, ClosingBegins
  <2>4. \A q \in Procs : proc'[q].id = i => proc'[q].pc \notin ClosingPcs
    BY <1>3, <2>1, <2>3 DEF OnlyMoves
  <2>5. state'[i].saved /\ t \in state'[i].targets /\ Mountpoint(i)' = Mountpoint(i)
    <3>1. CASE UsersStay(i)
      BY <1>1, <3>1 DEF UsersStay
    <3>2. CASE Save(p) /\ ~state[i].saved
      BY <1>1, <3>2
    <3>3. CASE Removes(p)
      <4>1. ~RmState(p)
        BY <2>1 DEF RmState, At, ClosingPcs
      <4>2. proc[p].pc \in {"start", "mountwait"}
        BY <3>3, <4>1 DEF Removes, Start, At
      <4>3. state[i].users = {} /\ Mountpoint(i) = i
        BY <1>5, <4>2 DEF SharedInv, Sharing
      <4>4. QED
        BY <1>2, <4>3 DEF Users
    <3>4. CASE UsersChange(i, Users(i) \cup {proc[p].path}, state[i].targets)
      BY <1>1, <3>4 DEF UsersChange
    <3>5. CASE UsersChange(i, Users(i), state[i].targets \cup {proc[p].path})
      BY <1>1, <3>5 DEF UsersChange
    <3>6. CASE Forget(p) /\ UsersChange(i, Users(i) \ {proc[p].path}, state[i].targets \ {proc[p].path})
      <4>1. p \in Calls
        BY <3>6 DEF Forget, At, Inv, Shape, WellFormed, ReconcilePcs, Procs
      <4>2. proc[p].op \in {"unstage", "unpublish"} /\ proc[p].pc \in Past
        BY <3>6, <4>1 DEF Forget, At, SharedInv, ForItsRequest, Past
      <4>3. QED
        BY <1>1, <2>2, <3>6, <4>1, <4>2 DEF UsersChange
    <3>7. CASE UsersChange(i, Users(i) \cap dirs, state[i].targets \cap dirs)
      BY <1>1, <3>7 DEF UsersChange
    <3>8. QED
      BY <1>5, <3>1, <3>2, <3>3, <3>4, <3>5, <3>6, <3>7, UsersOfWork
  <2>6. QED
    BY <2>4, <2>5
<1>6. QED
  BY <1>4, <1>5

(* Only a step of a call or a pass begins to take a mount down. *)
LEMMA ServesOn ==
  ASSUME Kept, [KubeletNext]_vars, NEW i \in Ids, Serves(i), ~\E p \in Procs : Work(p)
  PROVE  Serves(i)' /\ UNCHANGED state
<1> USE DEF Kept, Order
<1>1. /\ state[i].saved /\ Mountpoint(i) \in dirs
      /\ \A p \in Procs : proc[p].id = i => proc[p].pc \notin ClosingPcs
  BY DEF Serves
<1>2. Mountpoint(i) \in dirs'
  BY <1>1, MountpointStays DEF ClosingPcs
<1>3. ASSUME UNCHANGED state, \A q \in Procs : proc'[q].id = i => proc'[q].pc \notin ClosingPcs
      PROVE  Serves(i)' /\ UNCHANGED state
  BY <1>1, <1>2, <1>3 DEF Serves, Mountpoint
<1>4. ASSUME NEW p \in Procs, OnlyMoves(p), UNCHANGED state,
             proc'[p].id = i => proc'[p].pc \notin ClosingPcs
      PROVE  Serves(i)' /\ UNCHANGED state
  BY <1>1, <1>3, <1>4 DEF OnlyMoves
<1>5. ASSUME NEW p \in Calls, NEW j \in Ids, Locking(p, j) PROVE Serves(i)' /\ UNCHANGED state
  <2>1. p \in Procs /\ OnlyMoves(p) /\ UNCHANGED state
    BY <1>5, LockingFrame DEF Procs
  <2>2. CASE proc'[p] = Idle
    BY <1>4, <2>1, <2>2 DEF Idle, ClosingPcs
  <2>3. CASE proc'[p] # Idle /\ LockMountOf(p, j)
    <3>1. proc'[p].pc \in {"release", "record", "unbind"}
      BY <2>1, <2>3, LockMountOfMoves
    <3>2. QED
      BY <1>4, <2>1, <3>1 DEF ClosingPcs
  <2>4. CASE proc'[p] # Idle /\ Acquire(p, j)
    <3>1. proc'[p].pc \in {"mount", "adduser", "remount"}
      BY <2>1, <2>4, AcquireMoves
    <3>2. QED
      BY <1>4, <2>1, <3>1 DEF ClosingPcs
  <2>5. CASE SkipMount(p, j)
    BY <1>4, <2>1, <2>5, SkipMoves DEF ClosingPcs
  <2>6. QED
    BY <1>5, <2>2, <2>3, <2>4, <2>5 DEF Locking
<1>6. ASSUME NEW j \in Ids, Reconcile(j) PROVE Serves(i)' /\ UNCHANGED state
  <2>1. /\ Reconciler \in Procs /\ OnlyMoves(Reconciler) /\ UNCHANGED state
        /\ proc'[Reconciler].id = j
        /\ proc'[Reconciler].pc = IF Probe(Mountpoint(j)) = "Live" THEN "targets"
                                  ELSE IF Probe(Mountpoint(j)) = "Gone" THEN "gone" ELSE "remount"
    BY <1>6, ReconcileFrame DEF Procs
  <2>2. Probe(Mountpoint(i)) # "Gone"
    BY <1>1 DEF Probe
  <2>3. proc'[Reconciler].id = i => proc'[Reconciler].pc \notin ClosingPcs
    BY <2>1, <2>2 DEF ClosingPcs
  <2>4. QED
    BY <1>4, <2>1, <2>3
<1>7. ASSUME NEW p \in Calls, NEW r \in Requests, Call(p, r[1], r[2]) PROVE Serves(i)' /\ UNCHANGED state
  <2>1. p \in Procs /\ OnlyMoves(p) /\ UNCHANGED state /\ proc'[p].pc \in {"args", "find"}
    BY <1>7, CallFrame
  <2>2. QED
    BY <1>4, <2>1 DEF ClosingPcs
<1>8. CASE Crash
  <2>1. UNCHANGED state /\ \A q \in Procs : proc'[q] = Idle
    BY <1>8 DEF Crash
  <2>2. Idle.pc \notin ClosingPcs
    BY DEF Idle, ClosingPcs
  <2>3. QED
    BY <1>3, <2>1, <2>2
<1>9. CASE Outside \/ \E s \in Stagings : KubeletCleans(s)
  BY <1>1, <1>3, <1>9 DEF Outside, KubeletCleans, KubeletRemoves
<1>10. CASE \E p \in Calls : Timeout(p)
  BY <1>10 DEF Timeout, Orderly
<1>11. QED
  BY <1>5, <1>6, <1>7, <1>8, <1>9, <1>10, KubeletSteps

(* A mount is not taken down, nor a target forgotten, while the target is there. *)
LEMMA HoldsStay ==
  ASSUME Kept, [KubeletNext]_vars, NEW i \in Ids, NEW t, Holds(i, t), t \in dirs
  PROVE  Holds(i, t)'
<1>1. CASE \E p \in Procs : Work(p)
  <2>1. PICK p \in Procs : Work(p)
    BY <1>1
  <2>2. /\ state'[i].saved /\ t \in state'[i].targets /\ Mountpoint(i)' = Mountpoint(i)
        /\ \A q \in Procs : proc'[q].id = i => proc'[q].pc \notin ClosingPcs
    BY <2>1, WorkHolds
  <2>3. Mountpoint(i) \in dirs'
    BY MountpointStays DEF Holds, Serves, ClosingPcs
  <2>4. QED
    BY <2>2, <2>3 DEF Holds, Serves
<1>2. CASE ~\E p \in Procs : Work(p)
  BY <1>2, ServesOn DEF Holds
<1>3. QED
  BY <1>1, <1>2

-----------------------------------------------------------------------------
(* What the targets show *)

(* An rclone is mounted at its own mount point and on targets only. *)
MountedAt == \A j \in Ids, path \in Paths :
    LiveIn(j, fuse[path]) => path \in {j} \cup LegacyAt(j) \cup Published

(* A process that binds a target holds the mount of the target. *)
Binding(p) ==
    LET i == proc[p].id IN
    /\ p \in Calls /\ proc[p].pc \in {"bindcheck", "bind"} => Mountpoint(i) \in dirs
    /\ p = Reconciler /\ proc[p].pc \in {"targets", "rebind"}
          => Mountpoint(i) \in dirs /\ proc[p].left \subseteq state[i].targets
    /\ p = Reconciler /\ proc[p].pc = "rebind" => proc[p].path \in state[i].targets

(* A target that kubelet was told of is held by a mount, and a mount that  *)
(* a target shows holds it.                                                *)
Targeted ==
    /\ MountedAt
    /\ \A p \in Procs : Binding(p)
    /\ \A t \in Published, i \in Ids : LiveIn(i, fuse[t]) => Holds(i, t)
    /\ \A t \in Published : told[t] = "up" => t \in dirs /\ \E i \in Ids : Holds(i, t)

(* A process that has yet to bind. *)
LEMMA BindsNothing ==
  ASSUME NEW p \in Procs, proc'[p].pc \notin {"bindcheck", "bind", "targets", "rebind"}
  PROVE  Binding(p)'
  BY DEF Binding

(* A process holds what it binds while it does not move. *)
LEMMA BindingStays ==
  ASSUME Kept, [KubeletNext]_vars, NEW p \in Procs, Binding(p),
         proc'[p].pc = proc[p].pc, proc'[p].id = proc[p].id, proc'[p].path = proc[p].path,
         proc'[p].left = proc[p].left, proc[p].id \in Ids => state'[proc[p].id] = state[proc[p].id]
  PROVE  Binding(p)'
<1> USE DEF Kept, Order
<1>1. CASE proc[p].pc \in {"bindcheck", "bind", "targets", "rebind"}
  <2>0. PICK i : i = proc[p].id
    OBVIOUS
  <2>1. i \in Ids /\ state[i].saved /\ state'[i] = state[i]
    BY <1>1, <2>0, HeldType DEF Locked
  <2>2. \A q \in Procs : proc[q].id = i => proc[q].pc # "stop"
    BY <1>1, <2>0, <2>1, ConstantsAssumption DEF Inv, Safe, OneHolder, Paths
  <2>3. Mountpoint(i) \in dirs => Mountpoint(i) \in dirs'
    BY <2>1, <2>2, MountpointStays
  <2>4. Mountpoint(i)' = Mountpoint(i)
    BY <2>1 DEF Mountpoint
  <2>5. /\ Binding(p) <=>
             /\ p \in Calls /\ proc[p].pc \in {"bindcheck", "bind"} => Mountpoint(i) \in dirs
             /\ p = Reconciler /\ proc[p].pc \in {"targets", "rebind"}
                   => Mountpoint(i) \in dirs /\ proc[p].left \subseteq state[i].targets
             /\ p = Reconciler /\ proc[p].pc = "rebind" => proc[p].path \in state[i].targets
        /\ proc'[p].id = i
    BY <2>0 DEF Binding
  <2>6. QED
    BY <2>1, <2>3, <2>4, <2>5 DEF Binding
<1>2. CASE proc[p].pc \notin {"bindcheck", "bind", "targets", "rebind"}
  BY <1>2, BindsNothing
<1>3. QED
  BY <1>1, <1>2

(* A mount point shows its own rclone, or nothing that lives. *)
LEMMA ShowsItsOwn ==
  ASSUME Inv, Sites, MountedAt, NEW i \in Ids, NEW j \in Ids,
         fuse[Mountpoint(j)] # <<>>, Head(fuse[Mountpoint(j)]) = Own(i)
  PROVE  i = j
<1>1. Mountpoint(j) \in Paths /\ fuse[Mountpoint(j)] \in Seq(Entry)
  BY UsersType DEF Inv, TypeOK
<1>2. LiveIn(i, fuse[Mountpoint(j)])
  <2>1. 1 \in 1..Len(fuse[Mountpoint(j)]) /\ Head(fuse[Mountpoint(j)]) = fuse[Mountpoint(j)][1]
    BY <1>1, EmptySeq, LenProperties
  <2>2. QED
    BY <2>1 DEF LiveIn
<1>3. Mountpoint(j) \in {i} \cup LegacyAt(i) \cup Published
  BY <1>1, <1>2 DEF MountedAt
<1>4. Mountpoint(j) \in {j} \cup LegacyAt(j)
  BY DEF Sites, Mountpoint
<1>5. \A k \in Ids : \A x \in LegacyAt(k) : k \in DOMAIN Legacy /\ x = Legacy[k] /\ x \in Stagings
  BY ConstantsAssumption DEF LegacyAt
<1>6. QED
  BY <1>3, <1>4, <1>5, ConstantsAssumption DEF Published

(* A path that is live shows an rclone. *)
LEMMA LiveShows ==
  ASSUME Inv, NEW t \in Paths, live(t)
  PROVE  t \in dirs /\ \E i \in Ids : LiveIn(i, fuse[t])
<1>1. t \in dirs /\ fuse[t] # <<>> /\ Head(fuse[t]).kind \notin {"plain", "dead"}
  BY DEF live, Probe
<1>2. fuse[t] \in Seq(Entry) /\ 1 \in 1..Len(fuse[t]) /\ Head(fuse[t]) = fuse[t][1]
  <2>1. fuse[t] \in Seq(Entry)
    BY DEF Inv, TypeOK
  <2>2. QED
    BY <1>1, <2>1, EmptySeq, LenProperties
<1>3. fuse[t][1] \in Entry
  BY <1>2, ElementOfSeq
<1>4. fuse[t][1] = Own(fuse[t][1].id) /\ fuse[t][1].id \in Ids
  BY <1>1, <1>2, <1>3 DEF Entry, Own
<1>5. QED
  BY <1>1, <1>2, <1>4 DEF LiveIn

(* Own mount points are no targets. *)
LEMMA OwnPaths ==
  ASSUME NEW j \in Ids
  PROVE  ({j} \cup LegacyAt(j)) \cap Published = {}
<1>1. \A x \in LegacyAt(j) : x \in Stagings
  BY ConstantsAssumption DEF LegacyAt
<1>2. QED
  BY <1>1, ConstantsAssumption DEF Published

(* A process comes to bind with the mount in place. *)
LEMMA WorkIsBinding ==
  ASSUME Kept, NEW p \in Procs, Work(p), Binding(p)
  PROVE  Binding(p)'
<1> USE DEF Kept, Order
<1>0. PICK i : i = proc[p].id
  OBVIOUS
<1>1. CASE proc'[p].pc \notin {"bindcheck", "bind", "targets", "rebind"}
  BY <1>1, BindsNothing
<1>2. CASE p # Reconciler /\ proc'[p].pc \in {"bindcheck", "bind", "targets", "rebind"}
  <2>1. CallMoves(p) /\ proc'[p].id = i
    BY <1>0, <1>2, MovesOfCall DEF Idle, Continues
  <2>2. CASE Record(p) /\ live(Mountpoint(i))
    <3>1. state'[i].at = state[i].at
      BY <1>0, <2>2, RecordSaves
    <3>2. Mountpoint(i) \in dirs /\ UNCHANGED dirs
      BY <2>2 DEF live, Probe, Record
    <3>3. QED
      BY <1>2, <2>1, <3>1, <3>2 DEF Binding, Mountpoint
  <2>3. CASE BindCheck(p)
    <3>1. UNCHANGED <<state, dirs>> /\ proc[p].pc = "bindcheck" /\ p \in Calls
      BY <1>2, <2>3 DEF BindCheck, At, Procs
    <3>2. Mountpoint(i) \in dirs
      BY <1>0, <3>1 DEF Binding
    <3>3. QED
      BY <1>2, <2>1, <3>1, <3>2 DEF Binding, Mountpoint
  <2>4. QED
    BY <1>0, <1>2, <2>1, <2>2, <2>3 DEF CallMoves
<1>3. CASE p = Reconciler /\ proc'[p].pc \in {"bindcheck", "bind", "targets", "rebind"}
  <2>1. ASSUME UNCHANGED <<state, dirs>>, proc'[p].id = i, Mountpoint(i) \in dirs,
               proc'[p].left \subseteq state[i].targets,
               proc'[p].pc = "rebind" => proc'[p].path \in state[i].targets
        PROVE  Binding(p)'
    BY <1>3, <2>1, ConstantsAssumption DEF Binding, Mountpoint
  <2>2. p \notin Calls /\ proc'[p] # Idle /\ proc[p].pc \in ReconcilePcs
    BY <1>3, ConstantsAssumption DEF Idle, Inv, Shape, WellFormed
  <2>3. CASE Ready(p)
    <3>1. /\ UNCHANGED <<state, dirs>> /\ live(Mountpoint(i))
          /\ Become(p, [proc[p] EXCEPT !.pc = "targets", !.left = state[i].targets])
      BY <1>0, <1>3, <2>2, <2>3 DEF Ready, At, ReconcilePcs
    <3>2. proc'[p].pc = "targets" /\ proc'[p].left = state[i].targets /\ proc'[p].id = i
      BY <1>0, <3>1 DEF Become, Inv, TypeOK, Process
    <3>3. QED
      BY <2>1, <3>1, <3>2 DEF live, Probe
  <2>4. ASSUME NEW t \in Paths, Target(p, t) PROVE Binding(p)'
    <3>1. /\ UNCHANGED <<state, dirs>> /\ proc[p].pc = "targets" /\ t \in proc[p].left
          /\ \/ Become(p, [proc[p] EXCEPT !.pc = "rebind", !.path = t, !.left = @ \ {t}])
             \/ Become(p, [proc[p] EXCEPT !.left = @ \ {t}])
      BY <2>4 DEF Target, At
    <3>2. Mountpoint(i) \in dirs /\ proc[p].left \subseteq state[i].targets
      BY <1>0, <1>3, <3>1 DEF Binding
    <3>3. /\ proc'[p].id = i /\ proc'[p].left = proc[p].left \ {t}
          /\ proc'[p].pc = "rebind" => proc'[p].path = t
      BY <1>0, <3>1, ZenonT(40) DEF Become, Inv, TypeOK, Process
    <3>4. QED
      BY <2>1, <3>1, <3>2, <3>3
  <2>5. CASE Rebind(p)
    <3>1. /\ UNCHANGED <<state, dirs>> /\ proc[p].pc = "rebind"
          /\ Become(p, [proc[p] EXCEPT !.pc = "targets", !.path = NoPath])
      BY <2>5 DEF Rebind, At
    <3>2. Mountpoint(i) \in dirs /\ proc[p].left \subseteq state[i].targets
      BY <1>0, <1>3, <3>1 DEF Binding
    <3>3. proc'[p].id = i /\ proc'[p].left = proc[p].left /\ proc'[p].pc = "targets"
      BY <1>0, <3>1 DEF Become, Inv, TypeOK, Process
    <3>4. QED
      BY <2>1, <3>1, <3>2, <3>3
  <2>6. CASE \/ Fail(p) \/ StartFails(p) \/ RmState(p) \/ DropUsers(p)
             \/ Remount(p) \/ StopOld(p) \/ Drain(p) \/ Umount(p) \/ Stop(p) \/ Gone(p)
    <3>1. \/ \E ok : Return(p, ok)
          \/ \E label \in {"stopold", "remountwait", "drain", "umount", "stop", "rmstate"} : Step(p, label)
      BY <2>6 DEF Fail, StartFails, RmState, DropUsers, Remount, StopOld, Drain, Umount, Stop, Gone
    <3>2. PICK label \in {"stopold", "remountwait", "drain", "umount", "stop", "rmstate"} : Step(p, label)
      BY <2>2, <3>1, ReturnMoves
    <3>3. proc'[p].pc = label
      BY <3>2, StepMoves, WorkIsBusy DEF Locked
    <3>4. QED
      BY <1>3, <3>2, <3>3
  <2>7. QED
    BY <2>2, <2>3, <2>4, <2>5, <2>6
       DEF Work, Find, NotFound, Args, Mount, Save, Start, SetMounted, AddUser, Record, BindCheck,
           Bind, Unbind, Rmdir, Forget, Release, At, ReconcilePcs
<1>4. QED
  BY <1>1, <1>2, <1>3

(* A target that is bound is held by the mount it is bound to. *)
LEMMA BoundHolds ==
  ASSUME Kept, NEW p \in Procs, Work(p), Binding(p), NEW t, Binds(p, t), NEW i, i = proc[p].id
  PROVE  i \in Ids /\ t \in Published /\ Holds(i, t)'
<1> USE DEF Kept, Order
<1>1. /\ UNCHANGED state /\ dirs \subseteq dirs' /\ proc[p].pc \in {"bind", "rebind"}
      /\ t = proc[p].path /\ OnlyMoves(p)
  <2>1. CASE Bind(p)
    BY <2>1, WorkFrame DEF Bind, At, Binds
  <2>2. CASE Rebind(p)
    BY <2>2, WorkFrame DEF Rebind, At, Binds
  <2>3. QED
    BY <2>1, <2>2 DEF Binds
<1>2. i \in Ids /\ state[i].saved /\ i # NoId
  BY <1>1, HeldType DEF Locked
<1>3. t \in state[i].targets /\ Mountpoint(i) \in dirs
  <2>1. CASE proc[p].pc = "bind"
    <3>1. p \in Calls
      BY <2>1 DEF Inv, Shape, WellFormed, ReconcilePcs, Procs
    <3>2. QED
      BY <1>1, <2>1, <3>1 DEF Binding, Found, Finds
  <2>2. CASE proc[p].pc = "rebind"
    <3>1. p = Reconciler
      BY <2>2 DEF Inv, Shape, WellFormed
    <3>2. QED
      BY <1>1, <2>2, <3>1 DEF Binding
  <2>3. QED
    BY <1>1, <2>1, <2>2
<1>4. t \in Published
  BY <1>2, <1>3 DEF Sites
<1>5. proc'[p].pc \notin ClosingPcs
  <2>1. CASE Bind(p)
    BY <2>1, ReturnMoves DEF Bind, ClosingPcs
  <2>2. CASE Rebind(p)
    <3>1. proc'[p].pc \in {"targets", "rebind"}
      BY <2>2, TargetMoves
    <3>2. QED
      BY <3>1 DEF ClosingPcs
  <2>3. QED
    BY <2>1, <2>2 DEF Binds
<1>6. \A q \in Procs : proc'[q].id = i => proc'[q].pc \notin ClosingPcs
  BY <1>1, <1>2, <1>5 DEF OnlyMoves, Inv, Safe, OneHolder
<1>7. QED
  BY <1>1, <1>2, <1>3, <1>4, <1>6 DEF Holds, Serves, Mountpoint

(* A step of a call or a pass. *)
LEMMA WorkTargets ==
  ASSUME Kept, Targeted, [KubeletNext]_vars, NEW p \in Procs, Work(p)
  PROVE  Targeted'
<1> USE DEF Kept, Order
<1>1. ASSUME NEW t \in Published PROVE t \in Paths /\ \A i \in Ids : LiveIn(i, fuse[t]) => t \in dirs
  BY <1>1 DEF Published, Paths, Bare, LiveIn
<1>2. Binding(p) /\ MountedAt
  BY DEF Targeted
<1>3. MountedAt'
  <2> SUFFICES ASSUME NEW j \in Ids, NEW path \in Paths, LiveIn(j, fuse'[path])
               PROVE  path \in {j} \cup LegacyAt(j) \cup Published
    BY DEF MountedAt, LiveIn, Own, LegacyAt
  <2>1. CASE NothingNew(path)
    BY <1>2, <2>1 DEF NothingNew, MountedAt
  <2>2. CASE Binds(p, path)
    BY <1>2, <2>2, BoundHolds
  <2>3. QED
    BY <2>1, <2>2, MountsOfWork
<1>4. ASSUME NEW q \in Procs PROVE Binding(q)'
  <2>1. CASE q = p
    BY <1>2, <2>1, WorkIsBinding
  <2>2. CASE q # p
    <3>1. proc'[q] = proc[q] /\ (proc[q].id \in Ids => state'[proc[q].id] = state[proc[q].id])
      BY <2>2, OthersStates
    <3>2. Binding(q)
      BY DEF Targeted
    <3>3. QED
      BY <3>1, <3>2, BindingStays
  <2>3. QED
    BY <2>1, <2>2
<1>5. ASSUME NEW t \in Published, NEW i \in Ids, LiveIn(i, fuse'[t]) PROVE Holds(i, t)'
  <2>1. CASE LiveIn(i, fuse[t])
    <3>1. Holds(i, t) /\ t \in dirs
      BY <1>1, <2>1 DEF Targeted
    <3>2. QED
      BY <3>1, HoldsStay
  <2>2. CASE ~LiveIn(i, fuse[t])
    <3>1. PICK j : j = proc[p].id
      OBVIOUS
    <3>2. /\ Binds(p, t)
          /\ fuse[Mountpoint(j)] # <<>> /\ Head(fuse[Mountpoint(j)]) = Own(i)
      BY <1>1, <1>5, <2>2, <3>1, MountsOfWork DEF NothingNew
    <3>3. j \in Ids /\ Holds(j, t)'
      BY <1>2, <3>1, <3>2, BoundHolds
    <3>4. i = j
      BY <1>2, <3>2, <3>3, ShowsItsOwn
    <3>5. QED
      BY <3>3, <3>4
  <2>3. QED
    BY <2>1, <2>2
<1>6. ASSUME NEW t \in Published, told'[t] = "up" PROVE t \in dirs' /\ \E i \in Ids : Holds(i, t)'
  <2>1. CASE told[t] = "up"
    <3>1. PICK i \in Ids : Holds(i, t)
      BY <2>1 DEF Targeted
    <3>2. t \in dirs
      BY <2>1 DEF Targeted
    <3>3. t \in dirs'
      <4>1. ASSUME t \in dirs \ dirs' PROVE FALSE
        <5>1. Rmdir(p) /\ t = proc[p].path
          BY <4>1, DirsByKind
        <5>2. p \in Calls /\ proc[p].pc # "idle"
          BY <5>1 DEF Rmdir, At, Inv, Shape, WellFormed, ReconcilePcs, Procs
        <5>3. QED
          BY <2>1, <5>1, <5>2 DEF Orderly
      <4>2. QED
        BY <3>2, <4>1
    <3>4. Holds(i, t)'
      BY <3>1, <3>2, HoldsStay
    <3>5. QED
      BY <3>3, <3>4
  <2>2. CASE told[t] # "up"
    <3>1. /\ p \in Calls /\ t = proc[p].path /\ Request(proc[p])
          /\ proc[p].op \in {"stage", "publish"}
          /\ \/ NotFound(p) /\ proc[p].op = "unstage"
             \/ AddUser(p) /\ proc[p].op = "stage"
             \/ BindCheck(p) /\ live(proc[p].path)
             \/ Bind(p) /\ dirs' = dirs \cup {proc[p].path}
             \/ Rmdir(p) /\ proc[p].id = NoId /\ dirs' = dirs \ {proc[p].path}
             \/ Forget(p)
             \/ RmState(p)
      BY <1>1, <1>6, <2>2, ToldOfWork
    <3>2. proc[p].op = "publish"
      BY <3>1, ConstantsAssumption DEF Request, Published
    <3>3. Handles(p) /\ ForItsRequest(p)
      BY <3>1 DEF Handling, SharedInv
    <3>4. ~Rmdir(p) /\ ~Forget(p) /\ ~RmState(p)
      BY <3>2, <3>3 DEF Rmdir, Forget, RmState, At, Handles, ForItsRequest, Either, Unmounting
    <3>5. CASE BindCheck(p) /\ live(proc[p].path)
      <4>1. t \in dirs /\ \E i \in Ids : LiveIn(i, fuse[t])
        BY <1>1, <3>1, <3>5, LiveShows
      <4>2. PICK i \in Ids : Holds(i, t)
        BY <4>1 DEF Targeted
      <4>3. Holds(i, t)'
        BY <4>1, <4>2, HoldsStay
      <4>4. dirs' = dirs
        BY <3>5 DEF BindCheck
      <4>5. QED
        BY <4>1, <4>3, <4>4
    <3>6. CASE Bind(p) /\ dirs' = dirs \cup {proc[p].path}
      <4>1. Binds(p, t) /\ t \in dirs'
        BY <3>1, <3>6 DEF Binds
      <4>2. PICK i : i = proc[p].id
        OBVIOUS
      <4>3. i \in Ids /\ Holds(i, t)'
        BY <1>2, <4>1, <4>2, BoundHolds
      <4>4. QED
        BY <4>1, <4>3
    <3>7. QED
      BY <3>1, <3>2, <3>4, <3>5, <3>6
  <2>3. QED
    BY <2>1, <2>2
<1>7. QED
  BY <1>3, <1>4, <1>5, <1>6 DEF Targeted

(* A published target is held by its mount, whatever fails, dies or restarts. *)
LEMMA TargetedStep == Kept /\ Targeted /\ [KubeletNext]_vars => Targeted'
<1> SUFFICES ASSUME Kept, Targeted, [KubeletNext]_vars PROVE Targeted'
  OBVIOUS
<1> USE DEF Kept, Order
<1>1. ASSUME NEW p \in Procs, Work(p) PROVE Targeted'
  BY <1>1, WorkTargets
<1>2. ASSUME NEW t \in Published PROVE t \in Paths /\ \A i \in Ids : LiveIn(i, fuse[t]) => t \in dirs
  BY <1>2 DEF Published, Paths, Bare, LiveIn
<1>3. ASSUME \A path \in Paths, j \in Ids :
                LiveIn(j, fuse'[path]) => LiveIn(j, fuse[path]) \/ path \in {j} \cup LegacyAt(j),
             \A t \in Published : /\ told'[t] = "up" => told[t] = "up"
                                  /\ t \in dirs => t \in dirs',
             \A q \in Procs : Binding(q)'
      PROVE  Targeted'
  <2>1. MountedAt'
    <3> SUFFICES ASSUME NEW j \in Ids, NEW path \in Paths, LiveIn(j, fuse'[path])
                 PROVE  path \in {j} \cup LegacyAt(j) \cup Published
      BY DEF MountedAt, LiveIn, Own, LegacyAt
    <3>1. QED
      BY <1>3 DEF Targeted, MountedAt
  <2>2. ASSUME NEW t \in Published, NEW i \in Ids, LiveIn(i, fuse'[t]) PROVE Holds(i, t)'
    <3>1. LiveIn(i, fuse[t])
      BY <1>2, <1>3, <2>2, OwnPaths
    <3>2. Holds(i, t) /\ t \in dirs
      BY <1>2, <3>1 DEF Targeted
    <3>3. QED
      BY <3>2, HoldsStay
  <2>3. ASSUME NEW t \in Published, told'[t] = "up" PROVE t \in dirs' /\ \E i \in Ids : Holds(i, t)'
    <3>1. t \in dirs /\ \E i \in Ids : Holds(i, t)
      BY <1>3, <2>3 DEF Targeted
    <3>2. QED
      BY <1>3, <3>1, HoldsStay
  <2>4. QED
    BY <1>3, <2>1, <2>2, <2>3 DEF Targeted
<1>4. ASSUME UNCHANGED state, NEW q \in Procs, proc'[q] = proc[q] PROVE Binding(q)'
  BY <1>4, BindingStays DEF Targeted
<1>5. ASSUME UNCHANGED <<state, fuse>>, NEW p \in Procs, OnlyMoves(p), Binding(p)',
             \A t \in Published : /\ told'[t] = "up" => told[t] = "up"
                                  /\ t \in dirs => t \in dirs'
      PROVE  Targeted'
  <2>1. \A q \in Procs : Binding(q)'
    BY <1>4, <1>5 DEF OnlyMoves
  <2>2. QED
    BY <1>3, <1>5, <2>1
<1>6. ASSUME NEW p \in Calls, NEW i \in Ids, Locking(p, i) PROVE Targeted'
  <2>1. p \in Procs /\ p # Reconciler /\ OnlyMoves(p) /\ UNCHANGED <<state, fuse, dirs>>
    BY <1>6, LockingFrame DEF Procs
  <2>2. ASSUME NEW t \in Published, told'[t] = "up" PROVE told[t] = "up"
    <3>1. CASE Answers(p) /\ proc[p].op = "stage"
      <4>1. proc[p].path \in Stagings /\ proc[p].path # t
        BY <2>1, <3>1, PathType, ConstantsAssumption DEF Answers, Request, Published
      <4>2. QED
        BY <1>2, <2>2, <3>1, <4>1 DEF Answers, Inv, TypeOK
    <3>2. QED
      BY <1>6, <2>2, <3>1, AnswersOfLocking
  <2>3. Binding(p)'
    <3>1. CASE proc'[p] = Idle
      BY <2>1, <3>1, BindsNothing DEF Idle
    <3>2. CASE proc'[p] # Idle /\ LockMountOf(p, i)
      <4>1. proc'[p].pc \in {"release", "record", "unbind"}
        BY <2>1, <3>2, LockMountOfMoves
      <4>2. QED
        BY <2>1, <4>1, BindsNothing
    <3>3. CASE proc'[p] # Idle /\ Acquire(p, i)
      <4>1. proc'[p].pc \in {"mount", "adduser", "remount"}
        BY <2>1, <3>3, AcquireMoves
      <4>2. QED
        BY <2>1, <4>1, BindsNothing
    <3>4. CASE SkipMount(p, i)
      BY <2>1, <3>4, SkipMoves, BindsNothing
    <3>5. QED
      BY <1>6, <3>1, <3>2, <3>3, <3>4 DEF Locking
  <2>4. QED
    BY <1>5, <2>1, <2>2, <2>3
<1>7. ASSUME NEW i \in Ids, Reconcile(i) PROVE Targeted'
  <2>1. /\ Reconciler \in Procs /\ OnlyMoves(Reconciler) /\ UNCHANGED <<state, fuse, dirs, told>>
        /\ proc'[Reconciler].id = i
        /\ proc'[Reconciler].pc = IF Probe(Mountpoint(i)) = "Live" THEN "targets"
                                  ELSE IF Probe(Mountpoint(i)) = "Gone" THEN "gone" ELSE "remount"
    BY <1>7, ReconcileFrame DEF Procs
  <2>2. CASE Probe(Mountpoint(i)) = "Live"
    <3>1. Mountpoint(i) \in dirs
      BY <2>2 DEF Probe
    <3>2. proc'[Reconciler].left = state[i].targets /\ proc'[Reconciler].pc = "targets"
      BY <1>7, <2>1, <2>2 DEF Reconcile, Become, Idle, Inv, TypeOK
    <3>3. Binding(Reconciler)'
      BY <2>1, <3>1, <3>2, ConstantsAssumption DEF Binding, Mountpoint
    <3>4. QED
      BY <1>5, <2>1, <3>3
  <2>3. CASE Probe(Mountpoint(i)) # "Live"
    <3>1. Binding(Reconciler)'
      BY <2>1, <2>3, BindsNothing
    <3>2. QED
      BY <1>5, <2>1, <3>1
  <2>4. QED
    BY <2>2, <2>3
<1>8. ASSUME NEW p \in Calls, NEW r \in Requests, Call(p, r[1], r[2]) PROVE Targeted'
  <2>1. /\ p \in Procs /\ OnlyMoves(p) /\ UNCHANGED <<state, fuse, dirs>>
        /\ proc'[p].pc \in {"args", "find"}
    BY <1>8, CallFrame
  <2>2. \A t \in Published : told'[t] = "up" => told[t] = "up"
    BY <1>2, <1>8 DEF Call, Inv, TypeOK
  <2>3. Binding(p)'
    BY <2>1, BindsNothing
  <2>4. QED
    BY <1>5, <2>1, <2>2, <2>3
<1>9. ASSUME Crash PROVE Targeted'
  <2>1. UNCHANGED <<dirs, told>> /\ \A q \in Procs : proc'[q] = Idle
    BY <1>9 DEF Crash
  <2>2. \A q \in Procs : Binding(q)'
    BY <2>1, BindsNothing DEF Idle
  <2>3. \A path \in Paths, j \in Ids : LiveIn(j, fuse'[path]) => LiveIn(j, fuse[path])
    BY <1>9, CrashShows DEF NothingNew
  <2>4. QED
    BY <1>3, <2>1, <2>2, <2>3
<1>10. ASSUME Outside PROVE Targeted'
  <2>1. UNCHANGED <<state, dirs, proc, told>>
    BY <1>10 DEF Outside
  <2>2. \A q \in Procs : Binding(q)'
    BY <1>4, <2>1
  <2>3. ASSUME NEW path \in Paths, NEW j \in Ids, LiveIn(j, fuse'[path])
        PROVE  LiveIn(j, fuse[path]) \/ path \in {j} \cup LegacyAt(j)
    <3>1. Mountpoint(j) \in {j} \cup LegacyAt(j)
      BY DEF Sites, Mountpoint
    <3>2. QED
      BY <1>10, <2>3, <3>1 DEF Outside, NothingNew
  <2>4. QED
    BY <1>3, <2>1, <2>2, <2>3
<1>11. ASSUME NEW s \in Stagings, KubeletCleans(s) PROVE Targeted'
  <2>1. UNCHANGED <<state, proc, told, fuse>> /\ dirs' = dirs \ {s} /\ s \notin Published
    BY <1>11, ConstantsAssumption DEF KubeletCleans, KubeletRemoves, Published
  <2>2. \A q \in Procs : Binding(q)'
    BY <1>4, <2>1
  <2>3. QED
    BY <1>3, <2>1, <2>2
<1>12. CASE \E p \in Calls : Timeout(p)
  BY <1>12 DEF Timeout, Orderly
<1>13. QED
  BY <1>1, <1>6, <1>7, <1>8, <1>9, <1>10, <1>11, <1>12, KubeletSteps

(* 4.0.0 left its mounts at staging paths. *)
LEMMA TargetedBegins == Init => Targeted
<1> SUFFICES ASSUME Init PROVE Targeted
  OBVIOUS
<1>1. dirs \subseteq Stagings /\ dirs = {Legacy[i] : i \in DOMAIN Legacy}
  BY ConstantsAssumption DEF Init
<1>2. \A t \in Published : t \in Paths /\ t \notin dirs
  BY <1>1, ConstantsAssumption DEF Published, Paths
<1>3. \A t \in Published : told[t] = "none" /\ fuse[t] = <<>>
  BY <1>2 DEF Init
<1>4. \A p \in Procs : Binding(p)
  BY DEF Init, Binding, Idle
<1>5. ASSUME NEW j \in Ids, NEW path \in Paths, LiveIn(j, fuse[path]) PROVE path \in LegacyAt(j)
  <2>0. fuse[path] = IF path \in dirs THEN <<Own(CHOOSE i \in DOMAIN Legacy : Legacy[i] = path)>>
                     ELSE <<>>
    BY Zenon DEF Init
  <2>1. path \in dirs /\ fuse[path] = <<Own(CHOOSE i \in DOMAIN Legacy : Legacy[i] = path)>>
    BY <1>5, <2>0 DEF LiveIn
  <2>2. j = CHOOSE i \in DOMAIN Legacy : Legacy[i] = path
    BY <1>5, <2>1 DEF LiveIn, Own
  <2>3. \E i \in DOMAIN Legacy : Legacy[i] = path
    BY <1>1, <2>1
  <2>4. j \in DOMAIN Legacy /\ Legacy[j] = path
    BY <2>2, <2>3
  <2>5. QED
    BY <2>4 DEF LegacyAt
<1>6. MountedAt
  BY <1>5 DEF MountedAt
<1>7. QED
  BY <1>3, <1>4, <1>6 DEF Targeted, LiveIn

(* The inductive invariant of a node whose kubelet waits for its calls and *)
(* whose state files can be read.                                          *)
LEMMA TargetsInvariant ==
  ASSUME {"timeout", "load"} \cap Faults = {}, LegacyOwn
  PROVE  KubeletSpec => [](Kept /\ Targeted)
<1> DEFINE I == Inv /\ SharedInv /\ Handling /\ Sites /\ Found
           J == Orderly /\ Searched /\ InOrder /\ Staged /\ Legacies /\ Bare /\ Targeted
<1>1. KubeletSpec => []I
  BY HandlersInvariant
<1>2. Init => J
  BY KubeletBegins, SearchedBegins, StagedBegins, LegaciesBegin, TargetedBegins
<1>3. I /\ J /\ [KubeletNext]_vars => J'
  <2>1. I /\ J => Order /\ Kept
    BY DEF Order, Kept
  <2>2. I /\ J /\ [KubeletNext]_vars => Orderly' /\ Searched' /\ InOrder' /\ Bare'
    BY OrderlyStep, SearchedStep, InOrderStep, BareStep
  <2>3. I /\ J /\ [KubeletNext]_vars => Staged' /\ Targeted'
    BY <2>1, StagedStep, TargetedStep
  <2>4. I /\ J /\ [KubeletNext]_vars => Legacies'
    BY LegaciesStep
  <2>5. QED
    BY <2>2, <2>3, <2>4
<1>4. I /\ J => Kept /\ Targeted
  BY DEF Order, Kept
<1>5. QED
  BY <1>1, <1>2, <1>3, <1>4, PTL DEF KubeletSpec

(* A target that NodePublishVolume answered for is recorded until it is    *)
(* unpublished, whatever runs, fails, dies or restarts meanwhile, so that  *)
(* reconcile can bind it again.  Kubelet has to wait for its calls, and    *)
(* the state files have to be readable: an unpublish that runs on, or a    *)
(* search that misses a mount, may remove what another call has recorded.  *)
THEOREM PublishedStaysRecorded ==
  ASSUME {"timeout", "load"} \cap Faults = {}, LegacyOwn
  PROVE  KubeletSpec => []PublishedIsRecorded
<1>1. Kept /\ Targeted => PublishedIsRecorded
  BY DEF Targeted, Holds, Serves, PublishedIsRecorded, Published
<1>2. QED
  BY <1>1, TargetsInvariant, PTL

(* No call and no pass takes a mount down under a published target that    *)
(* shows it, whatever runs, fails, dies or restarts meanwhile.             *)
THEOREM MountStaysUnderPods ==
  ASSUME {"timeout", "load"} \cap Faults = {}, LegacyOwn
  PROVE  KubeletSpec => []PodsKeepTheirMount
<1>1. Kept /\ Targeted => PodsKeepTheirMount
  <2> SUFFICES ASSUME Targeted, NEW t \in Published, NEW i \in Ids, NEW p \in Procs,
                      LiveOn(i, t), proc[p].id = i
               PROVE  proc[p].pc \notin {"drain", "umount", "stop", "rmstate"}
    BY DEF PodsKeepTheirMount, Published
  <2>1. LiveIn(i, fuse[t])
    BY DEF LiveOn, LiveIn
  <2>2. Holds(i, t)
    BY <2>1 DEF Targeted
  <2>3. QED
    BY <2>2 DEF Holds, Serves, ClosingPcs
<1>2. QED
  BY <1>1, TargetsInvariant, PTL

=============================================================================
