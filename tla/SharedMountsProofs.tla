------------------------- MODULE SharedMountsProofs -------------------------
(***************************************************************************)
(* RcloneNode implements SharedMounts: the locks, the state files and the  *)
(* handlers keep the promise of a shared mount, with any number of mounts, *)
(* volumes and calls, and under every fault.  Then, that no rclone is      *)
(* forgotten where stopScope does its work.                                *)
(***************************************************************************)
EXTENDS RcloneNodeSteps

ClosingPcs == {"drain", "umount", "stop", "rmstate", "gone"}

(* What a call is about to do to the users of a mount is what its request  *)
(* asks for.                                                               *)
ForItsRequest(p) ==
    /\ proc[p].pc \in {"args", "acquire", "mount", "save", "start", "mountwait", "setmounted",
                       "adduser", "remount", "stopold", "remountwait", "readduser"}
          => proc[p].op \in {"stage", "publish"}
    /\ proc[p].pc \in {"unbind", "rmdir", "release", "forget"}
          => proc[p].op \in {"unstage", "unpublish"}

(* A mount that is being set up has no users yet, and 4.0.0 did not make   *)
(* it.  A user that leaves with the state kept leaves others behind, or a  *)
(* state without the staging path that addLegacyUser would bring back.     *)
Sharing(p) ==
    LET i == proc[p].id IN
    /\ proc[p].pc \in {"mount", "save"} => ~state[i].saved
    /\ proc[p].pc \in {"start", "mountwait", "setmounted"}
          => state[i].users = {} /\ Mountpoint(i) = i
    /\ proc[p].pc = "forget" => Mountpoint(i) = i \/ Users(i) \ {proc[p].path} # {}

SharedInv == /\ \A p \in Calls : ForItsRequest(p)
             /\ \A p \in Procs : proc[p].id \in Ids => Sharing(p)

-----------------------------------------------------------------------------
(* The invariant *)

(* What holds for a process that does not move still holds, if the state   *)
(* of its id stays.                                                        *)
LEMMA OthersShare ==
  ASSUME SharedInv, NEW p \in Procs, OnlyMoves(p), Inv,
         \A i \in Ids : i # proc[p].id => state'[i] = state[i],
         ForItsRequest(p)' \/ p = Reconciler,
         proc'[p].id \in Ids => Sharing(p)'
  PROVE  SharedInv'
<1>1. ASSUME NEW q \in Calls PROVE ForItsRequest(q)'
  BY <1>1, ConstantsAssumption DEF SharedInv, ForItsRequest, OnlyMoves, Procs
<1>2. ASSUME NEW q \in Procs, proc'[q].id \in Ids PROVE Sharing(q)'
  <2>1. CASE q = p
    BY <1>2, <2>1
  <2>2. CASE q # p
    <3>1. proc'[q] = proc[q] /\ proc[q].id \in Ids /\ proc[q].id # NoId
      BY <1>2, <2>2, ConstantsAssumption DEF OnlyMoves, Paths
    <3>2. state'[proc[q].id] = state[proc[q].id]
      BY <2>2, <3>1 DEF Inv, Safe, OneHolder
    <3>3. Sharing(q)
      BY <3>1 DEF SharedInv
    <3>4. QED
      BY <3>1, <3>2, <3>3 DEF Sharing, Mountpoint, Users
  <2>3. QED
    BY <2>1, <2>2
<1>3. QED
  BY <1>1, <1>2 DEF SharedInv

(* A process that returns leaves no claim behind. *)
LEMMA IdleShares ==
  ASSUME NEW p \in Procs, proc'[p] = Idle
  PROVE  ForItsRequest(p)' /\ Sharing(p)'
  BY DEF Idle, ForItsRequest, Sharing

(* A step under the lock keeps the invariant. *)
LEMMA WorkShares ==
  ASSUME Inv, SharedInv, NEW p \in Procs, Work(p)
  PROVE  SharedInv'
<1> USE DEF At
<1>1. OnlyMoves(p) /\ (proc'[p] = Idle \/ Continues(p)) /\ OnlyTouches(p)
  BY WorkFrame
<1>2. SUFFICES ASSUME proc'[p] # Idle, Continues(p)
               PROVE  (ForItsRequest(p)' \/ p = Reconciler) /\ (proc'[p].id \in Ids => Sharing(p)')
  BY <1>1, IdleShares, OthersShare DEF OnlyTouches
<1>3. /\ proc[p] \in Process /\ state \in [Ids -> volumeState]
      /\ p = Reconciler \/ ForItsRequest(p)
      /\ proc[p].id \in Ids => Sharing(p)
  BY DEF Inv, TypeOK, SharedInv, Procs
<1>4. CASE Find(p) \/ Args(p)
  <2>1. \/ proc'[p].pc = "lockof"
        \/ proc[p].pc = "args" /\ proc'[p].pc = "acquire"
    BY <1>4, FindMoves, ArgsMoves
  <2>2. QED
    BY <1>2, <1>3, <2>1 DEF Continues, ForItsRequest, Sharing
<1>5. CASE NotFound(p)
  <2>1. p # Reconciler /\ Request(proc[p])
    BY <1>5, PathType DEF NotFound, Inv, Shape, WellFormed, ReconcilePcs
  <2>2. \/ proc[p].op = "stage" /\ proc'[p].pc = "args"
        \/ proc[p].op = "unpublish" /\ proc'[p].pc = "unbind"
    BY <1>2, <1>5, <2>1, StepMoves, ReturnMoves DEF NotFound, Request, Unlocked, Either
  <2>3. QED
    BY <1>2, <2>2 DEF Continues, ForItsRequest, Sharing
<1>6. CASE Mount(p)
  BY <1>2, <1>3, <1>6, StepMoves DEF Mount, Continues, ForItsRequest, Sharing, Locked
<1>7. CASE Save(p)
  <2>1. proc[p].id \in Ids /\ proc'[p].id = proc[p].id /\ proc'[p].pc = "start"
    BY <1>2, <1>7, StepMoves, LockedIds DEF Save, Locked, Continues
  <2>2. state'[proc[p].id] = [NoState(proc[p].id) EXCEPT !.saved = TRUE]
    BY <1>3, <1>7, <2>1 DEF Save, SaveState
  <2>3. QED
    BY <1>2, <1>3, <1>7, <2>1, <2>2
       DEF Save, Continues, ForItsRequest, Sharing, NoState, Mountpoint
<1>8. CASE Start(p)
  <2>1. UNCHANGED state /\ proc'[p].pc = "mountwait"
    BY <1>2, <1>8, StepMoves, ReturnMoves DEF Start, Locked
  <2>2. QED
    BY <1>2, <1>3, <1>8, <2>1 DEF Start, Continues, ForItsRequest, Sharing, Mountpoint
<1>9. CASE Ready(p)
  <2>1. \/ p # Reconciler /\ proc[p].pc = "mountwait" /\ proc'[p].pc = "setmounted"
        \/ p # Reconciler /\ proc[p].pc = "remountwait" /\ proc'[p].pc = "readduser"
        \/ p = Reconciler /\ proc'[p].pc = "targets"
    BY <1>9, ReadyMoves
  <2>2. QED
    BY <1>2, <1>3, <1>9, <2>1 DEF Ready, Continues, ForItsRequest, Sharing, Mountpoint
<1>10. CASE SetMounted(p) \/ AddUser(p)
  <2>1. \/ proc[p].pc = "setmounted" /\ proc'[p].pc = "adduser"
        \/ proc'[p].pc = "record"
    BY <1>2, <1>10, StepMoves, ReturnMoves DEF SetMounted, AddUser, Locked
  <2>2. QED
    BY <1>2, <1>3, <2>1 DEF Continues, ForItsRequest, Sharing
<1>11. CASE Remount(p) \/ StopOld(p)
  <2>1. \/ proc[p].pc = "remount" /\ proc'[p].pc = "stopold"
        \/ proc[p].pc = "stopold" /\ proc'[p].pc = "remountwait"
    BY <1>11, StepMoves DEF Remount, StopOld, Locked
  <2>2. QED
    BY <1>2, <1>3, <2>1 DEF Continues, ForItsRequest, Sharing
<1>12. CASE Record(p) \/ BindCheck(p) \/ Bind(p)
  <2>1. proc'[p].pc \in {"bindcheck", "bind"}
    BY <1>2, <1>12, StepMoves, ReturnMoves DEF Record, BindCheck, Bind, Locked
  <2>2. QED
    BY <2>1 DEF ForItsRequest, Sharing
<1>13. CASE Umount(p) \/ Drain(p) \/ Stop(p) \/ Gone(p) \/ DropUsers(p)
  <2>1. proc'[p].pc \in ClosingPcs
    BY <1>2, <1>13, StepMoves, ReturnMoves
       DEF Umount, Drain, Stop, Gone, DropUsers, Locked, ClosingPcs
  <2>2. QED
    BY <2>1 DEF ForItsRequest, Sharing, ClosingPcs
<1>14. CASE Unbind(p)
  <2>1. proc'[p].pc = "rmdir"
    BY <1>14, StepMoves DEF Unbind, Either
  <2>2. QED
    BY <1>2, <1>3, <1>14, <2>1 DEF Unbind, Continues, ForItsRequest, Sharing
<1>15. CASE Rmdir(p)
  <2>1. /\ UNCHANGED state /\ proc[p].id # NoId
        /\ proc'[p].pc = IF proc[p].path \in Users(proc[p].id) THEN "release" ELSE "forget"
    BY <1>2, <1>15, StepMoves, ReturnMoves DEF Rmdir, Locked
  <2>2. p # Reconciler
    BY <1>15 DEF Rmdir, Inv, Shape, WellFormed, ReconcilePcs
  <2>3. proc'[p].pc = "forget"
           => Mountpoint(proc[p].id) = proc[p].id \/ Users(proc[p].id) \ {proc[p].path} # {}
    <3>1. Users(proc[p].id) = {} => Mountpoint(proc[p].id) = proc[p].id
      BY DEF Users
    <3>2. proc'[p].pc = "forget" => proc[p].path \notin Users(proc[p].id)
      BY <2>1
    <3>3. QED
      BY <3>1, <3>2
  <2>4. QED
    BY <1>2, <1>3, <1>15, <2>1, <2>2, <2>3
       DEF Rmdir, Continues, ForItsRequest, Sharing, Mountpoint, Users
<1>16. CASE Release(p)
  <2>1. /\ UNCHANGED state
        /\ proc'[p].pc = IF Users(proc[p].id) \subseteq {proc[p].path} THEN "drain" ELSE "forget"
    BY <1>16, StepMoves DEF Release, Locked
  <2>2. p # Reconciler
    BY <1>16 DEF Release, Inv, Shape, WellFormed, ReconcilePcs
  <2>3. proc'[p].pc = "forget" => Users(proc[p].id) \ {proc[p].path} # {}
    BY <2>1
  <2>4. QED
    BY <1>2, <1>3, <1>16, <2>1, <2>2, <2>3
       DEF Release, Continues, ForItsRequest, Sharing, Mountpoint, Users
<1>17. CASE Rebind(p) \/ \E t \in Paths : Target(p, t)
  BY <1>17, TargetMoves DEF Sharing
<1>18. CASE Fail(p) \/ StartFails(p) \/ Forget(p) \/ RmState(p)
  BY <1>2, <1>18, ReturnMoves DEF Fail, StartFails, Forget, RmState
<1>19. QED
  BY <1>4, <1>5, <1>6, <1>7, <1>8, <1>9, <1>10, <1>11, <1>12, <1>13, <1>14, <1>15, <1>16, <1>17,
     <1>18 DEF Work

(* So does a step that takes a lock *)
LEMMA LockingShares ==
  ASSUME Inv, SharedInv, NEW p \in Calls, NEW i \in Ids, Locking(p, i)
  PROVE  SharedInv'
<1>1. p \in Procs /\ ForItsRequest(p)
  BY DEF Procs, SharedInv
<1>2. /\ OnlyMoves(p) /\ UNCHANGED state /\ p # Reconciler /\ proc[p].pc # "idle"
  BY <1>1, LockingFrame
<1>3. Request(proc[p]) /\ proc[p] \in Process
  BY <1>1, <1>2, PathType DEF Inv, TypeOK
<1>4. CASE proc'[p] = Idle
  BY <1>1, <1>2, <1>4, IdleShares, OthersShare
<1>5. CASE SkipMount(p, i)
  BY <1>1, <1>2, <1>5, SkipMoves, OthersShare DEF ForItsRequest, Sharing
<1>6. CASE LockMountOf(p, i) /\ proc'[p] # Idle
  <2>1. ForItsRequest(p)' /\ Sharing(p)'
    BY <1>1, <1>6, LockMountOfMoves DEF Locks, ForItsRequest, Sharing
  <2>2. QED
    BY <1>1, <1>2, <2>1, OthersShare
<1>7. CASE Acquire(p, i) /\ proc'[p] # Idle
  <2>1. ForItsRequest(p)' /\ Sharing(p)'
    BY <1>1, <1>2, <1>7, AcquireMoves DEF Locks, ForItsRequest, Sharing
  <2>2. QED
    BY <1>1, <1>2, <2>1, OthersShare
<1>8. QED
  BY <1>4, <1>5, <1>6, <1>7 DEF Locking

(* ... and every other step. *)
LEMMA SharedStep == Inv /\ SharedInv /\ [Next]_vars => SharedInv'
<1> SUFFICES ASSUME Inv, SharedInv, [Next]_vars PROVE SharedInv'
  OBVIOUS
<1>1. ASSUME NEW p \in Procs, Work(p) PROVE SharedInv'
  BY <1>1, WorkShares
<1>2. ASSUME NEW p \in Calls, NEW i \in Ids, Locking(p, i) PROVE SharedInv'
  BY <1>2, LockingShares
<1>3. ASSUME NEW i \in Ids, Reconcile(i) PROVE SharedInv'
  <2>1. Reconciler \in Procs
    BY DEF Procs
  <2>2. proc'[Reconciler].pc \in {"targets", "gone", "remount"}
    BY <1>3, ReconcileFrame
  <2>3. QED
    BY <1>3, <2>1, <2>2, ReconcileFrame, OthersShare DEF Sharing
<1>4. ASSUME NEW p \in Calls, NEW r \in Requests, Call(p, r[1], r[2]) PROVE SharedInv'
  <2>1. /\ proc'[p].op = r[1] /\ proc'[p].pc \in {"args", "find"}
        /\ proc'[p].pc = "args" => r[1] = "publish"
    BY <1>4, CallFrame
  <2>2. QED
    BY <1>4, <2>1, CallFrame, OthersShare DEF ForItsRequest, Sharing
<1>5. ASSUME NEW p \in Calls, Timeout(p) PROVE SharedInv'
  <2>1. p \in Procs /\ proc[p] \in Process
    BY DEF Procs, Inv, TypeOK
  <2>2. OnlyMoves(p)
    BY <1>5, <2>1, TimeoutStep DEF Timeout, OnlyMoves, Inv, TypeOK
  <2>3. /\ proc'[p].pc = proc[p].pc /\ proc'[p].op = proc[p].op /\ proc'[p].id = proc[p].id
        /\ proc'[p].path = proc[p].path /\ UNCHANGED state
    BY <1>5, <2>1 DEF Timeout, Process, Inv, TypeOK
  <2>4. ForItsRequest(p)' /\ (proc'[p].id \in Ids => Sharing(p)')
    BY <2>1, <2>3 DEF SharedInv, ForItsRequest, Sharing, Mountpoint, Users
  <2>5. QED
    BY <2>1, <2>2, <2>3, <2>4, OthersShare
<1>6. ASSUME Crash PROVE SharedInv'
  <2>1. \A p \in Procs : proc'[p] = Idle
    BY <1>6 DEF Crash
  <2>2. QED
    BY <2>1, IdleShares DEF SharedInv, Procs
<1>7. CASE UNCHANGED <<state, proc>>
  BY <1>7 DEF SharedInv, ForItsRequest, Sharing, Mountpoint, Users
<1>8. QED
  BY <1>1, <1>2, <1>3, <1>4, <1>5, <1>6, <1>7
     DEF Next, Plugin, World, vars, KubeletRemoves, RcloneMounts, RcloneExits, RcloneHangs,
         RcloneResumes, AdminUnmounts, PodWrites, RcloneUploads, RcloneDies

(* The invariant holds at first. *)
LEMMA SharedInit == Init => SharedInv
<1> SUFFICES ASSUME Init PROVE SharedInv
  OBVIOUS
<1>1. \A p \in Procs : proc[p] = Idle
  BY DEF Init
<1>2. QED
  BY <1>1 DEF SharedInv, ForItsRequest, Sharing, Idle, Procs

-----------------------------------------------------------------------------
(* The refinement mapping *)

UsersBar == [i \in Ids |-> IF state[i].saved THEN Users(i) ELSE {}]

PhaseBar == [i \in Ids |-> IF ~state[i].saved THEN "down"
                           ELSE IF Closing(i) THEN "closing" ELSE "up"]

(* A step that concerns i only. *)
Concerns(i) == /\ UsersBar' = [UsersBar EXCEPT ![i] = UsersBar'[i]]
               /\ PhaseBar' = [PhaseBar EXCEPT ![i] = PhaseBar'[i]]

(* Each way the users and the phase of one mount change is a step of SharedMounts. *)
Promised(i) ==
    LET users == UsersBar[i]  users1 == UsersBar'[i]
        phase == PhaseBar[i]  phase1 == PhaseBar'[i]
        Goes(from, to) == phase = from /\ phase1 = to
    IN
    \/ users1 = users /\ phase1 = phase
    \/ users1 = users /\ Goes("down", "up")
    \/ users1 = users /\ users = {} /\ Goes("up", "down")
    \/ Goes("up", "up") /\ \E u \in CalledFor({"stage", "publish"}) : users1 = users \cup {u}
    \/ Goes("up", "up") /\ \E u \in CalledFor({"unstage", "unpublish"}) : users1 = users \ {u}
    \/ Goes("up", "up") /\ users1 = users \cap dirs
    \/ /\ users1 = users /\ Goes("up", "closing")
       /\ \/ users \cap dirs \subseteq CalledFor({"unstage", "unpublish"})
          \/ Mountpoint(i) \notin dirs
    \/ users1 = {} /\ Goes("closing", "down")
    \/ users1 = users /\ Goes("closing", "up")

(* What Promised lists is what SharedMounts allows. *)
LEMMA PromisedIsNext ==
  ASSUME NEW i \in Ids, Concerns(i), Promised(i)
  PROVE  [Shared!Next]_(Shared!promised)
<1> DEFINE users == UsersBar[i]  users1 == UsersBar'[i]
           phase == PhaseBar[i]  phase1 == PhaseBar'[i]
<1>1. /\ UsersBar = [j \in Ids |-> IF state[j].saved THEN Users(j) ELSE {}]
      /\ PhaseBar = [j \in Ids |-> IF ~state[j].saved THEN "down"
                                   ELSE IF Closing(j) THEN "closing" ELSE "up"]
  BY DEF UsersBar, PhaseBar
<1>2. /\ UsersBar' = [UsersBar EXCEPT ![i] = users1]
      /\ PhaseBar' = [PhaseBar EXCEPT ![i] = phase1]
  BY DEF Concerns
<1>3. CASE users1 = users /\ phase1 = phase
  <2>1. UsersBar' = UsersBar /\ PhaseBar' = PhaseBar
    BY <1>1, <1>2, <1>3
  <2>2. QED
    BY <2>1 DEF Shared!promised, UsersBar, PhaseBar
<1>4. CASE users1 = users /\ phase = "down" /\ phase1 = "up"
  <2>1. UsersBar' = UsersBar
    BY <1>1, <1>2, <1>4
  <2>2. Shared!Open(i)
    BY <1>2, <1>4, <2>1 DEF Shared!Open, Shared!Goes, UsersBar, PhaseBar
  <2>3. QED
    BY <2>2 DEF Shared!Next
<1>5. CASE users1 = users /\ users = {} /\ phase = "up" /\ phase1 = "down"
  <2>1. UsersBar' = UsersBar
    BY <1>1, <1>2, <1>5
  <2>2. Shared!GiveUp(i)
    BY <1>2, <1>5, <2>1 DEF Shared!GiveUp, Shared!Goes, UsersBar, PhaseBar
  <2>3. QED
    BY <2>2 DEF Shared!Next
<1>6. CASE /\ phase = "up" /\ phase1 = "up"
           /\ \E u \in CalledFor({"stage", "publish"}) : users1 = users \cup {u}
  <2>1. PhaseBar' = PhaseBar
    BY <1>1, <1>2, <1>6
  <2>2. Shared!Join(i)
    BY <1>2, <1>6, <2>1, ZenonT(40) DEF Shared!Join, UsersBar, PhaseBar
  <2>3. QED
    BY <2>2 DEF Shared!Next
<1>7. CASE /\ phase = "up" /\ phase1 = "up"
           /\ \E u \in CalledFor({"unstage", "unpublish"}) : users1 = users \ {u}
  <2>1. PhaseBar' = PhaseBar
    BY <1>1, <1>2, <1>7
  <2>2. Shared!Leave(i)
    BY <1>2, <1>7, <2>1, ZenonT(40) DEF Shared!Leave, UsersBar, PhaseBar
  <2>3. QED
    BY <2>2 DEF Shared!Next
<1>8. CASE phase = "up" /\ phase1 = "up" /\ users1 = users \cap dirs
  <2>1. PhaseBar' = PhaseBar
    BY <1>1, <1>2, <1>8
  <2>2. Shared!Drop(i)
    BY <1>2, <1>8, <2>1 DEF Shared!Drop, UsersBar, PhaseBar
  <2>3. QED
    BY <2>2 DEF Shared!Next
<1>9. CASE /\ users1 = users /\ phase = "up" /\ phase1 = "closing"
           /\ \/ users \cap dirs \subseteq CalledFor({"unstage", "unpublish"})
              \/ Mountpoint(i) \notin dirs
  <2>1. UsersBar' = UsersBar
    BY <1>1, <1>2, <1>9
  <2>2. Shared!Close(i)
    BY <1>2, <1>9, <2>1 DEF Shared!Close, Shared!Goes, UsersBar, PhaseBar
  <2>3. QED
    BY <2>2 DEF Shared!Next
<1>10. CASE users1 = {} /\ phase = "closing" /\ phase1 = "down"
  <2>1. Shared!Closed(i)
    BY <1>2, <1>10 DEF Shared!Closed, Shared!Goes, UsersBar, PhaseBar
  <2>2. QED
    BY <2>1 DEF Shared!Next
<1>11. CASE users1 = users /\ phase = "closing" /\ phase1 = "up"
  <2>1. UsersBar' = UsersBar
    BY <1>1, <1>2, <1>11
  <2>2. PhaseBar' = [j \in Ids |-> IF j \in {i} THEN "up" ELSE PhaseBar[j]]
    BY <1>1, <1>2, <1>11
  <2>3. Shared!Reopen({i})
    BY <1>11, <2>1, <2>2 DEF Shared!Reopen, UsersBar, PhaseBar
  <2>4. QED
    BY <2>3 DEF Shared!Next
<1>12. QED
  BY <1>3, <1>4, <1>5, <1>6, <1>7, <1>8, <1>9, <1>10, <1>11 DEF Promised

-----------------------------------------------------------------------------
(* The steps *)

(* A mount is closing if the process that has locked it takes it down. *)
LEMMA HolderCloses ==
  ASSUME Inv, NEW i \in Ids
  PROVE  /\ \A p \in Procs : proc[p].id = i => (Closing(i) <=> proc[p].pc \in ClosingPcs)
         /\ IsFree(i) => ~Closing(i)
  BY ConstantsAssumption DEF Closing, ClosingPcs, IsFree, Inv, Safe, OneHolder, Paths

(* So it is after a step of p, which had i, or for which i was free. *)
LEMMA HolderClosesNext ==
  ASSUME Inv, NEW p \in Procs, NEW i \in Ids, OnlyMoves(p), proc[p].id = i \/ IsFree(i)
  PROVE  Closing(i)' <=> (proc'[p].id = i /\ proc'[p].pc \in ClosingPcs)
<1>1. \A q \in Procs : q # p => proc'[q].id # i
  BY ConstantsAssumption DEF OnlyMoves, IsFree, Inv, Safe, OneHolder, Paths
<1>2. QED
  BY <1>1 DEF Closing, ClosingPcs

(* A step of p concerns the id it has locked, or locks. *)
LEMMA StepConcerns ==
  ASSUME Inv, NEW p \in Procs, OnlyMoves(p), NEW i \in Ids,
         \A j \in Ids : j # i => state'[j] = state[j],
         proc[p].id \in {i, NoId}, proc'[p].id \in {i, NoId}
  PROVE  Concerns(i)
<1>1. ASSUME NEW j \in Ids, j # i
      PROVE  state'[j] = state[j] /\ Closing(j)' = Closing(j) /\ (Users(j))' = Users(j)
  <2>1. Closing(j)' <=> Closing(j)
    BY <1>1, ConstantsAssumption DEF Closing, OnlyMoves, Paths
  <2>2. QED
    BY <1>1, <2>1 DEF Closing, Users, Mountpoint
<1>2. QED
  BY <1>1 DEF Concerns, UsersBar, PhaseBar

(* A step that changes no state, nor who takes a mount down, is a stutter. *)
LEMMA Stutters ==
  ASSUME UNCHANGED state, \A i \in Ids : Closing(i)' <=> Closing(i)
  PROVE  UNCHANGED Shared!promised
  BY DEF Shared!promised, Users, Mountpoint

(* A process without a lock changes nothing of what is promised. *)
LEMMA UnlockedMaps ==
  ASSUME Inv, NEW p \in Procs, Work(p), proc[p].id \notin Ids
  PROVE  UNCHANGED Shared!promised
<1>1. OnlyMoves(p) /\ OnlyTouches(p) /\ (proc'[p] = Idle \/ Continues(p))
  BY WorkFrame
<1>2. proc'[p].id \notin Ids
  BY <1>1, ConstantsAssumption DEF Continues, Idle, Paths
<1>3. \A i \in Ids : Closing(i)' <=> Closing(i)
  BY <1>1, <1>2 DEF OnlyMoves, Closing
<1>4. \A i \in Ids : state'[i] = state[i]
  BY <1>1 DEF OnlyTouches
<1>5. QED
  BY <1>3, <1>4 DEF Shared!promised, Users, Mountpoint

(* A step under the lock of i does what SharedMounts promises. *)
LEMMA LockedMaps ==
  ASSUME Inv, SharedInv, NEW p \in Procs, Work(p), NEW i \in Ids, proc[p].id = i
  PROVE  Promised(i)
<1> USE DEF At
<1>1. OnlyMoves(p) /\ (proc'[p] = Idle \/ Continues(p))
  BY WorkFrame
<1>2. /\ proc[p] \in Process /\ state \in [Ids -> volumeState] /\ state[i] \in volumeState
      /\ p = Reconciler \/ ForItsRequest(p)
      /\ Sharing(p)
  BY DEF Inv, TypeOK, SharedInv, Procs
<1>3. /\ Closing(i) <=> proc[p].pc \in ClosingPcs
      /\ Closing(i)' <=> (proc'[p].id = i /\ proc'[p].pc \in ClosingPcs)
  BY <1>1, HolderCloses, HolderClosesNext
<1>4. /\ UsersBar[i] = IF state[i].saved THEN Users(i) ELSE {}
      /\ UsersBar'[i] = IF state'[i].saved THEN (Users(i))' ELSE {}
      /\ PhaseBar[i] = IF ~state[i].saved THEN "down"
                       ELSE IF Closing(i) THEN "closing" ELSE "up"
      /\ PhaseBar'[i] = IF ~state'[i].saved THEN "down"
                        ELSE IF Closing(i)' THEN "closing" ELSE "up"
  BY DEF UsersBar, PhaseBar
<1>5. proc'[p] = Idle => proc'[p].id # i
  BY ConstantsAssumption DEF Idle, Paths
<1>6. UNCHANGED state => (Users(i))' = Users(i)
  BY DEF Users, Mountpoint
<1>7. proc[p].pc \notin {"mount", "save"} => state[i].saved
  BY <1>2, ConstantsAssumption DEF Inv, Safe, StateStays, Paths
<1>8. p # Reconciler /\ proc[p].op \in {"unstage", "unpublish"}
         => proc[p].path \in CalledFor({"unstage", "unpublish"})
  BY DEF CalledFor, Procs
<1>9. CASE Fail(p) \/ (UNCHANGED state /\ proc[p].pc \in ClosingPcs)
  <2>1. UNCHANGED state
    BY <1>9 DEF Fail
  <2>2. Closing(i)' => Closing(i)
    BY <1>3, <1>5, <1>9, ReturnMoves DEF Fail
  <2>3. QED
    BY <1>4, <1>6, <2>1, <2>2 DEF Promised
<1>10. CASE UNCHANGED state /\ proc[p].pc \notin ClosingPcs
            /\ (proc'[p] = Idle \/ proc'[p].pc \notin ClosingPcs)
  BY <1>3, <1>4, <1>5, <1>6, <1>10 DEF Promised
<1>11. CASE Save(p)
  <2>1. ~state[i].saved
    BY <1>2, <1>11 DEF Save, Sharing
  <2>2. state'[i] = [NoState(i) EXCEPT !.saved = TRUE]
    BY <1>2, <1>11 DEF Save, SaveState
  <2>3. state'[i].saved /\ (Users(i))' = {}
    BY <2>2 DEF NoState, Users, Mountpoint
  <2>4. proc'[p].pc = "start"
    BY <1>11, StepMoves DEF Save, Locked
  <2>5. QED
    BY <1>3, <1>4, <2>1, <2>3, <2>4 DEF Promised, ClosingPcs
<1>12. CASE Start(p) \/ StartFails(p)
  <2>1. CASE UNCHANGED state
    <3>1. proc'[p] = Idle \/ proc'[p].pc = "mountwait"
      BY <1>12, StepMoves, ReturnMoves DEF Start, StartFails, Locked
    <3>2. QED
      BY <1>10, <1>12, <2>1, <3>1 DEF Start, StartFails, ClosingPcs
  <2>2. CASE state' # state
    <3>1. proc[p].pc \in {"start", "mountwait"} /\ proc'[p] = Idle
      BY <1>12, <2>2, ReturnMoves DEF Start, StartFails
    <3>2. state'[i] = NoState(i)
      BY <1>2, <1>12, <2>2 DEF Start, StartFails, RemoveState, SaveState
    <3>3. ~state'[i].saved
      BY <3>2 DEF NoState
    <3>4. state[i].saved /\ Users(i) = {} /\ ~Closing(i)
      BY <1>2, <1>3, <1>7, <3>1 DEF Sharing, Users, ClosingPcs
    <3>5. QED
      BY <1>4, <3>3, <3>4 DEF Promised
  <2>3. QED
    BY <2>1, <2>2
<1>13. CASE SetMounted(p)
  <2>1. state'[i] = [state[i] EXCEPT !.mounted = TRUE]
    BY <1>2, <1>13 DEF SetMounted, SaveState
  <2>2. state'[i].saved = state[i].saved /\ (Users(i))' = Users(i)
    BY <1>2, <2>1 DEF volumeState, Users, Mountpoint
  <2>3. proc'[p].pc = "adduser"
    BY <1>13, StepMoves DEF SetMounted, Locked
  <2>4. QED
    BY <1>3, <1>4, <1>13, <2>2, <2>3 DEF SetMounted, Promised, ClosingPcs
<1>14. CASE AddUser(p)
  <2>1. p # Reconciler /\ proc[p].pc \notin ClosingPcs /\ state[i].saved
    BY <1>7, <1>14 DEF AddUser, Inv, Shape, WellFormed, ReconcilePcs, ClosingPcs
  <2>2. proc[p].path \in CalledFor({"stage", "publish"})
    BY <1>2, <1>14, <2>1 DEF AddUser, ForItsRequest, CalledFor, Procs
  <2>3. state'[i] = [state[i] EXCEPT !.users = Users(i) \cup {proc[p].path},
                                     !.mounted = @ \/ At(p, "readduser")]
    BY <1>2, <1>14 DEF AddUser, SaveState
  <2>4. state'[i].saved = state[i].saved /\ state'[i].users = Users(i) \cup {proc[p].path}
    BY <1>2, <2>3 DEF volumeState
  <2>5. (Users(i))' = Users(i) \cup {proc[p].path}
    BY <2>4 DEF Users
  <2>6. proc'[p] = Idle \/ proc'[p].pc = "record"
    BY <1>14, StepMoves, ReturnMoves DEF AddUser, Locked
  <2>7. QED
    BY <1>3, <1>4, <1>5, <2>1, <2>2, <2>4, <2>5, <2>6 DEF Promised, ClosingPcs
<1>15. CASE Record(p)
  <2>1. CASE UNCHANGED state
    <3>1. proc'[p] = Idle \/ proc'[p].pc = "bindcheck"
      BY <1>15, StepMoves, ReturnMoves DEF Record, Locked
    <3>2. QED
      BY <1>10, <1>15, <2>1, <3>1 DEF Record, ClosingPcs
  <2>2. CASE state' # state
    <3>1. proc'[p].pc = "bindcheck"
      BY <1>15, <2>2, StepMoves DEF Record, Locked
    <3>2. state'[i] = [state[i] EXCEPT !.users = Users(i),
                                       !.targets = state[i].targets \cup {proc[p].path}]
      BY <1>2, <1>15, <2>2 DEF Record, SaveState
    <3>3. /\ state'[i].saved = state[i].saved /\ state'[i].users = Users(i)
          /\ state'[i].at = state[i].at
      BY <1>2, <3>2 DEF volumeState
    <3>4. (Users(i))' = Users(i)
      BY <3>3 DEF Users, Mountpoint
    <3>5. QED
      BY <1>3, <1>4, <1>15, <3>1, <3>3, <3>4 DEF Record, Promised, ClosingPcs
  <2>3. QED
    BY <2>1, <2>2
<1>16. CASE Forget(p)
  <2>1. p # Reconciler /\ proc[p].pc \notin ClosingPcs /\ state[i].saved /\ proc'[p] = Idle
    BY <1>7, <1>16, ReturnMoves DEF Forget, Inv, Shape, WellFormed, ReconcilePcs, ClosingPcs
  <2>2. state'[i] = [state[i] EXCEPT !.users = Users(i) \ {proc[p].path},
                                     !.targets = state[i].targets \ {proc[p].path}]
    BY <1>2, <1>16 DEF Forget, SaveState
  <2>3. /\ state'[i].saved = state[i].saved /\ state'[i].users = Users(i) \ {proc[p].path}
        /\ state'[i].at = state[i].at
    BY <1>2, <2>2 DEF volumeState
  <2>4. Mountpoint(i) = i \/ Users(i) \ {proc[p].path} # {}
    BY <1>2, <1>16 DEF Forget, Sharing
  <2>5. (Users(i))' = Users(i) \ {proc[p].path}
    BY <2>3, <2>4 DEF Users, Mountpoint
  <2>6. proc[p].path \in CalledFor({"unstage", "unpublish"})
    BY <1>2, <1>8, <1>16, <2>1 DEF Forget, ForItsRequest
  <2>7. QED
    BY <1>3, <1>4, <1>5, <2>1, <2>3, <2>5, <2>6 DEF Promised
<1>17. CASE Release(p)
  <2>1. p # Reconciler /\ proc[p].pc \notin ClosingPcs /\ state[i].saved /\ UNCHANGED state
    BY <1>7, <1>17 DEF Release, Inv, Shape, WellFormed, ReconcilePcs, ClosingPcs
  <2>2. proc[p].path \in CalledFor({"unstage", "unpublish"})
    BY <1>2, <1>8, <1>17, <2>1 DEF Release, ForItsRequest
  <2>3. \/ proc'[p].pc = "drain" /\ Users(i) \subseteq {proc[p].path}
        \/ proc'[p].pc = "forget"
    BY <1>17, StepMoves DEF Release, Locked
  <2>4. CASE proc'[p].pc = "forget"
    BY <1>10, <2>1, <2>4 DEF ClosingPcs
  <2>5. CASE Users(i) \subseteq {proc[p].path}
    <3>1. Users(i) \cap dirs \subseteq CalledFor({"unstage", "unpublish"})
      BY <2>2, <2>5
    <3>2. QED
      BY <1>3, <1>4, <1>6, <2>1, <3>1 DEF Promised
  <2>6. QED
    BY <2>3, <2>4, <2>5
<1>18. CASE RmState(p)
  <2>1. state[i].saved /\ proc[p].pc \in ClosingPcs
    BY <1>7, <1>18 DEF RmState, ClosingPcs
  <2>2. state'[i] = NoState(i)
    BY <1>2, <1>18 DEF RmState, SaveState
  <2>3. ~state'[i].saved
    BY <2>2 DEF NoState
  <2>4. QED
    BY <1>3, <1>4, <2>1, <2>3 DEF Promised
<1>19. CASE DropUsers(p)
  <2>1. state[i].saved /\ proc[p].pc \notin ClosingPcs
    BY <1>7, <1>19 DEF DropUsers, ClosingPcs
  <2>2. \/ Users(i) \cap dirs = {} /\ UNCHANGED state
        \/ proc'[p] = Idle /\ UNCHANGED state
        \/ /\ proc'[p] = Idle /\ Users(i) \cap dirs # {}
           /\ state'[i] = [state[i] EXCEPT !.users = Users(i) \cap dirs,
                                           !.targets = state[i].targets \cap dirs]
    BY <1>2, <1>19, ReturnMoves DEF DropUsers, SaveState
  <2>3. CASE Users(i) \cap dirs = {} /\ UNCHANGED state
    BY <1>3, <1>4, <1>6, <2>1, <2>3 DEF Promised
  <2>4. CASE proc'[p] = Idle /\ UNCHANGED state
    BY <1>10, <2>1, <2>4
  <2>5. CASE /\ proc'[p] = Idle /\ Users(i) \cap dirs # {}
             /\ state'[i] = [state[i] EXCEPT !.users = Users(i) \cap dirs,
                                             !.targets = state[i].targets \cap dirs]
    <3>1. state'[i].saved = state[i].saved /\ state'[i].users = Users(i) \cap dirs
      BY <1>2, <2>5 DEF volumeState
    <3>2. (Users(i))' = Users(i) \cap dirs
      BY <2>5, <3>1 DEF Users
    <3>3. QED
      BY <1>3, <1>4, <1>5, <2>1, <2>5, <3>1, <3>2 DEF Promised
  <2>6. QED
    BY <2>2, <2>3, <2>4, <2>5
<1>20. CASE Umount(p) \/ Drain(p) \/ Stop(p) \/ Gone(p)
  BY <1>9, <1>20 DEF Umount, Drain, Stop, Gone, ClosingPcs
<1>21. CASE Mount(p) \/ Remount(p) \/ StopOld(p) \/ BindCheck(p) \/ Bind(p) \/ Unbind(p)
  <2>1. proc'[p] = Idle \/ proc'[p].pc \in {"save", "stopold", "remountwait", "bind", "rmdir"}
    BY <1>21, StepMoves, ReturnMoves
       DEF Mount, Remount, StopOld, BindCheck, Bind, Unbind, Locked, Either
  <2>2. QED
    BY <1>10, <1>21, <2>1 DEF Mount, Remount, StopOld, BindCheck, Bind, Unbind, ClosingPcs
<1>22. CASE Rmdir(p)
  <2>1. proc'[p] = Idle \/ proc'[p].pc \in {"release", "forget"}
    BY <1>22, StepMoves, ReturnMoves DEF Rmdir, Locked
  <2>2. QED
    BY <1>10, <1>22, <2>1 DEF Rmdir, ClosingPcs
<1>23. CASE Find(p) \/ Args(p) \/ NotFound(p)
  BY <1>23, LockedIds, ConstantsAssumption DEF Find, Args, NotFound, Unlocked, Paths
<1>24. CASE Ready(p)
  <2>1. proc'[p].pc \notin ClosingPcs
    BY <1>24, ReadyMoves DEF ClosingPcs
  <2>2. QED
    BY <1>10, <1>24, <2>1 DEF Ready, ClosingPcs
<1>25. CASE Rebind(p) \/ \E t \in Paths : Target(p, t)
  <2>1. UNCHANGED state /\ proc[p].pc \notin ClosingPcs
    BY <1>25 DEF Rebind, Target, ClosingPcs
  <2>2. QED
    BY <1>10, <1>25, <2>1, TargetMoves DEF ClosingPcs
<1>26. QED
  BY <1>9, <1>11, <1>12, <1>13, <1>14, <1>15, <1>16, <1>17, <1>18, <1>19, <1>20, <1>21, <1>22,
     <1>23, <1>24, <1>25 DEF Work

(* Taking a lock promises nothing; a pass that finds the mount point gone  *)
(* begins to take the mount down.                                          *)
LEMMA LockingMaps ==
  ASSUME Inv, NEW p \in Procs, NEW i \in Ids, Locking(p, i)
  PROVE  UNCHANGED Shared!promised
<1>1. Idle.pc = "idle"
  BY DEF Idle
<1>2. /\ OnlyMoves(p) /\ IsFree(i) /\ UNCHANGED state /\ proc[p].id = NoId
      /\ proc'[p] = Idle \/ proc'[p].id \in {NoId, i}
  BY LockingFrame
<1>3. proc'[p].pc \notin ClosingPcs
  <2>1. CASE SkipMount(p, i)
    BY <2>1, SkipMoves DEF ClosingPcs
  <2>2. CASE LockMountOf(p, i)
    BY <1>1, <2>2, LockMountOfMoves DEF ClosingPcs
  <2>3. CASE Acquire(p, i)
    BY <1>1, <2>3, AcquireMoves DEF ClosingPcs
  <2>4. QED
    BY <2>1, <2>2, <2>3 DEF Locking
<1>4. ASSUME NEW j \in Ids PROVE Closing(j)' <=> Closing(j)
  BY <1>2, <1>3, ConstantsAssumption DEF OnlyMoves, Closing, ClosingPcs, Paths
<1>5. QED
  BY <1>2, <1>4, Stutters

(* The begin of a pass does what SharedMounts promises. *)
LEMMA ReconcileMaps ==
  ASSUME Inv, NEW i \in Ids, Reconcile(i)
  PROVE  Concerns(i) /\ Promised(i)
<1>1. /\ Reconciler \in Procs /\ OnlyMoves(Reconciler) /\ IsFree(i) /\ state[i].saved
      /\ proc[Reconciler].id = NoId /\ proc'[Reconciler].id = i /\ UNCHANGED <<state, dirs>>
      /\ proc'[Reconciler].pc = IF Probe(Mountpoint(i)) = "Live" THEN "targets"
                                ELSE IF Probe(Mountpoint(i)) = "Gone" THEN "gone" ELSE "remount"
  BY ReconcileFrame DEF Procs
<1>2. Concerns(i)
  BY <1>1, StepConcerns
<1>3. /\ ~Closing(i)
      /\ Closing(i)' <=> proc'[Reconciler].pc \in ClosingPcs
  BY <1>1, HolderCloses, HolderClosesNext
<1>4. Closing(i)' => Mountpoint(i) \notin dirs
  BY <1>1, <1>3 DEF ClosingPcs, Probe
<1>5. /\ UsersBar[i] = Users(i) /\ UsersBar'[i] = (Users(i))' /\ (Users(i))' = Users(i)
      /\ PhaseBar[i] = "up" /\ PhaseBar'[i] = IF Closing(i)' THEN "closing" ELSE "up"
  BY <1>1, <1>3 DEF UsersBar, PhaseBar, Users, Mountpoint
<1>6. Promised(i)
  BY <1>4, <1>5 DEF Promised
<1>7. QED
  BY <1>2, <1>6

(* A restart ends every attempt to take a mount down. *)
LEMMA CrashMaps ==
  ASSUME Inv, Crash
  PROVE  Shared!Next
<1> DEFINE ended == {i \in Ids : PhaseBar[i] = "closing"}
<1>1. UNCHANGED state /\ \A p \in Procs : proc'[p] = Idle
  BY DEF Crash
<1>2. \A i \in Ids : ~Closing(i)'
  BY <1>1 DEF Closing, Idle
<1>3. PhaseBar' = [i \in Ids |-> IF i \in ended THEN "up" ELSE PhaseBar[i]]
  BY <1>1, <1>2 DEF PhaseBar
<1>4. UsersBar' = UsersBar
  BY <1>1 DEF UsersBar, Users, Mountpoint
<1>5. Shared!Reopen(ended)
  BY <1>3, <1>4 DEF Shared!Reopen, UsersBar, PhaseBar
<1>6. \E failed \in SUBSET Ids : Shared!Reopen(failed)
  <2>1. ended \in SUBSET Ids
    OBVIOUS
  <2>2. QED
    BY <1>5, <2>1 DEF Shared!Reopen
<1>7. QED
  BY <1>6 DEF Shared!Next

(* Every step of RcloneNode is a step of SharedMounts, or none. *)
LEMMA NextMaps == Inv /\ SharedInv /\ [Next]_vars => [Shared!Next]_(Shared!promised)
<1> SUFFICES ASSUME Inv, SharedInv, [Next]_vars PROVE [Shared!Next]_(Shared!promised)
  OBVIOUS
<1>1. ASSUME NEW p \in Procs, Work(p) PROVE [Shared!Next]_(Shared!promised)
  <2>1. CASE proc[p].id \notin Ids
    BY <1>1, <2>1, UnlockedMaps
  <2>2. CASE proc[p].id \in Ids
    <3>1. /\ OnlyMoves(p) /\ OnlyTouches(p) /\ (proc'[p] = Idle \/ Continues(p))
      BY <1>1, WorkFrame
    <3>2. proc'[p].id \in {proc[p].id, NoId}
      BY <3>1 DEF Continues, Idle
    <3>3. Concerns(proc[p].id)
      BY <1>1, <2>2, <3>1, <3>2, StepConcerns DEF OnlyTouches
    <3>4. QED
      BY <1>1, <2>2, <3>3, LockedMaps, PromisedIsNext
  <2>3. QED
    BY <2>1, <2>2
<1>2. ASSUME NEW p \in Calls, NEW i \in Ids, Locking(p, i)
      PROVE  [Shared!Next]_(Shared!promised)
  BY <1>2, LockingMaps DEF Procs
<1>3. ASSUME NEW i \in Ids, Reconcile(i) PROVE [Shared!Next]_(Shared!promised)
  BY <1>3, ReconcileMaps, PromisedIsNext
<1>4. ASSUME NEW p \in Calls, NEW r \in Requests, Call(p, r[1], r[2])
      PROVE  [Shared!Next]_(Shared!promised)
  <2>1. /\ OnlyMoves(p) /\ UNCHANGED state /\ proc[p].id = NoId /\ proc'[p].id = NoId
    BY <1>4, CallFrame
  <2>2. \A i \in Ids : Closing(i)' <=> Closing(i)
    BY <2>1, ConstantsAssumption DEF OnlyMoves, Closing, Paths
  <2>3. QED
    BY <2>1, <2>2, Stutters
<1>5. ASSUME NEW p \in Calls, Timeout(p) PROVE [Shared!Next]_(Shared!promised)
  <2>1. UNCHANGED state /\ \A q \in Procs : proc[q] \in Process
    BY <1>5 DEF Timeout, Inv, TypeOK
  <2>2. \A q \in Procs : proc'[q].id = proc[q].id /\ proc'[q].pc = proc[q].pc
    BY <1>5, <2>1 DEF Timeout, Process, Inv, TypeOK
  <2>3. \A i \in Ids : Closing(i)' <=> Closing(i)
    BY <2>2 DEF Closing
  <2>4. QED
    BY <2>1, <2>3, Stutters
<1>6. ASSUME Crash PROVE [Shared!Next]_(Shared!promised)
  BY <1>6, CrashMaps
<1>7. CASE UNCHANGED <<state, proc>>
  <2>1. \A i \in Ids : Closing(i)' <=> Closing(i)
    BY <1>7 DEF Closing
  <2>2. QED
    BY <1>7, <2>1, Stutters
<1>8. QED
  BY <1>1, <1>2, <1>3, <1>4, <1>5, <1>6, <1>7
     DEF Next, Plugin, World, vars, KubeletRemoves, RcloneMounts, RcloneExits, RcloneHangs,
         RcloneResumes, AdminUnmounts, PodWrites, RcloneUploads, RcloneDies

(* A node that begins maps to mounts that are up or down, and to no user   *)
(* of one that is down.                                                    *)
LEMMA InitMaps == Init => Shared!Init
<1> SUFFICES ASSUME Init PROVE Shared!Init
  OBVIOUS
<1>1. TypeOK
  BY InitInv DEF Inv
<1>2. \A i \in Ids : ~Closing(i) /\ Users(i) \subseteq Paths
  BY <1>1, UsersType DEF Init, Closing, Idle
<1>3. QED
  BY <1>2 DEF Shared!Init

(* RcloneNode implements SharedMounts: a mount is taken down only when     *)
(* each of its users is gone or leaves, or its mount point has             *)
(* disappeared, and nobody joins one that is being taken down (acquire,    *)
(* release, reconcile, unmount), whatever fails, crashes, times out or     *)
(* runs at the same time.                                                  *)
THEOREM ImplementsSharedMounts == Spec => KeepsSharedMounts
<1>1. Spec => [](Inv /\ SharedInv)
  BY Invariance, SharedInit, SharedStep, PTL DEF Spec
<1>2. QED
  BY <1>1, InitMaps, NextMaps, PTL DEF Spec, KeepsSharedMounts, Shared!Spec

-----------------------------------------------------------------------------
(* Every rclone has a state file, on a node where stopScope does its work. *)
(* It only warns when systemd does not answer, or when kubelet gave up on  *)
(* the call that unmounts: then unmount and the removal of a volume that   *)
(* is gone remove the state of an rclone that runs on.                     *)

(* stopScope does not fail: no error, and no call that is cancelled. *)
StopsWork == "stop" \notin faults /\ "timeout" \notin faults /\ \A p \in Procs : proc[p].awaited

(* No rclone runs before it is started, nor once its scope is stopped. *)
NotRunning(p) == proc[p].pc \in {"mount", "save", "start", "rmstate"} => rclone[proc[p].id] = "none"

KnownInv == /\ StopsWork
            /\ \A p \in Procs : proc[p].id \in Ids => NotRunning(p)
            /\ KnownRclones

(* A step of p keeps the invariant if it does so for p and its id. *)
LEMMA OthersKnow ==
  ASSUME Inv, KnownInv, NEW p \in Procs, OnlyMoves(p), OnlyTouches(p), proc'[p].awaited,
         "stop" \notin faults', "timeout" \notin faults',
         proc'[p].id \in Ids => NotRunning(p)',
         proc[p].id \in Ids /\ rclone'[proc[p].id] # "none" => state'[proc[p].id].saved
  PROVE  KnownInv'
<1>1. StopsWork'
  BY DEF KnownInv, StopsWork, OnlyMoves
<1>2. ASSUME NEW q \in Procs, proc'[q].id \in Ids PROVE NotRunning(q)'
  <2>1. CASE q # p
    <3>1. proc'[q] = proc[q] /\ proc[q].id \in Ids /\ proc[q].id # NoId
      BY <1>2, <2>1, ConstantsAssumption DEF OnlyMoves, Paths
    <3>2. rclone'[proc[q].id] = rclone[proc[q].id]
      BY <2>1, <3>1 DEF OnlyTouches, Inv, Safe, OneHolder
    <3>3. QED
      BY <3>1, <3>2 DEF KnownInv, NotRunning
  <2>2. QED
    BY <1>2, <2>1
<1>3. ASSUME NEW i \in Ids, rclone'[i] # "none" PROVE state'[i].saved
  BY <1>3 DEF OnlyTouches, KnownInv, KnownRclones
<1>4. QED
  BY <1>1, <1>2, <1>3 DEF KnownInv, KnownRclones

(* stopScope leaves no rclone behind. *)
LEMMA StopScopeWorks ==
  ASSUME Inv, KnownInv, NEW p \in Procs, proc[p].id \in Ids, stopScope(p)
  PROVE  rclone'[proc[p].id] = "none"
  BY DEF KnownInv, StopsWork, stopScope, Inv, TypeOK

(* A step under the lock keeps every rclone known. *)
LEMMA WorkKnows ==
  ASSUME Inv, SharedInv, KnownInv, NEW p \in Procs, Work(p)
  PROVE  KnownInv'
<1> USE DEF At
<1> DEFINE i == proc[p].id
<1>1. OnlyMoves(p) /\ (proc'[p] = Idle \/ Continues(p)) /\ OnlyTouches(p) /\ faults' = faults
  BY WorkFrame
<1>2. proc'[p].awaited /\ "stop" \notin faults' /\ "timeout" \notin faults'
  BY <1>1 DEF KnownInv, StopsWork, Continues, Idle
<1>3. SUFFICES /\ proc'[p].id \in Ids => NotRunning(p)'
               /\ i \in Ids /\ rclone'[i] # "none" => state'[i].saved
  BY <1>1, <1>2, OthersKnow
<1>4. /\ proc[p] \in Process /\ state \in [Ids -> volumeState]
      /\ rclone \in [Ids -> {"none", "starting", "running", "stuck"}]
      /\ i \in Ids => (NotRunning(p) /\ Sharing(p))
      /\ i \in Ids /\ rclone[i] # "none" => state[i].saved
      /\ i \in Ids /\ proc[p].pc \notin {"mount", "save"} => state[i].saved
  BY ConstantsAssumption
     DEF Inv, TypeOK, KnownInv, KnownRclones, SharedInv, Safe, StateStays, Paths
<1>5. proc'[p] = Idle => proc'[p].id \notin Ids
  BY ConstantsAssumption DEF Idle, Paths
<1>6. ASSUME UNCHANGED <<state, rclone>>, proc'[p].id \in Ids => NotRunning(p)'
      PROVE  /\ proc'[p].id \in Ids => NotRunning(p)'
             /\ i \in Ids /\ rclone'[i] # "none" => state'[i].saved
  BY <1>4, <1>6
<1>7. CASE Find(p) \/ Args(p) \/ NotFound(p)
  <2>1. proc[p].id = NoId /\ UNCHANGED <<state, rclone>>
    BY <1>7, LockedIds DEF Find, Args, NotFound, Unlocked
  <2>2. proc'[p].id \notin Ids
    BY <1>1, <1>5, <2>1, ConstantsAssumption DEF Continues, Paths
  <2>3. QED
    BY <1>6, <2>1, <2>2
<1>8. CASE Mount(p)
  <2>1. proc'[p].id = i /\ proc'[p].pc = "save" /\ UNCHANGED <<state, rclone>>
    BY <1>8, StepMoves DEF Mount, Locked, Continues
  <2>2. QED
    BY <1>4, <1>6, <1>8, <2>1 DEF Mount, NotRunning
<1>9. CASE Ready(p) \/ Rebind(p) \/ \E t \in Paths : Target(p, t)
  <2>1. UNCHANGED <<state, rclone>>
    BY <1>9, TargetMoves DEF Ready
  <2>2. NotRunning(p)'
    BY <1>9, ReadyMoves, TargetMoves DEF NotRunning
  <2>3. QED
    BY <1>6, <2>1, <2>2
<1>10. CASE Remount(p) \/ Drain(p) \/ Umount(p) \/ Release(p) \/ Unbind(p)
  <2>1. UNCHANGED <<state, rclone>>
    BY <1>10 DEF Remount, Drain, Umount, Release, Unbind
  <2>2. proc'[p].pc \in {"stopold", "umount", "stop", "drain", "forget", "rmdir"}
    BY <1>10, StepMoves DEF Remount, Drain, Umount, Release, Unbind, Locked, Either
  <2>3. QED
    BY <1>6, <2>1, <2>2 DEF NotRunning
<1>11. CASE BindCheck(p) \/ Bind(p) \/ Rmdir(p) \/ Fail(p)
  <2>1. UNCHANGED <<state, rclone>>
    BY <1>11 DEF BindCheck, Bind, Rmdir, Fail
  <2>2. proc'[p] = Idle \/ proc'[p].pc \in {"bind", "release", "forget"}
    BY <1>11, StepMoves, ReturnMoves DEF BindCheck, Bind, Rmdir, Fail, Locked
  <2>3. QED
    BY <1>5, <1>6, <2>1, <2>2 DEF NotRunning
<1>12. CASE Save(p)
  <2>1. i \in Ids /\ proc'[p].pc = "start" /\ proc'[p].id = i /\ rclone' = rclone
    BY <1>12, StepMoves, LockedIds DEF Save, Locked, Continues
  <2>2. rclone[i] = "none"
    BY <1>4, <1>12, <2>1 DEF Save, NotRunning
  <2>3. QED
    BY <2>1, <2>2 DEF NotRunning
<1>13. CASE Start(p)
  <2>1. i \in Ids /\ state[i].saved /\ rclone[i] = "none"
    BY <1>4, <1>13, LockedIds DEF Start, Locked, NotRunning
  <2>2. UNCHANGED state /\ proc'[p].pc = "mountwait"
    BY <1>13, <2>1, StepMoves DEF Start, Locked
  <2>3. QED
    BY <2>1, <2>2 DEF NotRunning
<1>14. CASE StartFails(p)
  <2>1. i \in Ids /\ proc'[p] = Idle
    BY <1>14, LockedIds, ReturnMoves DEF StartFails, Locked
  <2>2. rclone'[i] = "none"
    BY <1>4, <1>14, <2>1 DEF StartFails
  <2>3. QED
    BY <1>5, <2>1, <2>2
<1>15. CASE SetMounted(p) \/ AddUser(p) \/ Record(p) \/ Forget(p) \/ DropUsers(p)
  <2>1. i \in Ids /\ state[i].saved
    BY <1>4, <1>15, LockedIds DEF SetMounted, AddUser, Record, Forget, DropUsers, Locked
  <2>2. Record(p) /\ ~live(Mountpoint(i)) => UNCHANGED state
    BY DEF Record
  <2>3. ~(Record(p) /\ ~live(Mountpoint(i))) => state'[i].saved
    BY <1>15, SetMountedSaves, AddUserSaves, RecordSaves, ForgetSaves, DropUsersSaves
  <2>4. proc'[p] = Idle \/ proc'[p].pc \in {"adduser", "record", "bindcheck", "drain"}
    BY <1>15, StepMoves, ReturnMoves DEF SetMounted, AddUser, Record, Forget, DropUsers, Locked
  <2>5. QED
    BY <1>5, <2>1, <2>2, <2>3, <2>4 DEF NotRunning
<1>16. CASE StopOld(p)
  <2>1. i \in Ids /\ state[i].saved /\ UNCHANGED state /\ proc'[p].pc = "remountwait"
    BY <1>4, <1>16, LockedIds, StepMoves DEF StopOld, Locked
  <2>2. QED
    BY <2>1 DEF NotRunning
<1>17. CASE Stop(p) \/ Gone(p)
  <2>1. i \in Ids /\ state[i].saved /\ UNCHANGED state
    BY <1>4, <1>17, LockedIds DEF Stop, Gone, Locked
  <2>2. rclone'[i] = "none"
    BY <1>17, <2>1, StopScopeWorks DEF Stop, Gone
  <2>3. proc'[p].id \in Ids => proc'[p].id = i
    BY <1>1, <1>5 DEF Continues
  <2>4. QED
    BY <2>1, <2>2, <2>3 DEF NotRunning
<1>18. CASE RmState(p)
  <2>1. i \in Ids /\ proc'[p] = Idle /\ rclone' = rclone
    BY <1>18, LockedIds, ReturnMoves DEF RmState, Locked
  <2>2. rclone[i] = "none"
    BY <1>4, <1>18, <2>1 DEF RmState, NotRunning
  <2>3. QED
    BY <1>5, <2>1, <2>2
<1>19. QED
  BY <1>12, <1>13, <1>14, <1>15, <1>16, <1>17, <1>18, <1>7, <1>8, <1>9, <1>10, <1>11 DEF Work

(* So does every other step. *)
LEMMA KnownStep == Inv /\ SharedInv /\ KnownInv /\ [Next]_vars => KnownInv'
<1> SUFFICES ASSUME Inv, SharedInv, KnownInv, [Next]_vars PROVE KnownInv'
  OBVIOUS
<1>1. ASSUME NEW p \in Procs, Work(p) PROVE KnownInv'
  BY <1>1, WorkKnows
<1>2. ASSUME NEW p \in Calls, NEW i \in Ids, Locking(p, i) PROVE KnownInv'
  <2>1. p \in Procs /\ proc[p].awaited /\ Idle.awaited /\ Idle.id = NoId /\ NoId \notin Ids
    BY ConstantsAssumption DEF Procs, KnownInv, StopsWork, Idle, Paths
  <2>2. /\ OnlyMoves(p) /\ OnlyTouches(p) /\ faults' = faults /\ proc'[p].awaited
        /\ proc[p].id = NoId /\ UNCHANGED <<state, rclone>>
    BY <1>2, <2>1, LockingFrame DEF OnlyTouches
  <2>3. proc'[p].id \in Ids => NotRunning(p)'
    <3>1. CASE SkipMount(p, i)
      BY <2>1, <3>1, SkipMoves DEF Continues
    <3>2. CASE LockMountOf(p, i)
      BY <2>1, <3>2, LockMountOfMoves DEF NotRunning
    <3>3. CASE Acquire(p, i)
      <4>1. \/ proc'[p] = Idle
            \/ proc'[p].id = i /\ proc'[p].pc = "mount" /\ ~state[i].saved
            \/ proc'[p].pc \in {"adduser", "remount"}
        BY <2>1, <3>3, AcquireMoves DEF Locks
      <4>2. ~state[i].saved => rclone[i] = "none"
        BY DEF KnownInv, KnownRclones
      <4>3. QED
        BY <2>1, <2>2, <4>1, <4>2 DEF NotRunning
    <3>4. QED
      BY <1>2, <3>1, <3>2, <3>3 DEF Locking
  <2>4. QED
    BY <2>1, <2>2, <2>3, OthersKnow DEF KnownInv, StopsWork
<1>3. ASSUME NEW i \in Ids, Reconcile(i) PROVE KnownInv'
  <2>1. /\ Reconciler \in Procs /\ NoId \notin Ids
    BY ConstantsAssumption DEF Procs, Paths
  <2>2. /\ OnlyMoves(Reconciler) /\ OnlyTouches(Reconciler) /\ faults' = faults
        /\ proc'[Reconciler].awaited /\ proc[Reconciler].id = NoId
        /\ proc'[Reconciler].pc \in {"targets", "gone", "remount"}
    BY <1>3, ReconcileFrame DEF OnlyTouches
  <2>3. QED
    BY <2>1, <2>2, OthersKnow DEF KnownInv, StopsWork, NotRunning
<1>4. ASSUME NEW p \in Calls, NEW r \in Requests, Call(p, r[1], r[2]) PROVE KnownInv'
  <2>1. /\ p \in Procs /\ OnlyMoves(p) /\ OnlyTouches(p) /\ faults' = faults
        /\ proc'[p].awaited /\ proc[p].id = NoId /\ proc'[p].id = NoId /\ NoId \notin Ids
    BY <1>4, CallFrame, ConstantsAssumption DEF OnlyTouches, Paths
  <2>2. QED
    BY <2>1, OthersKnow DEF KnownInv, StopsWork
<1>5. ASSUME NEW p \in Calls, Timeout(p) PROVE KnownInv'
  BY <1>5 DEF Timeout, KnownInv, StopsWork
<1>6. ASSUME Crash PROVE KnownInv'
  <2>1. /\ \A p \in Procs : proc'[p] = Idle
        /\ UNCHANGED <<state, faults>>
    BY <1>6 DEF Crash
  <2>2. \A i \in Ids : rclone'[i] # "none" => rclone[i] # "none"
    BY <1>6 DEF Crash
  <2>3. Idle.awaited /\ Idle.pc = "idle"
    BY DEF Idle
  <2>4. QED
    BY <2>1, <2>2, <2>3 DEF KnownInv, StopsWork, NotRunning, KnownRclones
<1>7. ASSUME UNCHANGED <<state, proc, faults>>,
             \A i \in Ids : rclone'[i] # "none" => rclone[i] # "none"
      PROVE  KnownInv'
  BY <1>7 DEF KnownInv, StopsWork, NotRunning, KnownRclones
<1>8. ASSUME NEW i \in Ids,
             \/ RcloneMounts(i) \/ RcloneExits(i) \/ RcloneHangs(i) \/ RcloneResumes(i)
             \/ \E clean \in BOOLEAN : RcloneDies(i, clean)
      PROVE  \A j \in Ids : rclone'[j] # "none" => rclone[j] # "none"
  BY <1>8 DEF RcloneMounts, RcloneExits, RcloneHangs, RcloneResumes, RcloneDies, Inv, TypeOK
<1>9. ASSUME World PROVE KnownInv'
  BY <1>5, <1>6, <1>7, <1>8, <1>9
     DEF World, RcloneMounts, RcloneExits, RcloneHangs, RcloneResumes, AdminUnmounts,
         PodWrites, RcloneUploads, RcloneDies
<1>10. QED
  BY <1>1, <1>2, <1>3, <1>4, <1>7, <1>9 DEF Next, Plugin, vars, KubeletRemoves

(* At first only what 4.0.0 left running runs, and it left a state. *)
LEMMA KnownInit ==
  ASSUME "stop" \notin Faults, "timeout" \notin Faults
  PROVE  Init => KnownInv
<1> SUFFICES ASSUME Init PROVE KnownInv
  OBVIOUS
<1>1. (\A p \in Procs : proc[p] = Idle) /\ faults = Faults
  BY DEF Init
<1>2. Idle.awaited /\ Idle.pc = "idle"
  BY DEF Idle
<1>3. ASSUME NEW i \in Ids, rclone[i] # "none" PROVE state[i].saved
  <2>1. i \in DOMAIN Legacy
    BY <1>3 DEF Init
  <2>2. state[i] = [NoState(i) EXCEPT !.saved = TRUE, !.mounted = TRUE, !.at = Legacy[i]]
    BY <2>1 DEF Init
  <2>3. QED
    BY <2>2 DEF NoState
<1>4. QED
  BY <1>1, <1>2, <1>3 DEF KnownInv, StopsWork, NotRunning, KnownRclones

(* An rclone has a state file for as long as it exists, whatever dies,     *)
(* crashes or fails, as long as stopScope does its work: saveState comes   *)
(* before startRclone, stopScope before RemoveAll.                         *)
THEOREM EveryRcloneKnown ==
  ASSUME "stop" \notin Faults, "timeout" \notin Faults
  PROVE  Spec => []KnownRclones
<1>1. Spec => [](Inv /\ SharedInv)
  BY Invariance, SharedInit, SharedStep, PTL DEF Spec
<1>2. Init => KnownInv
  BY KnownInit
<1>3. KnownInv => KnownRclones
  BY DEF KnownInv
<1>4. QED
  BY <1>1, <1>2, <1>3, KnownStep, PTL DEF Spec

=============================================================================
