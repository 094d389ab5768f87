-------------------------- MODULE RcloneNodeProofs --------------------------
(***************************************************************************)
(* Safety of RcloneNode for any number of mounts, volumes, concurrent      *)
(* calls and faults.  The inductive invariant is TypeOK, the shape of a    *)
(* process (which labels it can be at, with which request), and the lock   *)
(* invariant Safe: a process works only on the id it has locked, so that   *)
(* what it has established about that id survives the steps of the others. *)
(***************************************************************************)
EXTENDS RcloneNode, SequenceTheorems, TLAPS

ReconcilePcs == {"idle", "remount", "stopold", "remountwait", "gone", "targets", "rebind",
                 "drain", "umount", "stop", "rmstate"}

Unmounting == {"drain", "umount", "stop", "rmstate"}

Request(r) == \/ r.op \in {"stage", "unstage"} /\ r.path \in Stagings
              \/ r.op \in {"publish", "unpublish"} /\ r.path \in Targets \cup Ephemerals

WellFormed(p, r) ==
    /\ r \in Process
    /\ r.pc \in Locked => r.id # NoId
    /\ r.pc \in Unlocked => r.id = NoId
    /\ p = Reconciler => /\ r.pc \in ReconcilePcs
                         /\ r.pc = "rebind" => r.path \in Paths
    /\ p # Reconciler => /\ r.pc \notin {"gone", "targets", "rebind"}
                         /\ r.pc # "idle" => Request(r)
                         /\ r.pc \in {"args", "acquire"} => r.path \in Stagings \cup Ephemerals

Shape == \A p \in Procs : WellFormed(p, proc[p])

(* Users, of a state that is written rather than read. *)
UsersIn(i, st) == IF st.users = {} /\ st.at # i THEN {st.at} ELSE st.users

OneHolder == \A p, q \in Procs : proc[p].id = proc[q].id /\ proc[p].id # NoId => p = q

Safe == OneHolder /\ StateStays /\ LastUserUnmounts

Inv == TypeOK /\ Shape /\ Safe

-----------------------------------------------------------------------------
(* Processes *)

(* A process that does nothing is well formed. *)
LEMMA IdleWellFormed == ASSUME NEW p \in Procs PROVE WellFormed(p, Idle)
  BY DEF WellFormed, Idle, Process, Locked, Unlocked, Either, ReconcilePcs

(* A step of p to the record r that touches no state but that of the id it *)

(* holds disturbs nobody else.                                             *)
LEMMA OthersKeep ==
  ASSUME Inv, NEW p \in Procs, NEW r, WellFormed(p, r),
         proc' = [proc EXCEPT ![p] = r],
         r.id = NoId \/ r.id = proc[p].id \/ IsFree(r.id),
         \A i \in Ids : i # proc[p].id => state'[i] = state[i],
         r.id # NoId /\ r.pc \notin {"mount", "save"} => state'[r.id].saved,
         p # Reconciler /\ r.pc \in Unmounting => UsersIn(r.id, state'[r.id]) \subseteq {r.path}
  PROVE  proc' \in [Procs -> Process] /\ Shape' /\ Safe'
<1>1. proc' \in [Procs -> Process] /\ proc'[p] = r /\ r \in Process
  BY DEF Inv, TypeOK, WellFormed
<1>2. \A q \in Procs : q # p => proc'[q] = proc[q]
  BY DEF Inv, TypeOK
<1>3. Shape'
  BY <1>1, <1>2 DEF Inv, Shape
<1>4. \A q \in Procs : q # p => proc[q].id = NoId \/ proc[q].id # r.id
  BY <1>1 DEF Inv, Safe, OneHolder, IsFree
<1>5. OneHolder'
  BY <1>1, <1>2, <1>4 DEF Inv, Safe, OneHolder
<1>6. \A q \in Procs : q # p /\ proc[q].id # NoId
                          => proc[q].id \in Ids /\ state'[proc[q].id] = state[proc[q].id]
  BY DEF Inv, TypeOK, Process, Safe, OneHolder
<1>7. StateStays'
  BY <1>1, <1>2, <1>6 DEF Inv, Safe, StateStays
<1>8. LastUserUnmounts'
  <2>1. SUFFICES ASSUME NEW q \in Calls, (proc[q].pc \in Unmounting)'
                 PROVE  (Users(proc[q].id) \subseteq {proc[q].path})'
    BY DEF LastUserUnmounts, Unmounting
  <2>2. CASE q = p
    BY <2>1, <2>2, <1>1, ConstantsAssumption DEF Users, UsersIn, Mountpoint
  <2>3. CASE q # p
    <3>1. q \in Procs /\ proc'[q] = proc[q] /\ proc[q].id # NoId
      BY <2>1, <2>3, <1>2 DEF Procs, Inv, Shape, WellFormed, Unmounting, Locked
    <3>2. Users(proc[q].id) \subseteq {proc[q].path}
      BY <3>1, <2>1 DEF Inv, Safe, LastUserUnmounts, Unmounting
    <3>3. QED
      BY <3>1, <3>2, <2>3, <1>6 DEF Users, Mountpoint
  <2>4. QED
    BY <2>2, <2>3
<1>9. QED
  BY <1>1, <1>3, <1>5, <1>7, <1>8 DEF Safe

(* A process that returns gives up its lock and disturbs nobody. *)
LEMMA ReturnKeeps ==
  ASSUME Inv, NEW p \in Procs, NEW ok \in BOOLEAN, Return(p, ok),
         \A i \in Ids : i # proc[p].id => state'[i] = state[i]
  PROVE  proc' \in [Procs -> Process] /\ Shape' /\ Safe'
<1>1. Idle.id = NoId /\ Idle.pc \notin Unmounting
  BY DEF Idle, Unmounting
<1>2. QED
  BY <1>1, IdleWellFormed, OthersKeep DEF Return

-----------------------------------------------------------------------------
(* Types *)

(* The users of a mount, addLegacyUser included, and its mount point are paths. *)
LEMMA UsersType ==
  ASSUME TypeOK, NEW i \in Ids
  PROVE  Mountpoint(i) \in Paths /\ Users(i) \subseteq Paths /\ NoState(i) \in volumeState
  BY DEF TypeOK, Users, Mountpoint, volumeState, NoState, Paths

(* A process at a locked label holds an id whose state is saved, but for mount. *)
LEMMA HeldType ==
  ASSUME Inv, NEW p \in Procs, proc[p].pc \in Locked
  PROVE  proc[p].id \in Ids /\ proc[p].id # NoId /\ proc[p] \in Process
         /\ (proc[p].pc \notin {"mount", "save"} => state[proc[p].id].saved)
  BY DEF Inv, TypeOK, Shape, WellFormed, Process, Safe, StateStays

(* A call works on the path of its request. *)
LEMMA PathType ==
  ASSUME Inv, NEW p \in Procs, p # Reconciler, proc[p].pc # "idle"
  PROVE  proc[p].path \in Paths /\ Request(proc[p])
  BY DEF Inv, Shape, WellFormed, Request, Paths

(* Unmounting keeps the type of a stack of mounts. *)
LEMMA PopType == ASSUME NEW s \in Seq(Entry) PROVE Pop(s) \in Seq(Entry)
  BY DEF Pop

(* So does the death of an rclone, for one mount *)
LEMMA DeadType == ASSUME NEW e \in Entry, NEW i \in Ids PROVE Dead(e, i) \in Entry
  BY DEF Dead, Entry

(* ... and for all the mounts on a path. *)
LEMMA KillType == ASSUME NEW s \in Seq(Entry), NEW i \in Ids PROVE Kill(s, i) \in Seq(Entry)
<1>1. \A k \in 1..Len(s) : s[k] \in Entry
  BY ElementOfSeq
<1>2. \A k \in 1..Len(s) : Dead(s[k], i) \in Entry
  BY <1>1, DeadType
<1>3. QED
  BY <1>2 DEF Kill

(* So does mounting. *)
LEMMA PushType ==
  ASSUME NEW s \in Seq(Entry), NEW e \in Entry
  PROVE  <<e>> \o s \in Seq(Entry)
  OBVIOUS

(* detach keeps the type of fuse. *)
LEMMA DetachType ==
  ASSUME TypeOK, NEW path \in Paths, detach(path)
  PROVE  fuse' \in [Paths -> Seq(Entry)]
  BY PopType DEF TypeOK, detach

(* The death of an rclone keeps the type of fuse. *)
LEMMA KilledType ==
  ASSUME TypeOK, NEW i \in Ids, NEW clean \in BOOLEAN, Killed(i, clean)
  PROVE  fuse' \in [Paths -> Seq(Entry)]
<1>1. ASSUME NEW path \in Paths
      PROVE  (IF clean /\ path = Mountpoint(i) /\ OnTop(i, path)
              THEN Tail(fuse[path]) ELSE fuse[path]) \in Seq(Entry)
  <2>1. fuse[path] \in Seq(Entry)
    BY DEF TypeOK
  <2>2. fuse[path] # <<>> => Tail(fuse[path]) \in Seq(Entry)
    BY <2>1
  <2>3. QED
    BY <2>1, <2>2 DEF OnTop
<1>2. QED
  BY <1>1, KillType DEF Killed

(* A bind keeps the type of fuse. *)
LEMMA BindType ==
  ASSUME TypeOK, NEW i \in Ids, NEW path \in Paths, BindTo(i, path)
  PROVE  fuse' \in [Paths -> Seq(Entry)]
<1>1. fuse[Mountpoint(i)] \in Seq(Entry) /\ fuse[path] \in Seq(Entry)
  BY UsersType DEF TypeOK
<1>2. fuse[Mountpoint(i)] # <<>> => Head(fuse[Mountpoint(i)]) \in Entry
  BY <1>1
<1>3. [id |-> i, kind |-> "plain"] \in Entry
  BY DEF Entry
<1>4. <<IF fuse[Mountpoint(i)] = <<>> THEN [id |-> i, kind |-> "plain"]
        ELSE Head(fuse[Mountpoint(i)])>> \o fuse[path] \in Seq(Entry)
  BY <1>1, <1>2, <1>3, PushType
<1>5. QED
  BY <1>4 DEF TypeOK, BindTo

(* Return and Become keep the type of told; a save keeps that of state,    *)

(* and the states of the other ids.                                        *)
LEMMA ToldType ==
  ASSUME TypeOK, NEW p \in Procs,
         (\E ok \in BOOLEAN : Return(p, ok)) \/ (\E r : Become(p, r))
  PROVE  told' \in [Paths -> {"none", "unsure", "up"}]
  BY DEF TypeOK, Return, Become

(* saveState writes the state of one id and no other. *)
LEMMA SaveType ==
  ASSUME TypeOK, NEW i \in Ids, NEW st \in volumeState, SaveState(i, st)
  PROVE  /\ state' \in [Ids -> volumeState]
         /\ state'[i] = st
         /\ \A j \in Ids : j # i => state'[j] = state[j]
  BY DEF TypeOK, SaveState

-----------------------------------------------------------------------------
(* Steps *)

(* A step from one label under the lock to another. *)
LEMMA StepKeeps ==
  ASSUME Inv, NEW p \in Procs, proc[p].pc \in Locked, NEW label \in Locked, Step(p, label),
         p = Reconciler => label \in ReconcilePcs \ {"rebind"},
         p # Reconciler => label \notin {"gone", "targets", "rebind"},
         \A i \in Ids : i # proc[p].id => state'[i] = state[i],
         label \notin {"mount", "save"} => state'[proc[p].id].saved,
         p # Reconciler /\ label \in Unmounting
            => UsersIn(proc[p].id, state'[proc[p].id]) \subseteq {proc[p].path}
  PROVE  proc' \in [Procs -> Process] /\ Shape' /\ Safe'
<1> DEFINE r == [proc[p] EXCEPT !.pc = label]
<1>1. /\ proc[p] \in Process /\ WellFormed(p, proc[p])
      /\ r.pc = label /\ r.id = proc[p].id /\ r.path = proc[p].path
  BY DEF Inv, TypeOK, Shape, Process
<1>2. WellFormed(p, r)
  BY <1>1, HeldType DEF WellFormed, Process, Locked, Unlocked, Either, Request
<1>3. proc' = [proc EXCEPT ![p] = r]
  BY DEF Step, Become
<1>4. QED
  BY <1>1, <1>2, <1>3, OthersKeep

(* mountRclone, before the state is saved, keeps the invariant. *)
LEMMA MountStep ==
  ASSUME Inv, NEW p \in Procs, Mount(p)
  PROVE  Inv'
<1>1. proc[p].id \in Ids /\ proc[p].pc \in Locked
  BY HeldType DEF Mount, At, Locked
<1>2. p # Reconciler
  BY DEF Mount, At, Inv, Shape, WellFormed, ReconcilePcs
<1>3. proc' \in [Procs -> Process] /\ Shape' /\ Safe'
  BY <1>1, <1>2, StepKeeps DEF Mount, Locked, Unmounting
<1>4. TypeOK'
  BY <1>1, <1>3, DetachType, ToldType DEF Inv, TypeOK, Mount, Step, Paths
<1>5. QED
  BY <1>3, <1>4 DEF Inv

(* The first saveState of mount keeps the invariant. *)
LEMMA SaveStep ==
  ASSUME Inv, NEW p \in Procs, Save(p)
  PROVE  Inv'
<1> DEFINE st == [NoState(proc[p].id) EXCEPT !.saved = TRUE]
<1>1. proc[p].id \in Ids /\ proc[p].pc \in Locked
  BY HeldType DEF Save, At, Locked
<1>2. p # Reconciler
  BY DEF Save, At, Inv, Shape, WellFormed, ReconcilePcs
<1>3. st \in volumeState /\ st.saved
  BY <1>1, UsersType DEF NoState, volumeState, Inv
<1>4. /\ state' \in [Ids -> volumeState] /\ state'[proc[p].id].saved
      /\ \A j \in Ids : j # proc[p].id => state'[j] = state[j]
  BY <1>1, <1>3, SaveType DEF Save, Inv
<1>5. proc' \in [Procs -> Process] /\ Shape' /\ Safe'
  BY <1>1, <1>2, <1>4, StepKeeps DEF Save, Locked, Unmounting
<1>6. TypeOK'
  BY <1>4, <1>5, ToldType DEF Inv, TypeOK, Save, Step
<1>7. QED
  BY <1>5, <1>6 DEF Inv

(* startRclone keeps the invariant; if it fails, mount removes the state and returns. *)
LEMMA StartStep ==
  ASSUME Inv, NEW p \in Procs, Start(p)
  PROVE  Inv'
<1>1. proc[p].id \in Ids /\ proc[p].pc \in Locked /\ state[proc[p].id].saved
  BY HeldType DEF Start, At, Locked
<1>2. p # Reconciler
  BY DEF Start, At, Inv, Shape, WellFormed, ReconcilePcs
<1>3. CASE rclone[proc[p].id] = "none"
  <2>1. proc' \in [Procs -> Process] /\ Shape' /\ Safe'
    BY <1>1, <1>2, <1>3, StepKeeps DEF Start, Locked, Unmounting
  <2>2. TypeOK'
    BY <1>1, <1>3, <2>1, ToldType DEF Inv, TypeOK, Start, Step
  <2>3. QED
    BY <2>1, <2>2 DEF Inv
<1>4. CASE rclone[proc[p].id] # "none"
  <2>1. /\ state' \in [Ids -> volumeState]
        /\ \A j \in Ids : j # proc[p].id => state'[j] = state[j]
    BY <1>1, <1>4, UsersType, SaveType DEF Start, RemoveState, Inv, TypeOK
  <2>2. proc' \in [Procs -> Process] /\ Shape' /\ Safe'
    BY <1>4, <2>1, ReturnKeeps DEF Start
  <2>3. TypeOK'
    BY <1>1, <1>4, <2>1, <2>2, ToldType DEF Inv, TypeOK, Start
  <2>4. QED
    BY <2>2, <2>3 DEF Inv
<1>5. QED
  BY <1>3, <1>4

(* The end of Supervisor.Start keeps the invariant. *)
LEMMA ReadyStep ==
  ASSUME Inv, NEW p \in Procs, Ready(p)
  PROVE  Inv'
<1>1. proc[p].id \in Ids /\ proc[p].pc \in Locked /\ state[proc[p].id].saved
      /\ proc[p] \in Process
  BY HeldType DEF Ready, Locked
<1>2. UNCHANGED <<state, dirs, fuse, rclone, faults, uploads>>
  BY DEF Ready
<1>3. proc' \in [Procs -> Process] /\ Shape' /\ Safe'
  <2>1. CASE p # Reconciler
    <3>1. \/ Step(p, "setmounted")
          \/ Step(p, "readduser")
      BY <2>1 DEF Ready
    <3>2. QED
      BY <1>1, <1>2, <2>1, <3>1, StepKeeps DEF Locked, Unmounting
  <2>2. CASE p = Reconciler
    <3> DEFINE r == [proc[p] EXCEPT !.pc = "targets", !.left = state[proc[p].id].targets]
    <3>1. proc[p].pc # "mountwait"
      BY <2>2 DEF Inv, Shape, WellFormed, ReconcilePcs
    <3>2. proc' = [proc EXCEPT ![p] = r]
      BY <2>2, <3>1 DEF Ready, At, Become
    <3>3. state[proc[p].id].targets \subseteq Paths
      BY <1>1 DEF Inv, TypeOK, volumeState
    <3>4. proc[p].id # NoId
      BY <1>1, HeldType
    <3>5. r \in Process /\ r.pc = "targets" /\ r.id = proc[p].id
      BY <1>1, <3>3 DEF Process, Locked
    <3>6. WellFormed(p, r)
      BY <2>2, <3>4, <3>5 DEF WellFormed, Unlocked, ReconcilePcs
    <3>7. QED
      BY <1>1, <1>2, <2>2, <3>2, <3>5, <3>6, OthersKeep
  <2>3. QED
    BY <2>1, <2>2
<1>4. TypeOK'
  BY <1>2, <1>3, ToldType DEF Inv, TypeOK, Ready, Step
<1>5. QED
  BY <1>3, <1>4 DEF Inv

(* The failure of Supervisor.Start keeps the invariant. *)
LEMMA StartFailsStep ==
  ASSUME Inv, NEW p \in Procs, StartFails(p)
  PROVE  Inv'
<1>1. proc[p].id \in Ids /\ proc[p].pc \in Locked
  BY HeldType DEF StartFails, Locked
<1>2. /\ state' \in [Ids -> volumeState]
      /\ \A j \in Ids : j # proc[p].id => state'[j] = state[j]
  BY <1>1, UsersType, SaveType DEF StartFails, RemoveState, Inv, TypeOK
<1>3. proc' \in [Procs -> Process] /\ Shape' /\ Safe'
  BY <1>2, ReturnKeeps DEF StartFails
<1>4. fuse' \in [Paths -> Seq(Entry)]
  BY <1>1, KilledType DEF StartFails, Inv
<1>5. TypeOK'
  BY <1>1, <1>2, <1>3, <1>4, ToldType DEF Inv, TypeOK, StartFails
<1>6. QED
  BY <1>3, <1>5 DEF Inv

(* The second saveState of mount keeps the invariant. *)
LEMMA SetMountedStep ==
  ASSUME Inv, NEW p \in Procs, SetMounted(p)
  PROVE  Inv'
<1> DEFINE st == [state[proc[p].id] EXCEPT !.mounted = TRUE]
<1>1. proc[p].id \in Ids /\ proc[p].pc \in Locked /\ state[proc[p].id].saved
  BY HeldType DEF SetMounted, At, Locked
<1>2. p # Reconciler
  BY DEF SetMounted, At, Inv, Shape, WellFormed, ReconcilePcs
<1>3. st \in volumeState /\ st.saved
  <2>1. state[proc[p].id] \in volumeState
    BY <1>1 DEF Inv, TypeOK
  <2>2. QED
    BY <1>1, <2>1 DEF volumeState
<1>4. /\ state' \in [Ids -> volumeState] /\ state'[proc[p].id].saved
      /\ \A j \in Ids : j # proc[p].id => state'[j] = state[j]
  BY <1>1, <1>3, SaveType DEF SetMounted, Inv
<1>5. proc' \in [Procs -> Process] /\ Shape' /\ Safe'
  BY <1>1, <1>2, <1>4, StepKeeps DEF SetMounted, Locked, Unmounting
<1>6. TypeOK'
  BY <1>4, <1>5, ToldType DEF Inv, TypeOK, SetMounted, Step
<1>7. QED
  BY <1>5, <1>6 DEF Inv

(* The end of acquire keeps the invariant. *)
LEMMA AddUserStep ==
  ASSUME Inv, NEW p \in Procs, AddUser(p)
  PROVE  Inv'
<1> DEFINE i == proc[p].id
           st == [state[i] EXCEPT !.users = Users(i) \cup {proc[p].path},
                                  !.mounted = @ \/ At(p, "readduser")]
<1>1. i \in Ids /\ proc[p].pc \in Locked /\ state[i].saved
  BY HeldType DEF AddUser, Locked
<1>2. p # Reconciler /\ proc[p].path \in Paths
  BY PathType DEF AddUser, Inv, Shape, WellFormed, ReconcilePcs
<1>3. st \in volumeState /\ st.saved
  <2>1. Users(i) \cup {proc[p].path} \subseteq Paths
    BY <1>1, <1>2, UsersType DEF Inv
  <2>2. state[i] \in volumeState
    BY <1>1 DEF Inv, TypeOK
  <2>3. QED
    BY <1>1, <2>1, <2>2 DEF volumeState
<1>4. /\ state' \in [Ids -> volumeState] /\ state'[i].saved
      /\ \A j \in Ids : j # i => state'[j] = state[j]
  BY <1>1, <1>3, SaveType DEF AddUser, Inv
<1>5. proc' \in [Procs -> Process] /\ Shape' /\ Safe'
  <2>1. CASE Step(p, "record")
    BY <1>1, <1>2, <1>4, <2>1, StepKeeps DEF Locked, Unmounting
  <2>2. CASE Return(p, TRUE)
    BY <1>4, <2>2, ReturnKeeps
  <2>3. QED
    BY <2>1, <2>2 DEF AddUser
<1>6. TypeOK'
  BY <1>4, <1>5, ToldType DEF Inv, TypeOK, AddUser, Step
<1>7. QED
  BY <1>5, <1>6 DEF Inv

(* remount and unmount up to stopScope keep the invariant. *)
LEMMA RemountStep ==
  ASSUME Inv, NEW p \in Procs, Remount(p) \/ Umount(p) \/ Drain(p)
  PROVE  Inv'
<1>1. proc[p].id \in Ids /\ proc[p].pc \in Locked /\ state[proc[p].id].saved
  BY HeldType DEF Remount, Umount, Drain, At, Locked
<1>2. UNCHANGED <<state, dirs, rclone, faults, uploads>>
  BY DEF Remount, Umount, Drain
<1>3. /\ fuse' \in [Paths -> Seq(Entry)]
      /\ told' \in [Paths -> {"none", "unsure", "up"}]
  BY <1>1, UsersType, DetachType, ToldType DEF Remount, Umount, Drain, Step, Inv, TypeOK
<1>4. p # Reconciler /\ ~Remount(p)
         => UsersIn(proc[p].id, state'[proc[p].id]) \subseteq {proc[p].path}
  BY <1>2, ConstantsAssumption
     DEF Umount, Drain, At, Inv, Safe, LastUserUnmounts, Procs, Users, UsersIn, Mountpoint
<1>5. proc' \in [Procs -> Process] /\ Shape' /\ Safe'
  <2>1. CASE Remount(p)
    BY <1>1, <1>2, <2>1, StepKeeps DEF Remount, Locked, Unmounting, ReconcilePcs
  <2>2. CASE Umount(p)
    BY <1>1, <1>2, <1>4, <2>2, StepKeeps DEF Umount, Remount, At, Locked, ReconcilePcs
  <2>3. CASE Drain(p)
    BY <1>1, <1>2, <1>4, <2>3, StepKeeps DEF Drain, Remount, At, Locked, ReconcilePcs
  <2>4. QED
    BY <2>1, <2>2, <2>3
<1>6. QED
  BY <1>2, <1>3, <1>5 DEF Inv, TypeOK

(* The start of the new rclone of a remount keeps the invariant. *)
LEMMA StopOldStep ==
  ASSUME Inv, NEW p \in Procs, StopOld(p)
  PROVE  Inv'
<1>1. proc[p].id \in Ids /\ proc[p].pc \in Locked /\ state[proc[p].id].saved
  BY HeldType DEF StopOld, At, Locked
<1>2. proc' \in [Procs -> Process] /\ Shape' /\ Safe'
  BY <1>1, StepKeeps DEF StopOld, Locked, Unmounting, ReconcilePcs
<1>3. fuse' \in [Paths -> Seq(Entry)]
  BY <1>1, KilledType DEF StopOld, Inv
<1>4. TypeOK'
  BY <1>1, <1>2, <1>3, ToldType DEF Inv, TypeOK, StopOld, Step
<1>5. QED
  BY <1>2, <1>4 DEF Inv

(* An operation that fails keeps the invariant. *)
LEMMA FailStep ==
  ASSUME Inv, NEW p \in Procs, Fail(p)
  PROVE  Inv'
<1>1. proc' \in [Procs -> Process] /\ Shape' /\ Safe'
  BY ReturnKeeps DEF Fail
<1>2. told' \in [Paths -> {"none", "unsure", "up"}]
  BY ToldType DEF Fail, Inv
<1>3. QED
  BY <1>1, <1>2 DEF Inv, TypeOK, Fail

(* A call that holds no lock moves on without one. *)
LEMMA UnlockedKeeps ==
  ASSUME Inv, NEW p \in Procs, p # Reconciler, NEW r \in Process, Request(r),
         proc' = [proc EXCEPT ![p] = r], UNCHANGED state,
         r.pc \in {"find", "lockof", "args", "acquire", "unbind"}, r.id = NoId,
         r.pc \in {"args", "acquire"} => r.path \in Stagings \cup Ephemerals
  PROVE  proc' \in [Procs -> Process] /\ Shape' /\ Safe'
<1>1. WellFormed(p, r)
  BY DEF WellFormed, Locked, Unlocked
<1>2. QED
  BY <1>1, OthersKeep DEF Unmounting

(* A call takes the lock of an id that is free. *)
LEMMA LockedKeeps ==
  ASSUME Inv, NEW p \in Procs, p # Reconciler, proc[p].pc # "idle", NEW i \in Ids, IsFree(i),
         NEW label \in {"unbind", "release", "record", "mount", "adduser", "remount"},
         StepLocked(p, i, label), UNCHANGED state,
         label # "mount" => state[i].saved
  PROVE  proc' \in [Procs -> Process] /\ Shape' /\ Safe'
<1> DEFINE r == [proc[p] EXCEPT !.pc = label, !.id = i, !.left = {}]
<1>1. proc[p] \in Process /\ Request(proc[p]) /\ i # NoId
  BY PathType, ConstantsAssumption DEF Inv, TypeOK, Paths
<1>2. /\ r \in Process /\ r.pc = label /\ r.id = i /\ r.op = proc[p].op
      /\ r.path = proc[p].path
  BY <1>1 DEF Process, Locked, Either
<1>3. WellFormed(p, r)
  BY <1>1, <1>2 DEF WellFormed, Request, Unlocked
<1>4. proc' = [proc EXCEPT ![p] = r]
  BY DEF StepLocked, Become
<1>5. QED
  BY <1>2, <1>3, <1>4, OthersKeep DEF Unmounting

(* A request that arrives keeps the invariant. *)
LEMMA CallStep ==
  ASSUME Inv, NEW p \in Calls, NEW q \in Requests, Call(p, q[1], q[2])
  PROVE  Inv'
<1> DEFINE r == [Idle EXCEPT
                    !.pc = IF q[1] = "publish" /\ q[2] \in Ephemerals THEN "args" ELSE "find",
                    !.op = q[1], !.path = q[2]]
<1>1. p \in Procs /\ p # Reconciler
  BY ConstantsAssumption DEF Procs
<1>2. \/ q[1] \in {"stage", "unstage"} /\ q[2] \in Stagings
      \/ q[1] \in {"publish", "unpublish"} /\ q[2] \in Targets \cup Ephemerals
  BY DEF Requests
<1>3. q[2] \in Paths
  BY <1>2 DEF Paths
<1>4. /\ r \in Process /\ r.op = q[1] /\ r.path = q[2] /\ r.id = NoId
      /\ r.pc = IF q[1] = "publish" /\ q[2] \in Ephemerals THEN "args" ELSE "find"
  BY <1>2, <1>3 DEF Idle, Process, Unlocked
<1>5. proc' \in [Procs -> Process] /\ Shape' /\ Safe'
  <2>1. Request(r)
    BY <1>2, <1>4 DEF Request
  <2>2. proc' = [proc EXCEPT ![p] = r] /\ UNCHANGED state
    BY DEF Call
  <2>3. /\ r.pc \in {"find", "args"}
        /\ r.pc \in {"args", "acquire"} => r.path \in Stagings \cup Ephemerals
    BY <1>4
  <2> HIDE DEF r
  <2>4. QED
    BY <1>1, <1>4, <2>1, <2>2, <2>3, UnlockedKeeps
<1>6. QED
  BY <1>3, <1>5 DEF Call, Inv, TypeOK

(* The search of lockMountOf keeps the invariant. *)
LEMMA FindStep ==
  ASSUME Inv, NEW p \in Procs, Find(p) \/ \E i \in Ids : SkipMount(p, i)
  PROVE  Inv'
<1>1. p # Reconciler /\ proc[p] \in Process /\ Request(proc[p]) /\ proc[p].id = NoId
  BY PathType DEF Find, SkipMount, At, Inv, TypeOK, Shape, WellFormed, ReconcilePcs, Unlocked
<1>2. UNCHANGED <<state, dirs, fuse, rclone, told, faults, uploads>>
  BY DEF Find, SkipMount, Become
<1>3. PICK left \in SUBSET Paths :
         proc' = [proc EXCEPT ![p] = [proc[p] EXCEPT !.pc = "lockof", !.left = left]]
  <2>1. CASE Find(p)
    BY <2>1 DEF Find, Become, Paths
  <2>2. CASE \E i \in Ids : SkipMount(p, i)
    <3>1. PICK i \in Ids : SkipMount(p, i)
      BY <2>2
    <3>2. proc[p].pc = "lockof" /\ proc[p].left \ {i} \subseteq Paths
      BY <1>1, <3>1 DEF SkipMount, At, Process
    <3>3. [proc[p] EXCEPT !.left = @ \ {i}]
             = [proc[p] EXCEPT !.pc = "lockof", !.left = proc[p].left \ {i}]
      BY <1>1, <3>2 DEF Process
    <3>4. QED
      BY <3>1, <3>2, <3>3 DEF SkipMount, Become
  <2>3. QED
    BY <2>1, <2>2
<1> DEFINE r == [proc[p] EXCEPT !.pc = "lockof", !.left = left]
<1>4. /\ r \in Process /\ r.pc = "lockof" /\ r.id = NoId /\ r.op = proc[p].op
      /\ r.path = proc[p].path
  BY <1>1 DEF Process, Unlocked
<1>5. proc' \in [Procs -> Process] /\ Shape' /\ Safe'
  BY <1>1, <1>2, <1>3, <1>4, UnlockedKeeps DEF Request
<1>6. QED
  BY <1>2, <1>5 DEF Inv, TypeOK

(* The lock lockMountOf takes keeps the invariant. *)
LEMMA LockMountOfStep ==
  ASSUME Inv, NEW p \in Procs, NEW i \in Ids, LockMountOf(p, i)
  PROVE  Inv'
<1>1. p # Reconciler /\ proc[p].pc # "idle"
  BY DEF LockMountOf, At, Inv, Shape, WellFormed, ReconcilePcs
<1>2. UNCHANGED <<state, dirs, fuse, rclone, faults, uploads>> /\ IsFree(i) /\ state[i].saved
  BY DEF LockMountOf, Uses
<1>3. \/ Return(p, TRUE)
      \/ \E label \in {"release", "record", "unbind"} : StepLocked(p, i, label)
  BY DEF LockMountOf
<1>4. proc' \in [Procs -> Process] /\ Shape' /\ Safe'
  BY <1>1, <1>2, <1>3, ReturnKeeps, LockedKeeps
<1>5. told' \in [Paths -> {"none", "unsure", "up"}]
  BY <1>3, ToldType DEF StepLocked, Inv
<1>6. QED
  BY <1>2, <1>4, <1>5 DEF Inv, TypeOK

(* A search that finds nothing keeps the invariant. *)
LEMMA NotFoundStep ==
  ASSUME Inv, NEW p \in Procs, NotFound(p)
  PROVE  Inv'
<1>1. p # Reconciler /\ proc[p] \in Process /\ Request(proc[p]) /\ proc[p].id = NoId
  BY PathType DEF NotFound, At, Inv, TypeOK, Shape, WellFormed, ReconcilePcs, Unlocked
<1>2. UNCHANGED <<state, dirs, fuse, rclone, faults, uploads>>
  BY DEF NotFound
<1>3. \/ \E ok \in BOOLEAN : Return(p, ok)
      \/ Step(p, "unbind")
      \/ Step(p, "args") /\ proc[p].op = "stage"
  BY DEF NotFound
<1>4. ASSUME NEW label \in {"args", "unbind"}, Step(p, label),
             label = "args" => proc[p].op = "stage"
      PROVE  proc' \in [Procs -> Process] /\ Shape' /\ Safe'
  <2> DEFINE r == [proc[p] EXCEPT !.pc = label]
  <2>1. /\ r \in Process /\ r.pc = label /\ r.id = NoId /\ r.op = proc[p].op
        /\ r.path = proc[p].path
    BY <1>1 DEF Process, Unlocked, Either
  <2>2. proc' = [proc EXCEPT ![p] = r]
    BY <1>4 DEF Step, Become
  <2>3. QED
    BY <1>1, <1>2, <1>4, <2>1, <2>2, UnlockedKeeps DEF Request
<1>5. proc' \in [Procs -> Process] /\ Shape' /\ Safe'
  BY <1>2, <1>3, <1>4, ReturnKeeps
<1>6. told' \in [Paths -> {"none", "unsure", "up"}]
  BY <1>3, ToldType DEF Step, Inv
<1>7. QED
  BY <1>2, <1>5, <1>6 DEF Inv, TypeOK

(* Reading the arguments keeps the invariant. *)
LEMMA ArgsStep ==
  ASSUME Inv, NEW p \in Procs, Args(p)
  PROVE  Inv'
<1>1. /\ p # Reconciler /\ proc[p] \in Process /\ Request(proc[p]) /\ proc[p].id = NoId
      /\ proc[p].path \in Stagings \cup Ephemerals
  BY PathType DEF Args, At, Inv, TypeOK, Shape, WellFormed, ReconcilePcs, Unlocked
<1>2. PICK i \in IdsOf[proc[p].path] :
         Become(p, [proc[p] EXCEPT !.pc = "acquire", !.left = {i}])
  BY DEF Args
<1> DEFINE r == [proc[p] EXCEPT !.pc = "acquire", !.left = {i}]
<1>3. i \in Paths
  BY <1>1, ConstantsAssumption DEF Paths
<1>4. /\ r \in Process /\ r.pc = "acquire" /\ r.id = NoId /\ r.op = proc[p].op
      /\ r.path = proc[p].path
  BY <1>1, <1>3 DEF Process, Unlocked
<1>5. UNCHANGED <<state, fuse, rclone, faults, uploads, told>> /\ dirs' \subseteq Paths
  BY <1>1, <1>2 DEF Args, Become, Inv, TypeOK, Paths
<1>6. proc' \in [Procs -> Process] /\ Shape' /\ Safe'
  BY <1>1, <1>2, <1>4, <1>5, UnlockedKeeps DEF Request, Become
<1>7. QED
  BY <1>5, <1>6 DEF Inv, TypeOK

(* The lock acquire takes keeps the invariant. *)
LEMMA AcquireStep ==
  ASSUME Inv, NEW p \in Procs, NEW i \in Ids, Acquire(p, i)
  PROVE  Inv'
<1>1. p # Reconciler /\ proc[p].pc # "idle"
  BY DEF Acquire, At, Inv, Shape, WellFormed, ReconcilePcs
<1>2. UNCHANGED <<state, dirs, fuse, rclone, faults, uploads>> /\ IsFree(i)
  BY DEF Acquire
<1>3. \/ Return(p, FALSE)
      \/ StepLocked(p, i, "mount")
      \/ state[i].saved /\ (StepLocked(p, i, "adduser") \/ StepLocked(p, i, "remount"))
  BY DEF Acquire
<1>4. proc' \in [Procs -> Process] /\ Shape' /\ Safe'
  BY <1>1, <1>2, <1>3, ReturnKeeps, LockedKeeps
<1>5. told' \in [Paths -> {"none", "unsure", "up"}]
  BY <1>3, ToldType DEF StepLocked, Inv
<1>6. QED
  BY <1>2, <1>4, <1>5 DEF Inv, TypeOK

(* stopScope keeps the types of fuse and rclone. *)
LEMMA StopScopeType ==
  ASSUME TypeOK, NEW p \in Procs, proc[p].id \in Ids, stopScope(p)
  PROVE  /\ fuse' \in [Paths -> Seq(Entry)]
         /\ rclone' \in [Ids -> {"none", "starting", "running", "stuck"}]
  BY KilledType DEF TypeOK, stopScope

(* A step of NodeUnpublishVolume, with or without a lock. *)
LEMMA EitherKeeps ==
  ASSUME Inv, NEW p \in Procs, proc[p].pc \in Either, Step(p, "rmdir") \/
            (proc[p].id # NoId /\ \E label \in {"release", "forget"} : Step(p, label)),
         UNCHANGED state
  PROVE  proc' \in [Procs -> Process] /\ Shape' /\ Safe'
<1>1. /\ proc[p] \in Process /\ WellFormed(p, proc[p])
      /\ p # Reconciler /\ Request(proc[p])
      /\ proc[p].id # NoId => state[proc[p].id].saved
  BY PathType DEF Inv, TypeOK, Shape, WellFormed, Either, ReconcilePcs, Safe, StateStays
<1>2. PICK label \in {"rmdir", "release", "forget"} :
         Step(p, label) /\ (label # "rmdir" => proc[p].id # NoId)
  OBVIOUS
<1> DEFINE r == [proc[p] EXCEPT !.pc = label]
<1>3. /\ r \in Process /\ r.pc = label /\ r.id = proc[p].id /\ r.op = proc[p].op
      /\ r.path = proc[p].path
  BY <1>1 DEF Process, Locked, Either
<1>4. proc' = [proc EXCEPT ![p] = r]
  BY <1>2 DEF Step, Become
<1> HIDE DEF r
<1>5. WellFormed(p, r)
  BY <1>1, <1>2, <1>3 DEF WellFormed, Request, Locked, Unlocked
<1>6. r.pc \notin Unmounting
  BY <1>3 DEF Unmounting
<1>7. QED
  BY <1>1, <1>3, <1>4, <1>5, <1>6, OthersKeep

(* Recording a target keeps the invariant. *)
LEMMA RecordStep ==
  ASSUME Inv, NEW p \in Procs, Record(p)
  PROVE  Inv'
<1> DEFINE i == proc[p].id
           st == [state[i] EXCEPT !.users = Users(i), !.targets = @ \cup {proc[p].path}]
<1>1. i \in Ids /\ proc[p].pc \in Locked /\ state[i].saved
  BY HeldType DEF Record, At, Locked
<1>2. p # Reconciler /\ proc[p].path \in Paths
  BY PathType DEF Record, At, Inv, Shape, WellFormed, ReconcilePcs
<1>3. st \in volumeState /\ st.saved
  <2>1. TypeOK /\ state[i] \in volumeState
    BY <1>1 DEF Inv, TypeOK
  <2>2. Users(i) \subseteq Paths
    BY <1>1, <2>1, UsersType
  <2>3. QED
    BY <1>1, <1>2, <2>1, <2>2 DEF volumeState
<1>4. CASE live(Mountpoint(i))
  <2>1. /\ state' \in [Ids -> volumeState] /\ state'[i].saved
        /\ \A j \in Ids : j # i => state'[j] = state[j]
    BY <1>1, <1>3, <1>4, SaveType DEF Record, Inv
  <2>2. proc' \in [Procs -> Process] /\ Shape' /\ Safe'
    BY <1>1, <1>2, <1>4, <2>1, StepKeeps DEF Record, Locked, Unmounting
  <2>3. QED
    BY <1>4, <2>1, <2>2, ToldType DEF Inv, TypeOK, Record, Step
<1>5. CASE ~live(Mountpoint(i))
  <2>1. proc' \in [Procs -> Process] /\ Shape' /\ Safe'
    BY <1>5, ReturnKeeps DEF Record
  <2>2. QED
    BY <1>5, <2>1, ToldType DEF Inv, TypeOK, Record
<1>6. QED
  BY <1>4, <1>5

(* Detaching a target before it is bound keeps the invariant. *)
LEMMA BindCheckStep ==
  ASSUME Inv, NEW p \in Procs, BindCheck(p)
  PROVE  Inv'
<1>1. proc[p].id \in Ids /\ proc[p].pc \in Locked /\ state[proc[p].id].saved
  BY HeldType DEF BindCheck, At, Locked
<1>2. p # Reconciler /\ proc[p].path \in Paths
  BY PathType DEF BindCheck, At, Inv, Shape, WellFormed, ReconcilePcs
<1>3. UNCHANGED <<state, dirs, rclone, faults, uploads>>
  BY DEF BindCheck
<1>4. CASE Return(p, TRUE) /\ UNCHANGED fuse
  <2>1. proc' \in [Procs -> Process] /\ Shape' /\ Safe'
    BY <1>3, <1>4, ReturnKeeps
  <2>2. QED
    BY <1>3, <1>4, <2>1, ToldType DEF Inv, TypeOK
<1>5. CASE detach(proc[p].path) /\ Step(p, "bind")
  <2>1. proc' \in [Procs -> Process] /\ Shape' /\ Safe'
    BY <1>1, <1>2, <1>3, <1>5, StepKeeps DEF Locked, Unmounting
  <2>2. fuse' \in [Paths -> Seq(Entry)]
    BY <1>2, <1>5, DetachType DEF Inv
  <2>3. QED
    BY <1>3, <1>5, <2>1, <2>2, ToldType DEF Inv, TypeOK, Step
<1>6. QED
  BY <1>4, <1>5 DEF BindCheck

(* Binding a target keeps the invariant. *)
LEMMA BindStep ==
  ASSUME Inv, NEW p \in Procs, Bind(p)
  PROVE  Inv'
<1>1. proc[p].id \in Ids
  BY HeldType DEF Bind, At, Locked
<1>2. proc[p].path \in Paths
  BY PathType DEF Bind, At, Inv, Shape, WellFormed, ReconcilePcs
<1>3. UNCHANGED <<state, rclone, faults, uploads>> /\ \E ok \in BOOLEAN : Return(p, ok)
  BY DEF Bind
<1>4. dirs' \subseteq Paths /\ fuse' \in [Paths -> Seq(Entry)]
  BY <1>1, <1>2, BindType DEF Bind, Inv, TypeOK
<1>5. proc' \in [Procs -> Process] /\ Shape' /\ Safe'
  BY <1>3, ReturnKeeps
<1>6. QED
  BY <1>3, <1>4, <1>5, ToldType DEF Inv, TypeOK

(* Unmounting a target keeps the invariant. *)
LEMMA UnbindStep ==
  ASSUME Inv, NEW p \in Procs, Unbind(p)
  PROVE  Inv'
<1>1. proc[p].path \in Paths
  BY PathType DEF Unbind, At, Inv, Shape, WellFormed, ReconcilePcs
<1>2. fuse' \in [Paths -> Seq(Entry)]
  BY <1>1, DetachType DEF Unbind, Inv
<1>3. proc' \in [Procs -> Process] /\ Shape' /\ Safe'
  BY EitherKeeps DEF Unbind, At, Either
<1>4. QED
  BY <1>2, <1>3, ToldType DEF Unbind, Inv, TypeOK, Step

(* Removing the directory of a target keeps the invariant. *)
LEMMA RmdirStep ==
  ASSUME Inv, NEW p \in Procs, Rmdir(p)
  PROVE  Inv'
<1>1. UNCHANGED <<state, fuse, rclone, faults, uploads>> /\ dirs' \subseteq Paths
  BY DEF Rmdir, Inv, TypeOK
<1>2. \/ \E ok \in BOOLEAN : Return(p, ok)
      \/ proc[p].id # NoId /\ \E label \in {"release", "forget"} : Step(p, label)
  BY DEF Rmdir
<1>3. proc' \in [Procs -> Process] /\ Shape' /\ Safe'
  BY <1>1, <1>2, ReturnKeeps, EitherKeeps DEF Rmdir, At, Either
<1>4. QED
  BY <1>1, <1>2, <1>3, ToldType DEF Inv, TypeOK, Step

(* Forgetting a target or a user keeps the invariant. *)
LEMMA ForgetStep ==
  ASSUME Inv, NEW p \in Procs, Forget(p)
  PROVE  Inv'
<1> DEFINE i == proc[p].id
           st == [state[i] EXCEPT !.users = Users(i) \ {proc[p].path},
                                  !.targets = @ \ {proc[p].path}]
<1>1. i \in Ids
  BY HeldType DEF Forget, At, Locked
<1>2. st \in volumeState
  <2>1. TypeOK /\ state[i] \in volumeState
    BY <1>1 DEF Inv, TypeOK
  <2>2. Users(i) \subseteq Paths
    BY <1>1, <2>1, UsersType
  <2>3. QED
    BY <2>1, <2>2 DEF volumeState
<1>3. /\ state' \in [Ids -> volumeState]
      /\ \A j \in Ids : j # i => state'[j] = state[j]
  BY <1>1, <1>2, SaveType DEF Forget, Inv
<1>4. proc' \in [Procs -> Process] /\ Shape' /\ Safe'
  BY <1>3, ReturnKeeps DEF Forget
<1>5. QED
  BY <1>3, <1>4, ToldType DEF Inv, TypeOK, Forget

(* release unmounts only for the last user, and keeps the invariant. *)
LEMMA ReleaseStep ==
  ASSUME Inv, NEW p \in Procs, Release(p)
  PROVE  Inv'
<1>1. proc[p].id \in Ids /\ proc[p].pc \in Locked /\ state[proc[p].id].saved
  BY HeldType DEF Release, At, Locked
<1>2. p # Reconciler
  BY DEF Release, At, Inv, Shape, WellFormed, ReconcilePcs
<1>3. UNCHANGED <<state, dirs, fuse, rclone, faults, uploads>>
  BY DEF Release
<1>4. \/ Step(p, "forget")
      \/ Step(p, "drain") /\ Users(proc[p].id) \subseteq {proc[p].path}
  BY DEF Release
<1>5. CASE Step(p, "forget")
  BY <1>1, <1>2, <1>3, <1>5, StepKeeps, ToldType
     DEF Locked, Unmounting, Inv, TypeOK, Step
<1>6. CASE Step(p, "drain") /\ Users(proc[p].id) \subseteq {proc[p].path}
  <2>1. UsersIn(proc[p].id, state'[proc[p].id]) \subseteq {proc[p].path}
    BY <1>3, <1>6 DEF Users, UsersIn, Mountpoint
  <2>2. proc' \in [Procs -> Process] /\ Shape' /\ Safe'
    BY <1>1, <1>2, <1>3, <1>6, <2>1, StepKeeps DEF Locked
  <2>3. QED
    BY <1>3, <1>6, <2>2, ToldType DEF Inv, TypeOK, Step
<1>7. QED
  BY <1>4, <1>5, <1>6

(* stopScope in unmount keeps the invariant. *)
LEMMA StopStep ==
  ASSUME Inv, NEW p \in Procs, Stop(p)
  PROVE  Inv'
<1>1. proc[p].id \in Ids /\ proc[p].pc \in Locked /\ state[proc[p].id].saved
  BY HeldType DEF Stop, At, Locked
<1>2. UNCHANGED <<state, faults, uploads>> /\ dirs' \subseteq Paths
  BY DEF Stop, Inv, TypeOK
<1>3. /\ fuse' \in [Paths -> Seq(Entry)]
      /\ rclone' \in [Ids -> {"none", "starting", "running", "stuck"}]
  BY <1>1, StopScopeType DEF Stop, Inv
<1>4. p # Reconciler => UsersIn(proc[p].id, state'[proc[p].id]) \subseteq {proc[p].path}
  BY <1>2, ConstantsAssumption
     DEF Stop, At, Inv, Safe, LastUserUnmounts, Procs, Users, UsersIn, Mountpoint
<1>5. Return(p, FALSE) \/ Step(p, "rmstate")
  BY DEF Stop
<1>6. proc' \in [Procs -> Process] /\ Shape' /\ Safe'
  <2>1. CASE Return(p, FALSE)
    BY <1>2, <2>1, ReturnKeeps
  <2>2. CASE Step(p, "rmstate")
    BY <1>1, <1>2, <1>4, <2>2, StepKeeps DEF Locked, ReconcilePcs
  <2>3. QED
    BY <1>5, <2>1, <2>2
<1>7. QED
  BY <1>2, <1>3, <1>5, <1>6, ToldType DEF Inv, TypeOK, Step

(* Removing the state keeps the invariant: it ends the call that held the lock. *)
LEMMA RmStateStep ==
  ASSUME Inv, NEW p \in Procs, RmState(p)
  PROVE  Inv'
<1>1. proc[p].id \in Ids
  BY HeldType DEF RmState, At, Locked
<1>2. /\ state' \in [Ids -> volumeState]
      /\ \A j \in Ids : j # proc[p].id => state'[j] = state[j]
  BY <1>1, UsersType, SaveType DEF RmState, Inv
<1>3. proc' \in [Procs -> Process] /\ Shape' /\ Safe'
  BY <1>2, ReturnKeeps DEF RmState
<1>4. QED
  BY <1>2, <1>3, ToldType DEF Inv, TypeOK, RmState

(* The begin of a pass for an id keeps the invariant. *)
LEMMA ReconcileStep ==
  ASSUME Inv, NEW i \in Ids, Reconcile(i)
  PROVE  Inv'
<1> DEFINE s == Probe(Mountpoint(i))
           r == [Idle EXCEPT
                   !.op = "reconcile", !.id = i,
                   !.pc = IF s = "Live" THEN "targets" ELSE IF s = "Gone" THEN "gone" ELSE "remount",
                   !.left = IF s = "Live" THEN state[i].targets ELSE {}]
<1>1. /\ UNCHANGED <<state, dirs, fuse, rclone, told, faults, uploads>>
      /\ proc' = [proc EXCEPT ![Reconciler] = r]
      /\ IsFree(i) /\ state[i].saved /\ Reconciler \in Procs
  BY DEF Reconcile, Become, Procs
<1>2. state[i].targets \subseteq Paths /\ i # NoId
  BY ConstantsAssumption DEF Inv, TypeOK, volumeState, Paths
<1>3. r \in Process /\ r.id = i /\ r.pc \in {"targets", "gone", "remount"}
  BY <1>2 DEF Idle, Process, Locked
<1> HIDE DEF r
<1>4. WellFormed(Reconciler, r)
  BY <1>2, <1>3 DEF WellFormed, Unlocked, ReconcilePcs
<1>5. proc' \in [Procs -> Process] /\ Shape' /\ Safe'
  BY <1>1, <1>3, <1>4, OthersKeep
<1>6. QED
  BY <1>1, <1>5 DEF Inv, TypeOK

(* The removal of a mount whose mount point is gone keeps the invariant. *)
LEMMA GoneStep ==
  ASSUME Inv, NEW p \in Procs, Gone(p)
  PROVE  Inv'
<1>1. proc[p].id \in Ids /\ proc[p].pc \in Locked /\ state[proc[p].id].saved
  BY HeldType DEF Gone, At, Locked
<1>2. p = Reconciler
  BY DEF Gone, At, Inv, Shape, WellFormed
<1>3. /\ fuse' \in [Paths -> Seq(Entry)]
      /\ rclone' \in [Ids -> {"none", "starting", "running", "stuck"}]
  BY <1>1, StopScopeType DEF Gone, Inv
<1>4. proc' \in [Procs -> Process] /\ Shape' /\ Safe'
  BY <1>1, <1>2, StepKeeps DEF Gone, Locked, ReconcilePcs
<1>5. QED
  BY <1>3, <1>4, ToldType DEF Gone, Inv, TypeOK, Step

(* The loop over the targets of a mount. *)
LEMMA TargetStep ==
  ASSUME Inv, NEW p \in Procs, Rebind(p) \/ \E t \in Paths : Target(p, t)
  PROVE  Inv'
<1>1. /\ proc[p].id \in Ids /\ proc[p].id # NoId /\ state[proc[p].id].saved
      /\ proc[p] \in Process
  BY HeldType DEF Target, Rebind, At, Locked
<1>2. p = Reconciler /\ (proc[p].pc = "rebind" => proc[p].path \in Paths)
  BY DEF Target, Rebind, At, Inv, Shape, WellFormed
<1>3. UNCHANGED <<state, dirs, rclone, told, faults, uploads>>
  BY DEF Target, Rebind, Become
<1>4. PICK r \in Process :
         /\ proc' = [proc EXCEPT ![p] = r]
         /\ r.id = proc[p].id /\ r.pc \in {"targets", "rebind"}
         /\ r.pc = "rebind" => r.path \in Paths
  <2>1. CASE Rebind(p)
    <3> DEFINE r == [proc[p] EXCEPT !.pc = "targets", !.path = NoPath]
    <3>1. r \in Process /\ r.id = proc[p].id /\ r.pc = "targets"
      BY <1>1 DEF Process, Locked
    <3>2. QED
      BY <2>1, <3>1 DEF Rebind, Become
  <2>2. CASE \E t \in Paths : Target(p, t)
    <3>1. PICK t \in Paths : Target(p, t)
      BY <2>2
    <3> DEFINE a == [proc[p] EXCEPT !.pc = "rebind", !.path = t, !.left = @ \ {t}]
               b == [proc[p] EXCEPT !.left = @ \ {t}]
    <3>2. /\ a \in Process /\ a.id = proc[p].id /\ a.pc = "rebind" /\ a.path = t
          /\ b \in Process /\ b.id = proc[p].id /\ b.pc = "targets"
      BY <1>1, <3>1 DEF Process, Locked, Target, At
    <3>3. proc' = [proc EXCEPT ![p] = a] \/ proc' = [proc EXCEPT ![p] = b]
      BY <3>1 DEF Target, Become
    <3> HIDE DEF a, b
    <3>4. QED
      BY <3>2, <3>3
  <2>3. QED
    BY <2>1, <2>2
<1>5. WellFormed(p, r)
  BY <1>1, <1>2, <1>4 DEF WellFormed, Unlocked, ReconcilePcs
<1>6. proc' \in [Procs -> Process] /\ Shape' /\ Safe'
  BY <1>1, <1>2, <1>3, <1>4, <1>5, OthersKeep
<1>7. fuse' \in [Paths -> Seq(Entry)]
  BY <1>1, <1>2, DetachType, BindType DEF Target, Rebind, At, Inv, TypeOK
<1>8. QED
  BY <1>3, <1>6, <1>7 DEF Inv, TypeOK

(* The end of a pass for an id keeps the invariant. *)
LEMMA DropUsersStep ==
  ASSUME Inv, NEW p \in Procs, DropUsers(p)
  PROVE  Inv'
<1> DEFINE i  == proc[p].id
           st == [state[i] EXCEPT !.users = Users(i) \cap dirs,
                                  !.targets = state[i].targets \cap dirs]
<1>1. i \in Ids /\ proc[p].pc \in Locked /\ state[i].saved
  BY HeldType DEF DropUsers, At, Locked
<1>2. p = Reconciler
  BY DEF DropUsers, At, Inv, Shape, WellFormed
<1>3. st \in volumeState
  <2>1. Users(i) \cap dirs \subseteq Paths /\ state[i] \in volumeState
    BY <1>1 DEF Inv, TypeOK
  <2>2. state[i].targets \cap dirs \subseteq Paths
    BY DEF Inv, TypeOK
  <2>3. QED
    BY <2>1, <2>2 DEF volumeState
<1>4. \/ Step(p, "drain") /\ UNCHANGED state
      \/ Return(p, TRUE) /\ (UNCHANGED state \/ SaveState(i, st))
  BY DEF DropUsers
<1>5. /\ state' \in [Ids -> volumeState]
      /\ \A j \in Ids : j # i => state'[j] = state[j]
  BY <1>1, <1>3, <1>4, SaveType DEF Inv, TypeOK
<1>6. proc' \in [Procs -> Process] /\ Shape' /\ Safe'
  <2>1. CASE Step(p, "drain") /\ UNCHANGED state
    BY <1>1, <1>2, <2>1, StepKeeps DEF Locked, ReconcilePcs
  <2>2. CASE Return(p, TRUE)
    BY <1>5, <2>2, ReturnKeeps
  <2>3. QED
    BY <1>4, <2>1, <2>2
<1>7. told' \in [Paths -> {"none", "unsure", "up"}]
  BY <1>4, ToldType DEF Step, Inv
<1>8. QED
  BY <1>5, <1>6, <1>7 DEF DropUsers, Inv, TypeOK

-----------------------------------------------------------------------------
(* The node *)

(* The steps of rclone and the kernel leave the plugin alone. *)
LEMMA RcloneStep ==
  ASSUME Inv, NEW i \in Ids,
         \/ RcloneMounts(i) \/ RcloneExits(i) \/ RcloneHangs(i)
         \/ RcloneResumes(i) \/ AdminUnmounts(i)
         \/ \E clean \in BOOLEAN : RcloneDies(i, clean)
  PROVE  Inv'
<1>1. UNCHANGED <<state, dirs, proc, told, faults, uploads>>
  BY DEF RcloneMounts, RcloneExits, RcloneHangs, RcloneResumes, AdminUnmounts, RcloneDies
<1>2. rclone' \in [Ids -> {"none", "starting", "running", "stuck"}]
  BY DEF RcloneMounts, RcloneExits, RcloneHangs, RcloneResumes, AdminUnmounts, RcloneDies,
         Inv, TypeOK
<1>3. fuse' \in [Paths -> Seq(Entry)]
  <2>1. CASE RcloneMounts(i)
    <3>1. Own(i) \in Entry
      BY DEF Own, Entry
    <3>2. QED
      BY <2>1, <3>1, PushType DEF RcloneMounts, Inv, TypeOK
  <2>2. CASE AdminUnmounts(i)
    BY <2>2, UsersType, DetachType DEF AdminUnmounts, Inv
  <2>3. CASE \E clean \in BOOLEAN : RcloneDies(i, clean)
    BY <2>3, KilledType DEF RcloneDies, Inv
  <2>4. CASE RcloneExits(i) \/ RcloneHangs(i) \/ RcloneResumes(i)
    BY <2>4 DEF RcloneExits, RcloneHangs, RcloneResumes, Inv, TypeOK
  <2>5. QED
    BY <2>1, <2>2, <2>3, <2>4
<1>4. TypeOK'
  BY <1>1, <1>2, <1>3 DEF Inv, TypeOK
<1>5. Shape' /\ Safe'
  BY <1>1 DEF Inv, Shape, Safe, OneHolder, StateStays, LastUserUnmounts, Users, Mountpoint
<1>6. QED
  BY <1>4, <1>5 DEF Inv

(* What pods write and rclone uploads does not concern the plugin. *)
LEMMA UploadsStep ==
  ASSUME Inv, NEW i \in Ids, PodWrites(i) \/ RcloneUploads(i)
  PROVE  Inv'
<1>1. UNCHANGED <<state, dirs, fuse, rclone, proc, told, faults>> /\ uploads' \subseteq Ids
  BY DEF PodWrites, RcloneUploads, Inv, TypeOK
<1>2. TypeOK'
  BY <1>1 DEF Inv, TypeOK
<1>3. Shape' /\ Safe'
  BY <1>1 DEF Inv, Shape, Safe, OneHolder, StateStays, LastUserUnmounts, Users, Mountpoint
<1>4. QED
  BY <1>2, <1>3 DEF Inv

(* The removal of a directory by kubelet keeps the invariant. *)
LEMMA KubeletRemovesStep ==
  ASSUME Inv, NEW path \in Paths, KubeletRemoves(path)
  PROVE  Inv'
<1>1. TypeOK'
  BY DEF KubeletRemoves, Inv, TypeOK
<1>2. Shape' /\ Safe'
  BY DEF KubeletRemoves, Inv, Shape, Safe, OneHolder, StateStays, LastUserUnmounts, Users,
         Mountpoint
<1>3. QED
  BY <1>1, <1>2 DEF Inv

(* After a restart nobody holds a lock. *)
LEMMA CrashStep ==
  ASSUME Inv, Crash
  PROVE  Inv'
<1>1. \A p \in Procs : proc'[p] = Idle
  BY DEF Crash
<1>2. proc' \in [Procs -> Process] /\ Shape'
  BY <1>1, IdleWellFormed DEF Crash, Shape, WellFormed
<1>3. Safe'
  BY <1>1 DEF Safe, OneHolder, StateStays, LastUserUnmounts, Idle, Procs
<1>4. /\ fuse' \in [Paths -> Seq(Entry)]
      /\ rclone' \in [Ids -> {"none", "starting", "running", "stuck"}]
  <2>1. PICK gone \in InPod :
          /\ rclone' = [i \in Ids |-> IF i \in gone THEN "none" ELSE rclone[i]]
          /\ fuse' = [path \in Paths |->
                        [k \in 1..Len(fuse[path]) |->
                           LET e == fuse[path][k]
                           IN  IF e.id \in gone THEN Dead(e, e.id) ELSE e]]
    BY DEF Crash
  <2>2. ASSUME NEW path \in Paths
        PROVE  fuse'[path] \in Seq(Entry)
    <3>1. fuse[path] \in Seq(Entry)
      BY DEF Inv, TypeOK
    <3>2. \A k \in 1..Len(fuse[path]) : fuse[path][k] \in Entry
      BY <3>1, ElementOfSeq
    <3>3. \A k \in 1..Len(fuse[path]) : Dead(fuse[path][k], fuse[path][k].id) \in Entry
      BY <3>2, DeadType DEF Entry
    <3>4. \A k \in 1..Len(fuse[path]) :
            (IF fuse[path][k].id \in gone THEN Dead(fuse[path][k], fuse[path][k].id)
             ELSE fuse[path][k]) \in Entry
      BY <3>2, <3>3
    <3>5. QED
      BY <2>1, <3>1, <3>4
  <2>3. fuse' \in [Paths -> Seq(Entry)]
    BY <2>1, <2>2
  <2>4. rclone' \in [Ids -> {"none", "starting", "running", "stuck"}]
    BY <2>1 DEF Inv, TypeOK
  <2>5. QED
    BY <2>3, <2>4
<1>5. QED
  BY <1>2, <1>3, <1>4 DEF Crash, Inv, TypeOK

(* A deadline that passes keeps the invariant. *)
LEMMA TimeoutStep ==
  ASSUME Inv, NEW p \in Calls, Timeout(p)
  PROVE  Inv'
<1> DEFINE r == [proc[p] EXCEPT !.awaited = FALSE]
<1>1. p \in Procs /\ proc[p] \in Process /\ WellFormed(p, proc[p])
  BY DEF Procs, Inv, TypeOK, Shape
<1>2. /\ r \in Process /\ r.pc = proc[p].pc /\ r.op = proc[p].op /\ r.path = proc[p].path
      /\ r.id = proc[p].id
  BY <1>1 DEF Process
<1>3. proc' = [proc EXCEPT ![p] = r] /\ UNCHANGED <<state, dirs, fuse, rclone, told, faults, uploads>>
  BY DEF Timeout
<1> HIDE DEF r
<1>4. WellFormed(p, r)
  BY <1>1, <1>2 DEF WellFormed, Request
<1>5. /\ r.id # NoId /\ r.pc \notin {"mount", "save"} => state'[r.id].saved
      /\ r.pc \in Unmounting => UsersIn(r.id, state'[r.id]) \subseteq {r.path}
  BY <1>1, <1>2, <1>3
     DEF Inv, Safe, StateStays, LastUserUnmounts, Unmounting, Users, UsersIn, Mountpoint
<1>6. proc' \in [Procs -> Process] /\ Shape' /\ Safe'
  BY <1>1, <1>2, <1>3, <1>4, <1>5, OthersKeep
<1>7. QED
  BY <1>3, <1>6 DEF Inv, TypeOK

-----------------------------------------------------------------------------
(* The invariant *)

(* The invariant holds at first *)
LEMMA InitInv == Init => Inv
<1> SUFFICES ASSUME Init PROVE Inv
  OBVIOUS
<1>1. \A p \in Procs : proc[p] = Idle
  BY DEF Init
<1>2. proc \in [Procs -> Process] /\ Shape
  BY <1>1, IdleWellFormed DEF Init, Shape, WellFormed
<1>3. Safe
  BY <1>1 DEF Safe, OneHolder, StateStays, LastUserUnmounts, Idle, Procs
<1>4. state \in [Ids -> volumeState]
  <2>1. ASSUME NEW i \in Ids PROVE state[i] \in volumeState
    <3>1. NoState(i) \in volumeState
      BY DEF NoState, volumeState, Paths
    <3>2. ASSUME i \in DOMAIN Legacy
          PROVE  [NoState(i) EXCEPT !.saved = TRUE, !.mounted = TRUE, !.at = Legacy[i]]
                   \in volumeState
      <4>1. Legacy[i] \in Paths
        BY <3>2, ConstantsAssumption DEF Paths
      <4>2. QED
        BY <3>1, <4>1 DEF volumeState
    <3>3. QED
      BY <3>1, <3>2 DEF Init
  <2>2. QED
    BY <2>1 DEF Init
<1>5. /\ dirs \subseteq Paths /\ faults \subseteq FaultKinds /\ uploads \subseteq Ids
      /\ told \in [Paths -> {"none", "unsure", "up"}]
      /\ rclone \in [Ids -> {"none", "starting", "running", "stuck"}]
  <2>1. dirs \subseteq Paths
    <3>1. \A i \in DOMAIN Legacy : Legacy[i] \in Paths
      BY ConstantsAssumption DEF Paths
    <3>2. dirs = {Legacy[i] : i \in DOMAIN Legacy}
      BY DEF Init
    <3>3. QED
      BY <3>1, <3>2
  <2>2. faults \subseteq FaultKinds
    BY ConstantsAssumption DEF Init
  <2>3. QED
    BY <2>1, <2>2 DEF Init
<1>6. fuse \in [Paths -> Seq(Entry)]
  <2>1. ASSUME NEW path \in dirs
        PROVE  <<Own(CHOOSE i \in DOMAIN Legacy : Legacy[i] = path)>> \in Seq(Entry)
    <3>1. \E i \in DOMAIN Legacy : Legacy[i] = path
      BY <2>1 DEF Init
    <3>2. (CHOOSE i \in DOMAIN Legacy : Legacy[i] = path) \in Ids
      BY <3>1, ConstantsAssumption
    <3>3. Own(CHOOSE i \in DOMAIN Legacy : Legacy[i] = path) \in Entry
      BY <3>2 DEF Own, Entry
    <3>4. QED
      BY <3>3
  <2>2. <<>> \in Seq(Entry)
    OBVIOUS
  <2>3. QED
    BY <2>1, <2>2 DEF Init
<1>7. QED
  BY <1>2, <1>3, <1>4, <1>5, <1>6 DEF Inv, TypeOK

(* ... and every step keeps it. *)
LEMMA InvStep == Inv /\ [Next]_vars => Inv'
<1> SUFFICES ASSUME Inv, [Next]_vars PROVE Inv'
  OBVIOUS
<1>1. ASSUME NEW p \in Procs, Work(p) PROVE Inv'
  BY <1>1, FailStep, FindStep, NotFoundStep, ArgsStep, MountStep, SaveStep, StartStep, ReadyStep,
     StartFailsStep, SetMountedStep, AddUserStep, RemountStep, StopOldStep, RecordStep,
     BindCheckStep, BindStep, UnbindStep, RmdirStep, ForgetStep, ReleaseStep, StopStep,
     RmStateStep, GoneStep, TargetStep, DropUsersStep DEF Work
<1>2. ASSUME NEW p \in Calls, NEW i \in Ids, Locking(p, i) PROVE Inv'
  <2>1. p \in Procs
    BY DEF Procs
  <2>2. QED
    BY <1>2, <2>1, LockMountOfStep, FindStep, AcquireStep DEF Locking
<1>3. ASSUME NEW i \in Ids, Reconcile(i) PROVE Inv'
  BY <1>3, ReconcileStep
<1>4. ASSUME World PROVE Inv'
  BY <1>4, RcloneStep, UploadsStep, TimeoutStep, CrashStep DEF World
<1>5. ASSUME NEW p \in Calls, NEW r \in Requests, Call(p, r[1], r[2]) PROVE Inv'
  BY <1>5, CallStep
<1>6. ASSUME NEW path \in Paths, KubeletRemoves(path) PROVE Inv'
  BY <1>6, KubeletRemovesStep
<1>7. CASE UNCHANGED vars
  <2>1. TypeOK' /\ Shape'
    BY <1>7 DEF vars, Inv, TypeOK, Shape
  <2>2. Safe'
    BY <1>7 DEF vars, Inv, Safe, OneHolder, StateStays, LastUserUnmounts, Users, Mountpoint
  <2>3. QED
    BY <2>1, <2>2 DEF Inv
<1>8. QED
  BY <1>1, <1>2, <1>3, <1>4, <1>5, <1>6, <1>7 DEF Next, Plugin

(* The invariant holds throughout. *)
THEOREM Invariance == Spec => []Inv
<1>1. QED
  BY InitInv, InvStep, PTL DEF Spec

(* Every variable keeps its type, for any number of mounts, paths, calls   *)
(* and faults.                                                             *)
THEOREM TypeCorrect == Spec => []TypeOK
<1>1. Inv => TypeOK
  BY DEF Inv
<1>2. QED
  BY <1>1, Invariance, PTL

(* No two calls or passes ever work on the same mount: supervisor.Lock and *)
(* lockMountOf give an id to one of them at a time, and every step that    *)
(* touches its state file or mounts is taken with the lock held.           *)
THEOREM Exclusion == Spec => []MutualExclusion
<1>1. Inv => MutualExclusion
  BY DEF Inv, Shape, WellFormed, Safe, OneHolder, MutualExclusion
<1>2. QED
  BY <1>1, Invariance, PTL

(* A state file that a call or a pass works on is not removed under it:    *)
(* lockMountOf loads it again once it has the lock.                        *)
THEOREM StatesStay == Spec => []StateStays
<1>1. Inv => StateStays
  BY DEF Inv, Safe
<1>2. QED
  BY <1>1, Invariance, PTL

(* A call unmounts an rclone only if no other path uses it, whatever       *)
(* stages or publishes at the same time (release, acquire).                *)
THEOREM UnmountForLastUser == Spec => []LastUserUnmounts
<1>1. Inv => LastUserUnmounts
  BY DEF Inv, Safe
<1>2. QED
  BY <1>1, Invariance, PTL

=============================================================================
