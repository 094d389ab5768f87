---------------------------- MODULE SharedMounts ----------------------------
(***************************************************************************)
(* What sharing a mount promises, without locks, state files or processes: *)
(* a mount comes up, volumes join and leave it, and it is taken down once  *)
(* nobody is left to use it.  From the moment that is decided until it is  *)
(* down, or the attempt has failed, nobody joins.  RcloneNode implements   *)
(* this.                                                                   *)
(***************************************************************************)
CONSTANTS Mounts, Paths

VARIABLES
    users,     \* the paths that use a mount
    phase,     \* "down", "up" or "closing"
    joining,   \* the paths a call wants to use a mount for
    leaving,   \* the paths a call wants to leave a mount
    present,   \* the paths that exist
    lost       \* the mounts whose mount point has disappeared

promised == <<users, phase>>

TypeOK ==
    /\ users \in [Mounts -> SUBSET Paths]
    /\ phase \in [Mounts -> {"down", "up", "closing"}]

Init ==
    /\ users \in [Mounts -> SUBSET Paths]
    /\ phase \in [Mounts -> {"down", "up"}]
    /\ \A i \in Mounts : phase[i] = "down" => users[i] = {}

-----------------------------------------------------------------------------

Goes(i, from, to) == phase[i] = from /\ phase' = [phase EXCEPT ![i] = to]

Open(i) == Goes(i, "down", "up") /\ UNCHANGED users

(* A mount that did not come up had no users yet. *)
GiveUp(i) == users[i] = {} /\ Goes(i, "up", "down") /\ UNCHANGED users

Join(i) ==
    /\ phase[i] = "up"
    /\ \E u \in joining : users' = [users EXCEPT ![i] = @ \cup {u}]
    /\ UNCHANGED phase

Leave(i) ==
    /\ phase[i] = "up"
    /\ \E u \in leaving : users' = [users EXCEPT ![i] = @ \ {u}]
    /\ UNCHANGED phase

(* Users that no longer exist are forgotten. *)
Drop(i) ==
    /\ phase[i] = "up"
    /\ users' = [users EXCEPT ![i] = @ \cap present]
    /\ UNCHANGED phase

(* Every user of the mount is gone or leaves, or the mount itself is lost. *)
Close(i) ==
    /\ users[i] \cap present \subseteq leaving \/ i \in lost
    /\ Goes(i, "up", "closing")
    /\ UNCHANGED users

Closed(i) == Goes(i, "closing", "down") /\ users' = [users EXCEPT ![i] = {}]

(* An attempt to take a mount down fails; a restart ends all of them. *)
Reopen(failed) ==
    /\ \A i \in failed : phase[i] = "closing"
    /\ phase' = [i \in Mounts |-> IF i \in failed THEN "up" ELSE phase[i]]
    /\ UNCHANGED users

-----------------------------------------------------------------------------

Next ==
    \/ \E i \in Mounts : \/ Open(i) \/ GiveUp(i) \/ Close(i) \/ Closed(i)
                         \/ Join(i) \/ Leave(i) \/ Drop(i)
    \/ \E failed \in SUBSET Mounts : Reopen(failed)

(* joining, leaving, present and lost change as they like. *)
Spec == Init /\ [][Next]_promised

=============================================================================
