---------------------------- MODULE MCRcloneNode ----------------------------
(* RcloneNode on a node with one persistent and one ephemeral volume. *)
EXTENDS RcloneNode, TLC

CONSTANTS i1, s1, t1, e1, c1

MCStagingOf == t1 :> s1
MCIdsOf == [path \in {s1, e1} |-> Ids]
NoLegacy == [i \in {} |-> i]

(* No step depends on told, and the properties checked here do not read it. *)
WithoutTold == <<state, dirs, fuse, rclone, proc, faults, uploads>>

=============================================================================
