---------------------------- MODULE MCKubeletNode ----------------------------
(* KubeletNode on small nodes: the volumes, and the mounts they may use. *)
EXTENDS KubeletNode, TLC

CONSTANTS i1, i2, s1, t1, e1, c1, c2

MCStagingOf == [t \in Targets |-> s1]
MCIdsOf == [path \in Stagings \cup Ephemerals |-> Ids]
NoLegacy == [i \in {} |-> i]
OneLegacy == [i \in {i1} |-> s1]

CallSymmetry == Permutations(Calls)

=============================================================================
