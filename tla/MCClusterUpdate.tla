--------------------------- MODULE MCClusterUpdate ---------------------------
(* Instances of ClusterUpdate for TLC: all specifications with up to two   *)
(* racks in either order, of up to MaxReplicas pods.                       *)
EXTENDS ClusterUpdate

CONSTANT MaxReplicas

RackLists(places) ==
    LET R == [name : RackNames, replicas : 1..MaxReplicas, place : places]
    IN  {<<r>> : r \in R} \cup {<<p[1], p[2]>> : p \in {q \in R \X R : q[1].name # q[2].name}}

SpecsWith(fixed, places) ==
    [fixed : fixed, pod : {"small", "large"}, boot : {"v1", "v2"}, racks : RackLists(places)]

(* Changes of everything that may change, and some that may not. *)
SomeSpecs ==
    SpecsWith({"dc1"}, {"zone1"})
      \cup {s \in SpecsWith({"dc1", "dc2"}, {"zone1", "zone2"}) :
               s.boot = "v1" /\ Len(s.racks) = 1}
=============================================================================
