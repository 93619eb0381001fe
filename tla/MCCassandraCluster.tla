------------------------- MODULE MCCassandraCluster -------------------------
(* Instances of CassandraCluster for TLC: the specifications users write.  *)
EXTENDS CassandraCluster, TLC

Rack(name, replicas) == [name |-> name, replicas |-> replicas, place |-> "zone"]
Spec1(fixed, pod, boot, racks) ==
    [fixed |-> fixed, pod |-> pod, boot |-> boot, racks |-> racks]

(* One rack, a second rack added, more replicas, other pod resources.      *)
OneRack == Spec1("dc1", "small", "v1", <<Rack("a", 1)>>)
TwoRacks == Spec1("dc1", "small", "v1", <<Rack("a", 1), Rack("b", 1)>>)
Large == Spec1("dc1", "large", "v1", <<Rack("a", 1), Rack("b", 1)>>)
ScaledLarge == Spec1("dc1", "large", "v1", <<Rack("a", 2), Rack("b", 1)>>)
NoRacks == Spec1("dc1", "small", "v1", <<>>)

SupportedSpecs == {OneRack, TwoRacks, Large, ScaledLarge}
CoreSpecs == {OneRack, TwoRacks, Large, NoRacks}
UpdateSpecs == {TwoRacks, Large}
=============================================================================
