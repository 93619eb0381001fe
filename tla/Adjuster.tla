------------------------------ MODULE Adjuster ------------------------------
(***************************************************************************)
(* pkg/operator/operations/adjuster/adjuster.go: the changes that lead     *)
(* from one Cassandra specification to another.                            *)
(*                                                                         *)
(* A specification is a record                                             *)
(*   fixed : the properties that must not change (dc, pod.image,           *)
(*           useEmptyDir)                                                  *)
(*   pod   : cpu, memory and the two probes                                *)
(*   boot  : pod.bootstrapperImage as written by the user; NoImage if      *)
(*           left out                                                      *)
(*   racks : a sequence of [name, replicas, place], where place is the     *)
(*           storage class and the zone                                    *)
(***************************************************************************)
EXTENDS Naturals, Sequences, FiniteSets

CONSTANT NoImage     \* the empty string as an image name

RacksOf(s) == {s.racks[i] : i \in DOMAIN s.racks}
IsSpec(s) ==
    /\ s \in [fixed : {s.fixed}, pod : {s.pod}, boot : {s.boot}, racks : Seq(RacksOf(s))]
    /\ \A rack \in RacksOf(s) : rack.replicas \in Nat

UniqueNames(racks) ==
    \A i, j \in DOMAIN racks : racks[i].name = racks[j].name => i = j

ChangeTypes == {"add rack", "delete rack", "scale down rack", "update rack"}

Rank == [t \in ChangeTypes |->
            CASE t = "add rack" -> 1 [] t = "delete rack" -> 2
              [] t = "scale down rack" -> 3 [] t = "update rack" -> 4]

RacksNamed(name, racks) == {i \in DOMAIN racks : racks[i].name = name}

(* findRack: the first rack with that name *)
FoundIn(name, racks) == RacksNamed(name, racks) # {}
FindRack(name, racks) ==
    racks[CHOOSE i \in RacksNamed(name, racks) :
              \A j \in RacksNamed(name, racks) : i <= j]

(* What a loop that looks at each member of s in turn collects: those at   *)
(* the given places.  The k-th place has k - 1 places before it.           *)
Place(places, k) == CHOOSE i \in places : Cardinality({j \in places : j <= i}) = k
Selected(s, places) == [k \in 1..Cardinality(places) |-> s[Place(places, k)]]

(* matchRacks: the racks of one specification found, or not, in another *)
RacksAlsoIn(racks, others) ==
    Selected(racks, {i \in DOMAIN racks : FoundIn(racks[i].name, others)})
RacksNotIn(racks, others) ==
    Selected(racks, {i \in DOMAIN racks : ~FoundIn(racks[i].name, others)})

Matched(old, new) ==
    LET kept == RacksAlsoIn(old.racks, new.racks)
    IN  [i \in DOMAIN kept |->
            [old |-> kept[i], new |-> FindRack(kept[i].name, new.racks)]]

(* ensureChangeIsAllowed, negated *)
ChangeForbidden(old, new) ==
    \/ old.fixed # new.fixed
    \/ \E i \in DOMAIN Matched(old, new) :
           Matched(old, new)[i].old.place # Matched(old, new)[i].new.place

(* Mutant: the bootstrapper image is not compared. *)
PodSpecHasChangedButImage(old, new) == old.pod # new.pod

PodSpecHasChanged(old, new) == old.pod # new.pod \/ old.boot # new.boot

(* patchForRack *)
PatchFor(rack, new) == [replicas |-> rack.replicas, pod |-> new.pod, boot |-> new.boot]

Change(type, rack, new) ==
    [type |-> type, rack |-> rack, patch |-> PatchFor(rack, new)]

(* scaledUpRacks, scaledDownRacks *)
ScaledUp(pairs) ==
    Selected(pairs, {i \in DOMAIN pairs : pairs[i].new.replicas > pairs[i].old.replicas})
ScaledDown(pairs) ==
    Selected(pairs, {i \in DOMAIN pairs : pairs[i].new.replicas < pairs[i].old.replicas})

(* The changes of one type, and the new racks of matched pairs. *)
Each(type, racks, new) == [i \in DOMAIN racks |-> Change(type, racks[i], new)]
NewOf(pairs) == [i \in DOMAIN pairs |-> pairs[i].new]

Updated(old, new) ==
    LET pairs == Matched(old, new)
    IN  NewOf(IF PodSpecHasChanged(old, new) THEN pairs ELSE ScaledUp(pairs))

(* Mutant: only the racks that both specifications have are looked at. *)
ChangesWithoutAdds(old, new) == Each("update rack", Updated(old, new), new)

(* Mutants: updates first; racks that grow updated once more. *)
ChangesUpdatesFirst(old, new) ==
    Each("update rack", Updated(old, new), new)
      \o Each("add rack", RacksNotIn(new.racks, old.racks), new)
ChangesTwice(old, new) ==
    Each("add rack", RacksNotIn(new.racks, old.racks), new)
      \o Each("update rack", NewOf(ScaledUp(Matched(old, new))), new)
      \o Each("update rack", Updated(old, new), new)

(* ChangesForCluster, for a change that is allowed *)
ChangesForCluster(old, new) ==
    Each("add rack", RacksNotIn(new.racks, old.racks), new)
      \o Each("delete rack", RacksNotIn(old.racks, new.racks), new)
      \o Each("scale down rack", NewOf(ScaledDown(Matched(old, new))), new)
      \o Each("update rack", Updated(old, new), new)
=============================================================================
