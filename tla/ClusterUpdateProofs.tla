------------------------- MODULE ClusterUpdateProofs -------------------------
(***************************************************************************)
(* Theorems about ClusterUpdate, for any specifications whose racks have   *)
(* different names and for any series of edits.                            *)
(***************************************************************************)
EXTENDS ClusterUpdate, AdjusterProofs

Racks == UNION {RacksOf(s) : s \in Specs}
Patches == {PatchFor(rack, s) : rack \in Racks, s \in Specs}
Changes == [type : ChangeTypes, rack : Racks, patch : Patches]

Types ==
    /\ current \in Specs
    /\ running \in [RackNames -> Patches \cup {None}]
    /\ todo \in Seq(Changes)
    /\ supported \in BOOLEAN

(* A change that is still to be applied concerns a rack of the             *)
(* specification, adds it if it does not run and updates it if it does.    *)
Applicable(change, spec, deployed) ==
    /\ change.type \in {"add rack", "update rack"}
    /\ change.rack \in RacksOf(spec)
    /\ change.patch = PatchFor(change.rack, spec)
    /\ change.type = "add rack" <=> deployed[change.rack.name] = None

(* After supported edits a rack runs what was written last, or a change    *)
(* that is still to be applied concerns it.                                *)
Pending(r, changes) == \E i \in DOMAIN changes : changes[i].rack.name = r
Progress ==
    supported =>
        /\ \A i \in DOMAIN todo : Applicable(todo[i], current, running)
        /\ \A r \in RackNames : running[r] = Deployment(current)[r] \/ Pending(r, todo)

Inv == Types /\ InOrder(todo) /\ RacksOnce(todo) /\ Progress

-----------------------------------------------------------------------------
LEMMA SpecsNamed ==
    ASSUME NEW s \in Specs
    PROVE  Named(s) /\ \A i \in DOMAIN s.racks : s.racks[i].name \in RackNames
BY ClusterUpdateAssumption DEF Named

(* What a rack runs after a deployment. *)
LEMMA DeployedRack ==
    ASSUME NEW s \in Specs, NEW rack \in RacksOf(s)
    PROVE  /\ rack.name \in RackNames
           /\ FoundIn(rack.name, s.racks)
           /\ FindRack(rack.name, s.racks) = rack
           /\ Deployment(s)[rack.name] = PatchFor(rack, s)
           /\ Deployment(s)[rack.name] # None
           /\ StatefulSetFor(rack, s) = PatchFor(rack, s)
<1>1. s.racks \in Seq(RacksOf(s)) /\ UniqueNames(s.racks)
  BY SpecsNamed, SpecRacks DEF Named
<1>2. PICK i \in DOMAIN s.racks : rack = s.racks[i]
  BY DEF RacksOf
<1>3. rack.name \in RackNames
  BY <1>2, SpecsNamed
<1>4. FoundIn(rack.name, s.racks) /\ FindRack(rack.name, s.racks) = rack
  BY <1>1, <1>2, FindRackUnique
<1>5. StatefulSetFor(rack, s) = PatchFor(rack, s)
  BY DEF StatefulSetFor, PatchFor
<1>6. Deployment(s)[rack.name] = PatchFor(rack, s)
  BY <1>3, <1>4, <1>5 DEF Deployment
<1>7. PatchFor(rack, s) # None
  BY ClusterUpdateAssumption
<1> QED
  BY <1>3, <1>4, <1>5, <1>6, <1>7

LEMMA NotDeployed ==
    ASSUME NEW s \in Specs, NEW r \in RackNames, ~FoundIn(r, s.racks)
    PROVE  Deployment(s)[r] = None
BY DEF Deployment

LEMMA FoundIsRack ==
    ASSUME NEW s \in Specs, NEW r, FoundIn(r, s.racks)
    PROVE  \E i \in DOMAIN s.racks : s.racks[i].name = r /\ s.racks[i] \in RacksOf(s)
BY FoundRack DEF RacksOf

LEMMA DeploymentType ==
    ASSUME NEW s \in Specs
    PROVE  Deployment(s) \in [RackNames -> Patches \cup {None}]
<1>1. ASSUME NEW r \in RackNames PROVE Deployment(s)[r] \in Patches \cup {None}
  <2>1. CASE FoundIn(r, s.racks)
    <3>1. PICK i \in DOMAIN s.racks : s.racks[i].name = r /\ s.racks[i] \in RacksOf(s)
      BY <2>1, FoundIsRack
    <3>2. Deployment(s)[r] = PatchFor(s.racks[i], s)
      BY <3>1, DeployedRack
    <3>3. s.racks[i] \in Racks
      BY <3>1 DEF Racks
    <3> QED
      BY <3>2, <3>3 DEF Patches
  <2>2. CASE ~FoundIn(r, s.racks)
    BY <2>2, NotDeployed
  <2> QED
    BY <2>1, <2>2
<1>2. Deployment(s) = [r \in RackNames |-> Deployment(s)[r]]
  BY DEF Deployment
<1> QED
  BY <1>1, <1>2

(* Applying or skipping the first change leaves the others in order. *)
LEMMA TailInOrder ==
    ASSUME NEW S, NEW s \in Seq(S), s # <<>>, InOrder(s)
    PROVE  InOrder(Tail(s))
<1>1. \A i \in DOMAIN Tail(s) : i \in Int /\ i + 1 \in DOMAIN s /\ Tail(s)[i] = s[i + 1]
  OBVIOUS
<1> QED
  BY <1>1 DEF InOrder

LEMMA TailOnce ==
    ASSUME NEW S, NEW s \in Seq(S), s # <<>>, RacksOnce(s)
    PROVE  /\ RacksOnce(Tail(s))
           /\ \A i \in DOMAIN Tail(s) :
                  {Tail(s)[i].type, Head(s).type} \subseteq {"add rack", "update rack"}
                  => Tail(s)[i].rack.name # Head(s).rack.name
<1>1. \A i \in DOMAIN Tail(s) : i \in Int /\ i + 1 \in DOMAIN s /\ Tail(s)[i] = s[i + 1] /\ i + 1 # 1
  OBVIOUS
<1>2. Head(s) = s[1] /\ 1 \in DOMAIN s
  OBVIOUS
<1>3. \A i, j \in DOMAIN Tail(s) : i + 1 = j + 1 => i = j
  BY <1>1
<1>4. RacksOnce(Tail(s))
  <2> SUFFICES ASSUME NEW i \in DOMAIN Tail(s), NEW j \in DOMAIN Tail(s),
                      {Tail(s)[i].type, Tail(s)[j].type} \subseteq {"add rack", "update rack"},
                      Tail(s)[i].rack.name = Tail(s)[j].rack.name
               PROVE  i = j
    BY DEF RacksOnce
  <2>1. i \in Int /\ j \in Int /\ i + 1 \in DOMAIN s /\ j + 1 \in DOMAIN s
    BY <1>1
  <2>2. Tail(s)[i] = s[i + 1] /\ Tail(s)[j] = s[j + 1]
    BY <1>1
  <2>3. i + 1 = j + 1
    BY <2>1, <2>2, Zenon DEF RacksOnce
  <2> QED
    BY <1>3, <2>3, Zenon
<1>5. ASSUME NEW i \in DOMAIN Tail(s),
             {Tail(s)[i].type, Head(s).type} \subseteq {"add rack", "update rack"},
             Tail(s)[i].rack.name = Head(s).rack.name
      PROVE  FALSE
  BY <1>1, <1>2, <1>5 DEF RacksOnce
<1> QED
  BY <1>4, <1>5

-----------------------------------------------------------------------------
LEMMA InitInv == Init => Inv
<1> SUFFICES ASSUME Init PROVE Inv
  OBVIOUS
<1> USE DEF Init
<1>1. Types
  BY DeploymentType DEF Types
<1>2. InOrder(todo) /\ RacksOnce(todo)
  BY DEF InOrder, RacksOnce
<1>3. Progress
  BY DEF Progress
<1> QED
  BY <1>1, <1>2, <1>3 DEF Inv

(* The type of the changes between two specifications. *)
LEMMA ChangesType ==
    ASSUME NEW old \in Specs, NEW new \in Specs
    PROVE  ChangesForCluster(old, new) \in Seq(Changes)
<1> DEFINE changes == ChangesForCluster(old, new)
           all == AllRacks(old, new)
<1>1. changes \in Seq(ChangeSet(all, new))
  BY SpecsNamed, ChangesInTurn DEF Collected, Named
<1>2. all \subseteq Racks
  BY DEF AllRacks, Racks
<1>3. ChangeSet(all, new) \subseteq Changes
  <2> SUFFICES ASSUME NEW type \in ChangeTypes, NEW rack \in all
               PROVE  Change(type, rack, new) \in Changes
    BY DEF ChangeSet
  <2>1. rack \in Racks /\ PatchFor(rack, new) \in Patches
    BY <1>2 DEF Patches
  <2> QED
    BY <2>1 DEF Change, Changes
<1> QED
  BY <1>1, <1>3, SeqWider

(* Nothing of a supported edit is a deletion or a reduction. *)
LEMMA SupportedChanges ==
    ASSUME NEW old \in Specs, NEW new \in Specs, Supported(old, new)
    PROVE  /\ Len(Dels(old, new)) = 0
           /\ Len(Downs(old, new)) = 0
           /\ \A i \in DOMAIN old.racks : FoundIn(old.racks[i].name, new.racks)
           /\ \A i \in DOMAIN old.racks, j \in DOMAIN new.racks :
                  old.racks[i].name = new.racks[j].name
                  => ~(new.racks[j].replicas < old.racks[i].replicas)
<1>1. Dels(old, new) = <<>>
  BY DEF Supported, Dels
<1>2. Downs(old, new) = <<>>
  BY DEF Supported, Downs, NewOf
<1>3. old.racks \in Seq(RacksOf(old)) /\ UniqueNames(old.racks) /\ Named(old) /\ Named(new)
  BY SpecsNamed, SpecRacks DEF Named
<1>4. AllLeft(Dels(old, new), old.racks, new.racks)
  BY <1>3, NotInFacts DEF Dels
<1>5. \A i \in DOMAIN old.racks : FoundIn(old.racks[i].name, new.racks)
  BY <1>1, <1>4 DEF AllLeft
<1>6. AllSmaller(Downs(old, new), old, new)
  BY <1>3, ScaledDownFacts DEF Downs
<1> QED
  BY <1>1, <1>2, <1>5, <1>6 DEF AllSmaller

(* The changes of a supported edit can be applied to what the previous     *)
(* specification deployed, and concern every rack that must change.        *)
LEMMA SupportedEdit ==
    ASSUME NEW old \in Specs, NEW new \in Specs, Supported(old, new)
    PROVE  LET changes == ChangesForCluster(old, new)
           IN  /\ \A i \in DOMAIN changes :
                      /\ changes[i].type \in {"add rack", "update rack"}
                      /\ changes[i].rack \in RacksOf(new)
                      /\ changes[i].patch = PatchFor(changes[i].rack, new)
                      /\ changes[i].type = "add rack"
                         <=> Deployment(old)[changes[i].rack.name] = None
               /\ \A r \in RackNames :
                      \/ Deployment(old)[r] = Deployment(new)[r]
                      \/ \E i \in DOMAIN changes : changes[i].rack.name = r
<1> DEFINE changes == ChangesForCluster(old, new)
<1>1. Named(old) /\ Named(new)
  BY SpecsNamed
<1>2. /\ Len(Dels(old, new)) = 0
      /\ Len(Downs(old, new)) = 0
      /\ \A i \in DOMAIN old.racks : FoundIn(old.racks[i].name, new.racks)
      /\ \A i \in DOMAIN old.racks, j \in DOMAIN new.racks :
             old.racks[i].name = new.racks[j].name
             => ~(new.racks[j].replicas < old.racks[i].replicas)
  BY SupportedChanges
<1>3. /\ new.racks \in Seq(RacksOf(new)) /\ UniqueNames(new.racks)
      /\ \A rack \in RacksOf(new) : rack.replicas \in Nat
      /\ \A rack \in RacksOf(old) : rack.replicas \in Nat
  BY <1>1, SpecRacks DEF Named
<1>4. ASSUME NEW i \in DOMAIN ChangesForCluster(old, new)
      PROVE  /\ changes[i].type \in {"add rack", "update rack"}
             /\ changes[i].rack \in RacksOf(new)
             /\ changes[i].patch = PatchFor(changes[i].rack, new)
             /\ changes[i].type = "add rack"
                <=> Deployment(old)[changes[i].rack.name] = None
  <2> DEFINE change == changes[i]
             n == change.rack.name
  <2>1. Understood(change, i, old, new)
    BY <1>1, ChangedRack
  <2> HIDE DEF change, changes
  <2>2. change.type = "add rack" \/ change.type = "update rack"
    <3>1. /\ change.type \in ChangeTypes
          /\ change.type = "delete rack" => Len(Dels(old, new)) > 0
          /\ change.type = "scale down rack" => Len(Downs(old, new)) > 0
      BY <2>1 DEF Understood
    <3>2. ~(Len(Dels(old, new)) > 0) /\ ~(Len(Downs(old, new)) > 0)
      BY <1>2
    <3> QED
      BY <3>1, <3>2, Zenon DEF ChangeTypes
  <2>3. change.patch = PatchFor(change.rack, new)
    BY <2>1 DEF Understood
  <2>4. CASE change.type = "add rack"
    <3>1. i \in DOMAIN Adds(old, new) /\ change.rack = Adds(old, new)[i]
      BY <2>1, <2>4 DEF Understood
    <3>2. /\ Adds(old, new) \in Seq(RacksOf(new))
          /\ \A k \in DOMAIN Adds(old, new) : ~FoundIn(Adds(old, new)[k].name, old.racks)
      BY <1>3, NotInFacts DEF Adds
    <3>3. change.rack \in RacksOf(new) /\ ~FoundIn(n, old.racks)
      BY <3>1, <3>2, SeqMembers
    <3>4. n \in RackNames
      BY <3>3, DeployedRack
    <3>5. Deployment(old)[n] = None
      BY <3>3, <3>4, NotDeployed
    <3> QED
      BY <2>3, <2>4, <3>3, <3>5 DEF change
  <2>5. CASE change.type = "update rack"
    <3> DEFINE k == i - (Len(Adds(old, new)) + Len(Dels(old, new)) + Len(Downs(old, new)))
    <3>1. k \in DOMAIN Updated(old, new) /\ change.rack = Updated(old, new)[k]
      BY <2>1, <2>5 DEF Understood
    <3> HIDE DEF k
    <3>2. /\ Updated(old, new) \in Seq(RacksOf(new))
          /\ \A m \in DOMAIN Updated(old, new) : FoundIn(Updated(old, new)[m].name, old.racks)
      BY <1>1, UpdatedFacts
    <3>3. change.rack \in RacksOf(new) /\ FoundIn(n, old.racks)
      BY <3>1, <3>2, SeqMembers
    <3>4. PICK m \in DOMAIN old.racks : old.racks[m].name = n /\ old.racks[m] \in RacksOf(old)
      BY <3>3, FoundIsRack
    <3>5. Deployment(old)[n] # None
      BY <3>4, DeployedRack
    <3> QED
      BY <2>3, <2>5, <3>3, <3>5 DEF change
  <2> QED
    BY <2>2, <2>4, <2>5
<1>5. ASSUME NEW r \in RackNames
      PROVE  \/ Deployment(old)[r] = Deployment(new)[r]
             \/ \E i \in DOMAIN changes : changes[i].rack.name = r
  <2>1. NoneForgotten(changes, old, new)
    BY <1>1, ChangesComplete
  <2> HIDE DEF changes
  <2>2. CASE ~FoundIn(r, new.racks)
    <3>1. ~FoundIn(r, old.racks)
      BY <1>2, <2>2, FoundRack
    <3> QED
      BY <2>2, <3>1, NotDeployed
  <2>3. CASE FoundIn(r, new.racks) /\ ~FoundIn(r, old.racks)
    <3>1. PICK j \in DOMAIN new.racks : new.racks[j].name = r
      BY <2>3, FoundRack
    <3>2. Reached(changes, "add rack", new.racks[j])
      BY <2>1, <2>3, <3>1 DEF NoneForgotten
    <3> QED
      BY <3>1, <3>2 DEF Reached
  <2>4. CASE FoundIn(r, new.racks) /\ FoundIn(r, old.racks)
    <3>1. PICK j \in DOMAIN new.racks : new.racks[j].name = r /\ new.racks[j] \in RacksOf(new)
      BY <2>4, FoundIsRack
    <3>2. PICK i \in DOMAIN old.racks : old.racks[i].name = r /\ old.racks[i] \in RacksOf(old)
      BY <2>4, FoundIsRack
    <3>3. CASE PodSpecHasChanged(old, new) \/ new.racks[j].replicas > old.racks[i].replicas
      <4>1. Reached(changes, "update rack", new.racks[j])
        BY <2>1, <3>1, <3>2, <3>3 DEF NoneForgotten
      <4> QED
        BY <3>1, <4>1 DEF Reached
    <3>4. CASE ~PodSpecHasChanged(old, new) /\ ~(new.racks[j].replicas > old.racks[i].replicas)
      <4>1. old.racks[i].replicas \in Nat /\ new.racks[j].replicas \in Nat
        BY <1>3, <3>1, <3>2
      <4>2. ~(new.racks[j].replicas < old.racks[i].replicas)
        BY <1>2, <3>1, <3>2
      <4>3. new.racks[j].replicas = old.racks[i].replicas
        BY <3>4, <4>1, <4>2
      <4>4. old.pod = new.pod /\ old.boot = new.boot
        BY <3>4 DEF PodSpecHasChanged
      <4>5. /\ Deployment(old)[r] = PatchFor(old.racks[i], old)
            /\ Deployment(new)[r] = PatchFor(new.racks[j], new)
        BY <3>1, <3>2, DeployedRack
      <4> QED
        BY <4>3, <4>4, <4>5 DEF PatchFor
    <3> QED
      BY <3>3, <3>4
  <2> QED
    BY <2>2, <2>3, <2>4
<1> QED
  BY <1>4, <1>5

-----------------------------------------------------------------------------
LEMMA UpdateStep ==
    ASSUME Inv, NEW new \in Specs, Update(new)
    PROVE  Inv'
<1> DEFINE changes == ChangesForCluster(current, new)
<1>0. /\ current \in Specs /\ running \in [RackNames -> Patches \cup {None}]
      /\ supported \in BOOLEAN /\ Progress
  BY DEF Inv, Types
<1>1. /\ todo = <<>> /\ current' = new /\ running' = running
      /\ supported' = (supported /\ Supported(current, new))
      /\ todo' = IF ChangeForbidden(current, new) THEN <<>> ELSE changes
  BY DEF Update
<1>2. changes \in Seq(Changes) /\ InOrder(changes) /\ RacksOnce(changes)
  BY <1>0, ChangesType, ChangesInOrder, ChangesOnce, SpecsNamed
<1>3. Types'
  BY <1>0, <1>1, <1>2 DEF Types
<1>4. InOrder(<<>>) /\ RacksOnce(<<>>)
  BY DEF InOrder, RacksOnce
<1>5. InOrder(todo') /\ RacksOnce(todo')
  BY <1>1, <1>2, <1>4
<1>6. Progress'
  <2> SUFFICES ASSUME supported'
               PROVE  /\ \A i \in DOMAIN todo' : Applicable(todo'[i], current', running')
                      /\ \A r \in RackNames :
                             running'[r] = Deployment(current')[r] \/ Pending(r, todo')
    BY DEF Progress
  <2>1. supported /\ Supported(current, new)
    BY <1>1
  <2>2. todo' = changes
    BY <1>1, <2>1 DEF Supported
  <2>3. \A r \in RackNames : running[r] = Deployment(current)[r]
    BY <1>0, <1>1, <2>1 DEF Progress, Pending
  <2>4. \A i \in DOMAIN changes :
            /\ changes[i].type \in {"add rack", "update rack"}
            /\ changes[i].rack \in RacksOf(new)
            /\ changes[i].patch = PatchFor(changes[i].rack, new)
            /\ changes[i].type = "add rack"
               <=> Deployment(current)[changes[i].rack.name] = None
    BY <1>0, <2>1, SupportedEdit
  <2>5. \A r \in RackNames :
            \/ Deployment(current)[r] = Deployment(new)[r]
            \/ \E i \in DOMAIN changes : changes[i].rack.name = r
    BY <1>0, <2>1, SupportedEdit
  <2> HIDE DEF changes
  <2>6. ASSUME NEW i \in DOMAIN changes PROVE Applicable(changes[i], new, running)
    <3>1. changes[i].rack.name \in RackNames
      BY <2>4, DeployedRack
    <3>2. running[changes[i].rack.name] = Deployment(current)[changes[i].rack.name]
      BY <1>1, <2>3, <3>1
    <3> QED
      BY <2>4, <3>2 DEF Applicable
  <2>7. \A r \in RackNames : running[r] = Deployment(new)[r] \/ Pending(r, changes)
    BY <2>3, <2>5 DEF Pending
  <2> QED
    BY <1>1, <2>2, <2>6, <2>7
<1> QED
  BY <1>3, <1>5, <1>6 DEF Inv

LEMMA HeadTail ==
    ASSUME Types, todo # <<>>
    PROVE  /\ Head(todo) \in Changes /\ Tail(todo) \in Seq(Changes)
           /\ Head(todo) = todo[1] /\ 1 \in DOMAIN todo
           /\ \A i \in DOMAIN Tail(todo) : i + 1 \in DOMAIN todo /\ Tail(todo)[i] = todo[i + 1]
           /\ \A i \in DOMAIN todo : i = 1 \/ \E j \in DOMAIN Tail(todo) : Tail(todo)[j] = todo[i]
<1> DEFINE C == Changes
<1>1. todo \in Seq(C)
  BY DEF Types
<1> HIDE DEF C
<1>2. /\ Head(todo) \in C /\ Tail(todo) \in Seq(C)
      /\ Head(todo) = todo[1] /\ 1 \in DOMAIN todo
      /\ \A i \in DOMAIN Tail(todo) : i + 1 \in DOMAIN todo /\ Tail(todo)[i] = todo[i + 1]
  BY <1>1
<1>3. ASSUME NEW i \in DOMAIN todo, i # 1
      PROVE  \E j \in DOMAIN Tail(todo) : Tail(todo)[j] = todo[i]
  <2>1. i - 1 \in DOMAIN Tail(todo) /\ Tail(todo)[i - 1] = todo[i]
    BY <1>1, <1>3
  <2> QED
    BY <2>1
<1> QED
  BY <1>2, <1>3 DEF C

(* The first change is applied. *)
LEMMA Applied ==
    ASSUME Inv, todo # <<>>, NEW p \in Patches,
           Head(todo).type \in {"add rack", "update rack"},
           supported => p = PatchFor(Head(todo).rack, current),
           running' = [running EXCEPT ![Head(todo).rack.name] = p],
           todo' = Tail(todo), current' = current, supported' = supported
    PROVE  Inv'
<1> DEFINE n == Head(todo).rack.name
<1>0. Types /\ InOrder(todo) /\ RacksOnce(todo) /\ Progress
  BY DEF Inv
<1>1. /\ Head(todo) \in Changes /\ Tail(todo) \in Seq(Changes)
      /\ Head(todo) = todo[1] /\ 1 \in DOMAIN todo
      /\ \A i \in DOMAIN Tail(todo) : i + 1 \in DOMAIN todo /\ Tail(todo)[i] = todo[i + 1]
      /\ \A i \in DOMAIN todo : i = 1 \/ \E j \in DOMAIN Tail(todo) : Tail(todo)[j] = todo[i]
  BY <1>0, HeadTail
<1>2. running' \in [RackNames -> Patches \cup {None}]
  <2>1. running \in [RackNames -> Patches \cup {None}]
    BY <1>0 DEF Types
  <2> QED
    BY <2>1
<1>3. Types'
  BY <1>0, <1>1, <1>2 DEF Types
<1>4. /\ InOrder(Tail(todo)) /\ RacksOnce(Tail(todo))
      /\ \A i \in DOMAIN Tail(todo) :
             {Tail(todo)[i].type, Head(todo).type} \subseteq {"add rack", "update rack"}
             => Tail(todo)[i].rack.name # n
  <2>1. todo \in Seq(Changes)
    BY <1>0 DEF Types
  <2> QED
    BY <1>0, <2>1, TailInOrder, TailOnce
<1>5. Progress'
  <2> SUFFICES ASSUME supported
               PROVE  /\ \A i \in DOMAIN Tail(todo) :
                             Applicable(Tail(todo)[i], current, running')
                      /\ \A r \in RackNames :
                             running'[r] = Deployment(current)[r] \/ Pending(r, Tail(todo))
    BY DEF Progress
  <2>1. /\ \A i \in DOMAIN todo : Applicable(todo[i], current, running)
        /\ \A r \in RackNames : running[r] = Deployment(current)[r] \/ Pending(r, todo)
    BY <1>0 DEF Progress
  <2>2. current \in Specs /\ running \in [RackNames -> Patches \cup {None}]
    BY <1>0 DEF Types
  <2>3. Applicable(Head(todo), current, running)
    BY <1>1, <2>1
  <2>4. Head(todo).rack \in RacksOf(current)
    BY <2>3 DEF Applicable
  <2>5. n \in RackNames /\ Deployment(current)[n] = PatchFor(Head(todo).rack, current)
    BY <2>2, <2>4, DeployedRack
  <2>6. running'[n] = Deployment(current)[n]
    BY <2>2, <2>5
  <2>7. \A r \in RackNames : r # n => running'[r] = running[r]
    BY <2>2
  <2>8. ASSUME NEW i \in DOMAIN Tail(todo)
        PROVE  Applicable(Tail(todo)[i], current, running')
    <3> DEFINE change == Tail(todo)[i]
    <3>1. Applicable(change, current, running)
      BY <1>1, <2>1
    <3>2. change.rack.name # n
      BY <1>4, <3>1 DEF Applicable
    <3>3. change.rack.name \in RackNames
      BY <3>1, <2>2, DeployedRack DEF Applicable
    <3>4. running'[change.rack.name] = running[change.rack.name]
      BY <2>7, <3>2, <3>3
    <3> QED
      BY <3>1, <3>4 DEF Applicable
  <2>9. ASSUME NEW r \in RackNames
        PROVE  running'[r] = Deployment(current)[r] \/ Pending(r, Tail(todo))
    <3>1. CASE r = n
      BY <3>1, <2>6
    <3>2. CASE r # n /\ running[r] = Deployment(current)[r]
      BY <3>2, <2>7
    <3>3. CASE r # n /\ Pending(r, todo)
      <4>1. PICK i \in DOMAIN todo : todo[i].rack.name = r
        BY <3>3 DEF Pending
      <4>2. i # 1
        BY <4>1, <3>3, <1>1
      <4> QED
        BY <4>1, <4>2, <1>1 DEF Pending
    <3> QED
      BY <2>1, <3>1, <3>2, <3>3
  <2> QED
    BY <2>8, <2>9
<1> QED
  BY <1>3, <1>4, <1>5 DEF Inv

(* Without supported edits only the order of the changes matters. *)
LEMMA Dropped ==
    ASSUME Inv, todo # <<>>, ~supported, todo' \in {Tail(todo), <<>>},
           running' = running, current' = current, supported' = supported
    PROVE  Inv'
<1>0. Types /\ InOrder(todo) /\ RacksOnce(todo) /\ todo \in Seq(Changes)
  BY DEF Inv, Types
<1>1. Tail(todo) \in Seq(Changes) /\ <<>> \in Seq(Changes)
  BY <1>0, HeadTail
<1>2. Types'
  BY <1>0, <1>1 DEF Types
<1>3. InOrder(Tail(todo)) /\ RacksOnce(Tail(todo))
  BY <1>0, TailInOrder, TailOnce
<1>4. InOrder(<<>>) /\ RacksOnce(<<>>)
  BY DEF InOrder, RacksOnce
<1> QED
  BY <1>2, <1>3, <1>4 DEF Inv, Progress

(* What is known of the first change when only supported edits were made.  *)
LEMMA FirstChange ==
    ASSUME Inv, todo # <<>>
    PROVE  /\ Head(todo).patch \in Patches
           /\ StatefulSetFor(Head(todo).rack, current) \in Patches
           /\ StatefulSetFor(Head(todo).rack, current) = PatchFor(Head(todo).rack, current)
           /\ supported => Applicable(Head(todo), current, running)
<1>1. Types /\ Progress
  BY DEF Inv
<1>2. Head(todo) \in Changes /\ Head(todo) = todo[1] /\ 1 \in DOMAIN todo
  BY <1>1, HeadTail
<1>3. Head(todo).rack \in Racks /\ Head(todo).patch \in Patches
  BY <1>2 DEF Changes
<1>4. StatefulSetFor(Head(todo).rack, current) = PatchFor(Head(todo).rack, current)
  BY DEF StatefulSetFor, PatchFor
<1>5. PatchFor(Head(todo).rack, current) \in Patches
  BY <1>1, <1>3 DEF Patches, Types
<1> QED
  BY <1>1, <1>2, <1>3, <1>4, <1>5 DEF Progress

LEMMA AddRackStep ==
    ASSUME Inv, AddRack
    PROVE  Inv'
<1>1. /\ todo # <<>> /\ Head(todo).type = "add rack"
      /\ current' = current /\ supported' = supported
  BY DEF AddRack, Applies
<1>2. CASE running[Name] = None
  <2>1. /\ running' = [running EXCEPT ![Name] = StatefulSetFor(Head(todo).rack, current)]
        /\ todo' = Tail(todo)
    BY <1>2 DEF AddRack
  <2> QED
    BY <1>1, <2>1, FirstChange, Applied DEF Name
<1>3. CASE running[Name] # None
  <2>1. running' = running /\ todo' = <<>>
    BY <1>3 DEF AddRack
  <2>2. ~supported
    BY <1>1, <1>3, FirstChange DEF Applicable, Name
  <2> QED
    BY <1>1, <2>1, <2>2, Dropped
<1> QED
  BY <1>2, <1>3

LEMMA UpdateRackStep ==
    ASSUME Inv, UpdateRack
    PROVE  Inv'
<1>1. /\ todo # <<>> /\ Head(todo).type = "update rack"
      /\ current' = current /\ supported' = supported
  BY DEF UpdateRack, Applies
<1>2. CASE running[Name] # None
  <2>1. running' = [running EXCEPT ![Name] = Head(todo).patch] /\ todo' = Tail(todo)
    BY <1>2 DEF UpdateRack
  <2>2. supported => Head(todo).patch = PatchFor(Head(todo).rack, current)
    BY <1>1, FirstChange DEF Applicable
  <2> QED
    BY <1>1, <2>1, <2>2, FirstChange, Applied DEF Name
<1>3. CASE running[Name] = None
  <2>1. running' = running /\ todo' = <<>>
    BY <1>3 DEF UpdateRack
  <2>2. ~supported
    BY <1>1, <1>3, FirstChange DEF Applicable, Name
  <2> QED
    BY <1>1, <2>1, <2>2, Dropped
<1> QED
  BY <1>2, <1>3

LEMMA SkipChangeStep ==
    ASSUME Inv, SkipChange
    PROVE  Inv'
<1>1. /\ todo # <<>> /\ Head(todo).type \in {"delete rack", "scale down rack"}
      /\ todo' = Tail(todo)
      /\ current' = current /\ running' = running /\ supported' = supported
  BY DEF SkipChange, Applies
<1>2. ~supported
  BY <1>1, FirstChange DEF Applicable
<1> QED
  BY <1>1, <1>2, Dropped

LEMMA Unchanged ==
    ASSUME Inv, UNCHANGED vars
    PROVE  Inv'
BY DEF Inv, Types, Progress, vars

(* Inv is inductive. *)
THEOREM InvHolds == Spec => []Inv
<1>1. Init => Inv
  BY InitInv
<1>2. Inv /\ [Next]_vars => Inv'
  <2> SUFFICES ASSUME Inv, [Next]_vars
               PROVE  Inv'
    OBVIOUS
  <2>1. ASSUME NEW s \in Specs, Update(s) PROVE Inv'
    BY <2>1, UpdateStep
  <2>2. CASE AddRack
    BY <2>2, AddRackStep
  <2>3. CASE UpdateRack
    BY <2>3, UpdateRackStep
  <2>4. CASE SkipChange
    BY <2>4, SkipChangeStep
  <2>5. CASE UNCHANGED vars
    BY <2>5, Unchanged
  <2> QED
    BY <2>1, <2>2, <2>3, <2>4, <2>5 DEF Next
<1> QED
  BY <1>1, <1>2, PTL DEF Spec

(* Whatever is written, and whether or not it is supported, what is left   *)
(* of an update adds racks before it restarts any.                         *)
THEOREM Ordered == Spec => []ChangesOrdered
<1>1. Inv => ChangesOrdered
  BY DEF Inv, InOrder, ChangesOrdered
<1> QED
  BY <1>1, InvHolds, PTL

(* What is left of an update never applies two changes to one rack. *)
THEOREM RacksChangedOnce == Spec => []EachRackOnce
<1>1. Inv => EachRackOnce
  BY DEF Inv, RacksOnce, EachRackOnce
<1> QED
  BY <1>1, InvHolds, PTL

(* After any series of supported edits every rack runs what was written    *)
(* last: no edit is lost, however many racks, pods and sizes it changes.   *)
THEOREM SpecReached == Spec => []UpdateReachesSpec
<1>1. Inv => UpdateReachesSpec
  <2> SUFFICES ASSUME Inv, supported, todo = <<>>
               PROVE  running = Deployment(current)
    BY DEF UpdateReachesSpec
  <2>1. \A r \in RackNames : running[r] = Deployment(current)[r]
    BY DEF Inv, Progress, Pending
  <2>2. /\ running \in [RackNames -> Patches \cup {None}]
        /\ Deployment(current) \in [RackNames -> Patches \cup {None}]
    BY DeploymentType DEF Inv, Types
  <2> QED
    BY <2>1, <2>2
<1> QED
  BY <1>1, InvHolds, PTL
=============================================================================
