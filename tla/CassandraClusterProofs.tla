----------------------- MODULE CassandraClusterProofs -----------------------
(***************************************************************************)
(* Theorems about CassandraCluster, for any specifications and ConfigMaps, *)
(* any number of edits, failed calls and crashes, and users who wait or do *)
(* not wait for the operator; the last three (LeftAlone, SpecReached and   *)
(* ConfigReached) are about users who do, as their hypotheses say.         *)
(***************************************************************************)
EXTENDS CassandraCluster, AdjusterProofs

(* The worker of the ConfigMap's key gets other events than that of the    *)
(* cluster's key, and so other tasks.                                      *)
ConfigTaskRecords == [type : ConfigTaskTypes, rack : Racks, patch : {None}]
ConfigSteps == {"idle", "next", "patch", "get", "update", "wait"}

QueueInv == queue["cluster"] \in Seq(ClusterEvents) /\ queue["config"] \in Seq(ConfigEvents)

ConfigInv ==
    /\ op["config"].step \in ConfigSteps
    /\ op["config"].todo \in Seq(ConfigTaskRecords)
    /\ op["config"].def = None

(* What an operation relies on when it makes a call: that it has a task,   *)
(* the definition it was created with, or a copy of the StatefulSet.       *)
TaskSteps == {"create", "patch", "get", "update", "wait"}
Ready(o) ==
    /\ o.step \in TaskSteps => o.todo # <<>>
    /\ o.step = "findConfig" => o.def # None \/ o.todo # <<>>
    /\ o.step = "register" => o.def # None
    /\ o.step = "update" => o.copy # None
    /\ o.step = "patch" => Head(o.todo).type \in {"update rack", "hash"}

(* Between Register and the end of an operation on the cluster nobody      *)
(* takes the cluster out of the clusters map.                              *)
NeedsCluster(o) ==
    \/ o.step \in TaskSteps \cup {"findExisting", "createService", "next"}
    \/ o.step = "findConfig" /\ o.def = None
KnownInv == NeedsCluster(op["cluster"]) => known # None

Inv == TypeOK /\ QueueInv /\ ConfigInv /\ (\A w \in Workers : Ready(op[w])) /\ KnownInv

(* Some worker waits for the last write of a rack that is not settled.     *)
AwaitedBy(w, r) == Awaits(w, r) /\ op[w].gen = sets[r].gen
Awaited == NoFailures => \A r \in RackNames : Unsettled(r) => \E w \in Workers : AwaitedBy(w, r)

(* A deletion that the informer has seen is the last event in the queue,   *)
(* or is being handled.                                                    *)
Going(step) == step \in {"idle", "deleteSets", "deleteService"}
DeletionComes ==
    crStore = None =>
        LET events == queue["cluster"]
        IN  IF events = <<>> THEN known = None /\ Going(op["cluster"].step)
            ELSE events[Len(events)].kind = "delete"

(* What a cluster that is not known has left is about to be deleted. *)
NothingLeft ==
    known = None =>
        /\ op["cluster"].step # "deleteSets"
           => \A r \in RackNames : sets[r] = None \/ sets[r].deleting
        /\ service => op["cluster"].step \in {"deleteSets", "deleteService"}

Deletions == NoFailures => DeletionComes /\ NothingLeft

-----------------------------------------------------------------------------
(* The parts of the type invariant that steps change together. *)
Events == ClusterEvents \cup ConfigEvents
Knowns == Absent([def : Defs, online : BOOLEAN])
Budgets == [edits : 0..MaxEdits, crashes : 0..MaxCrashes, errors : 0..MaxErrors]
ApiType ==
    /\ cr \in Absent(Specs) /\ cm \in Absent(Configs)
    /\ sets \in [RackNames -> Absent(StatefulSets)] /\ service \in BOOLEAN
StoreType == crStore \in Absent(Specs) /\ cmStore \in Absent(Configs)
QueueType == queue \in [Workers -> Seq(Events)]
OpType == op \in [Workers -> Operations]

LEMMA TypeParts ==
    TypeOK <=> ApiType /\ StoreType /\ QueueType /\ OpType /\ known \in Knowns /\ budget \in Budgets
BY DEF TypeOK, ApiType, StoreType, QueueType, OpType, Events, Knowns, Budgets

LEMMA TwoWorkers ==
    "cluster" \in Workers /\ "config" \in Workers /\ \A w \in Workers : w = "cluster" \/ w = "config"
BY DEF Workers

LEMMA SpecType ==
    ASSUME NEW s \in Specs
    PROVE  /\ IsSpec(s)
           /\ s # None
           /\ RacksOf(s) \subseteq Racks
           /\ s.racks \in Seq(Racks)
           /\ \A rack \in RacksOf(s) : rack.replicas \in Nat /\ rack.name \in RackNames
<1>1. IsSpec(s) /\ s # None /\ \A i \in DOMAIN s.racks : s.racks[i].name \in RackNames
  BY CassandraClusterAssumption
<1>2. RacksOf(s) \subseteq Racks
  BY DEF Racks, RacksOf
<1>3. s.racks \in Seq(RacksOf(s)) /\ \A rack \in RacksOf(s) : rack.replicas \in Nat
  BY <1>1, SpecRacks
<1>4. s.racks \in Seq(Racks)
  BY <1>2, <1>3, SeqWider
<1>5. \A rack \in RacksOf(s) : rack.name \in RackNames
  BY <1>1 DEF RacksOf
<1> QED
  BY <1>1, <1>2, <1>3, <1>4, <1>5

LEMMA RackType ==
    ASSUME NEW rack \in Racks
    PROVE  rack.name \in RackNames /\ rack.replicas \in Nat
<1>1. PICK s \in Specs : rack \in RacksOf(s)
  BY DEF Racks, RacksOf
<1> QED
  BY <1>1, SpecType

LEMMA DefinitionType ==
    ASSUME NEW s \in Specs
    PROVE  /\ Definition(s) \in Defs
           /\ Definition(s).racks = s.racks
           /\ Definition(s).pod \in Pods
           /\ Definition(s).boot \in Images
           /\ Definition(s).fixed \in {x.fixed : x \in Specs}
<1>1. s \in [fixed : {s.fixed}, pod : {s.pod}, boot : {s.boot}, racks : Seq(RacksOf(s))]
  BY SpecType DEF IsSpec
<1>2. /\ Definition(s).racks = s.racks /\ Definition(s).pod = s.pod
      /\ Definition(s).fixed = s.fixed
      /\ Definition(s).boot = IF s.boot = NoImage THEN DefaultImage ELSE s.boot
  BY <1>1 DEF Definition
<1> QED
  BY <1>2 DEF Defs, Pods, Images

LEMMA DefType ==
    ASSUME NEW def \in Defs
    PROVE  /\ def.racks \in Seq(Racks)
           /\ def.pod \in Pods
           /\ def.boot \in Images
           /\ def.fixed \in {x.fixed : x \in Specs}
<1>1. PICK s \in Specs : def = Definition(s)
  BY DEF Defs
<1> QED
  BY <1>1, DefinitionType, SpecType

(* The tasks that the adjuster and the operations make. *)
LEMMA ChangesAreTasks ==
    ASSUME NEW old \in Specs, NEW new \in Specs
    PROVE  ChangesForCluster(old, new) \in Seq(TaskRecords)
<1> DEFINE all == AllRacks(old, new)
<1>1. ChangesForCluster(old, new) \in Seq(ChangeSet(all, new))
  BY SpecType, ChangesInTurn DEF Collected
<1>2. all \subseteq Racks
  BY SpecType DEF AllRacks
<1>3. ChangeSet(all, new) \subseteq TaskRecords
  <2> SUFFICES ASSUME NEW type \in ChangeTypes, NEW rack \in all
               PROVE  Change(type, rack, new) \in TaskRecords
    BY DEF ChangeSet
  <2>1. rack \in Racks /\ rack.replicas \in Nat
    BY <1>2, RackType
  <2>2. PatchFor(rack, new) \in Patches
    BY <2>1 DEF PatchFor, Patches, Pods, Images
  <2> QED
    BY <2>1, <2>2 DEF Change, TaskRecords
<1> QED
  BY <1>1, <1>3, SeqWider

LEMMA TasksType ==
    ASSUME NEW types, NEW type \in types, NEW racks \in Seq(Racks)
    PROVE  Tasks(type, racks, None) \in Seq([type : types, rack : Racks, patch : {None}])
<1> DEFINE T == [type : types, rack : Racks, patch : {None}]
<1>1. /\ Len(racks) \in Nat /\ DOMAIN racks = 1..Len(racks)
      /\ \A i \in DOMAIN racks : racks[i] \in Racks
  BY SeqMembers
<1>3. Tasks(type, racks, None) \in [1..Len(racks) -> T]
  BY <1>1 DEF Tasks
<1> HIDE DEF T
<1>4. Tasks(type, racks, None) \in Seq(T)
  BY <1>1, <1>3, SeqOf
<1> QED
  BY <1>4 DEF T

LEMMA ConfigTasksAreTasks == ConfigTaskRecords \subseteq TaskRecords
BY DEF ConfigTaskRecords, TaskRecords

(* The first of the tasks left, and the rest. *)
LEMMA TaskType ==
    ASSUME NEW o \in Operations, o.todo # <<>>
    PROVE  /\ Head(o.todo) \in TaskRecords
           /\ Head(o.todo).rack \in Racks
           /\ Head(o.todo).rack.name \in RackNames
           /\ Head(o.todo).type = "update rack" => Head(o.todo).patch \in Patches
           /\ Tail(o.todo) \in Seq(TaskRecords)
<1> DEFINE T == TaskRecords
<1>1. o.todo \in Seq(T)
  BY DEF Operations
<1> HIDE DEF T
<1>2. Head(o.todo) \in T /\ Tail(o.todo) \in Seq(T)
  BY <1>1
<1>3. /\ Head(o.todo).rack \in Racks
      /\ Head(o.todo).type = "update rack" => Head(o.todo).patch \in Patches
  BY <1>2 DEF T, TaskRecords, ConfigTaskTypes
<1> QED
  BY <1>2, <1>3, RackType DEF T

-----------------------------------------------------------------------------
(* Every write of a StatefulSet gives a StatefulSet, and none takes back   *)
(* its deletion.                                                           *)
LEMMA ChangedType ==
    ASSUME NEW set \in StatefulSets, NEW new \in StatefulSets, new.deleting = set.deleting
    PROVE  Changed(set, new) \in StatefulSets /\ Changed(set, new).deleting = set.deleting
<1>1. [new EXCEPT !.gen = @ + 1] \in StatefulSets
      /\ [new EXCEPT !.gen = @ + 1].deleting = new.deleting
  BY DEF StatefulSets
<1> QED
  BY <1>1 DEF Changed

LEMMA NewStatefulSetType ==
    ASSUME NEW def \in Defs, NEW rack \in Racks, NEW cfg \in Absent(Configs)
    PROVE  NewStatefulSet(def, rack, cfg) \in StatefulSets
<1>1. rack.replicas \in Nat
  BY RackType
<1>2. def.pod \in Pods /\ def.boot \in Images /\ def.fixed \in {x.fixed : x \in Specs}
  BY DefType
<1> QED
  BY <1>1, <1>2 DEF NewStatefulSet, StatefulSets

LEMMA PatchedType ==
    ASSUME NEW set \in StatefulSets, NEW patch \in Patches
    PROVE  Patched(set, patch) \in StatefulSets /\ Patched(set, patch).deleting = set.deleting
<1> DEFINE new == [set EXCEPT !.replicas = patch.replicas, !.pod = patch.pod, !.boot = patch.boot]
<1>1. patch.replicas \in Nat /\ patch.pod \in Pods /\ patch.boot \in Images
  BY DEF Patches
<1>2. new \in StatefulSets /\ new.deleting = set.deleting
  BY <1>1 DEF StatefulSets
<1> QED
  BY <1>2, ChangedType DEF Patched

LEMMA WithHashType ==
    ASSUME NEW set \in StatefulSets, NEW cfg \in Absent(Configs)
    PROVE  WithHash(set, cfg) \in StatefulSets /\ WithHash(set, cfg).deleting = set.deleting
<1>1. [set EXCEPT !.hash = cfg] \in StatefulSets /\ [set EXCEPT !.hash = cfg].deleting = set.deleting
  BY DEF StatefulSets
<1> QED
  BY <1>1, ChangedType DEF WithHash

LEMMA WithVolumeType ==
    ASSUME NEW set \in StatefulSets, NEW cfg \in Absent(Configs)
    PROVE  WithVolume(set, cfg) \in StatefulSets /\ WithVolume(set, cfg).deleting = set.deleting
<1> DEFINE new == [set EXCEPT !.vol = TRUE, !.hash = cfg]
<1>1. new \in StatefulSets /\ new.deleting = set.deleting
  BY DEF StatefulSets
<1> QED
  BY <1>1, ChangedType DEF WithVolume

LEMMA WithoutVolumeType ==
    ASSUME NEW set \in StatefulSets
    PROVE  WithoutVolume(set) \in StatefulSets /\ WithoutVolume(set).deleting = set.deleting
<1> DEFINE new == [set EXCEPT !.vol = FALSE, !.hash = None]
<1>1. None \in Absent(Configs)
  BY DEF Absent
<1>2. new \in StatefulSets /\ new.deleting = set.deleting
  BY <1>1 DEF StatefulSets
<1> QED
  BY <1>2, ChangedType DEF WithoutVolume

-----------------------------------------------------------------------------
(* How the operation of a worker changes. *)
LEMMA OperationType ==
    ASSUME NEW step \in OpSteps, NEW todo \in Seq(TaskRecords),
           NEW cfg \in Absent(Configs), NEW def \in Absent(Specs)
    PROVE  /\ Operation(step, todo, cfg, def) \in Operations
           /\ Operation(step, todo, cfg, def).step = step
           /\ Operation(step, todo, cfg, def).todo = todo
           /\ Operation(step, todo, cfg, def).def = def
BY DEF Operation, Operations, Absent

LEMMA IdleType ==
    Idle \in Operations /\ Idle.step = "idle" /\ Idle.todo = <<>> /\ Idle.def = None
<1>1. /\ "idle" \in OpSteps /\ <<>> \in Seq(TaskRecords)
      /\ None \in Absent(Configs) /\ None \in Absent(Specs)
  BY DEF OpSteps, Absent
<1> QED
  BY <1>1 DEF Idle, Operation, Operations, Absent

LEMMA OpChanges ==
    ASSUME OpType, NEW w \in Workers, NEW o, op' = [op EXCEPT ![w] = o]
    PROVE  op'[w] = o /\ (\A v \in Workers : v # w => op'[v] = op[v])
           /\ (o \in Operations => OpType')
BY DEF OpType

(* A step of an operation of worker w, to the operation o. *)
GoodOperation(w, o, map) ==
    /\ o \in Operations
    /\ Ready(o)
    /\ w = "config" => /\ o.step \in ConfigSteps
                       /\ o.todo \in Seq(ConfigTaskRecords)
                       /\ o.def = None
    /\ w = "cluster" /\ NeedsCluster(o) => map # None

LEMMA WorkerStep ==
    ASSUME Inv, NEW w \in Workers, NEW o, op' = [op EXCEPT ![w] = o],
           GoodOperation(w, o, known'),
           known' \in Knowns, w = "config" => known' = known,
           ApiType', StoreType', budget' \in Budgets, QueueType', QueueInv'
    PROVE  Inv'
<1>1. OpType
  BY TypeParts DEF Inv
<1>2. op'[w] = o /\ (\A v \in Workers : v # w => op'[v] = op[v]) /\ OpType'
  BY <1>1, OpChanges DEF GoodOperation
<1>3. TypeOK'
  BY <1>2, TypeParts DEF TypeOK, ApiType, StoreType, QueueType, OpType, Events, Knowns, Budgets
<1>4. "cluster" \in Workers /\ "config" \in Workers /\ "cluster" # "config"
  BY DEF Workers
<1>5. ConfigInv'
  <2>1. CASE w = "config"
    BY <1>2, <2>1 DEF ConfigInv, GoodOperation
  <2>2. CASE w # "config"
    BY <1>2, <1>4, <2>2 DEF Inv, ConfigInv
  <2> QED
    BY <2>1, <2>2
<1>6. \A v \in Workers : Ready(op'[v])
  BY <1>2 DEF Inv, GoodOperation
<1>7. KnownInv'
  <2>1. CASE w = "cluster"
    BY <1>2, <2>1 DEF KnownInv, GoodOperation
  <2>2. CASE w = "config"
    BY <1>2, <1>4, <2>2 DEF Inv, KnownInv
  <2> QED
    BY <2>1, <2>2, TwoWorkers
<1> QED
  BY <1>3, <1>5, <1>6, <1>7 DEF Inv

-----------------------------------------------------------------------------
LEMMA InitInv == Init => Inv
<1> SUFFICES ASSUME Init PROVE Inv
  OBVIOUS
<1>1. Workers = {"cluster", "config"} /\ \A w \in Workers : op[w] = Idle /\ queue[w] = <<>>
  BY DEF Init, Workers
<1>2. ApiType /\ StoreType /\ known \in Knowns
  BY DEF Init, ApiType, StoreType, Knowns, Absent
<1>3. QueueType /\ QueueInv
  BY <1>1 DEF Init, QueueType, QueueInv
<1>4. OpType
  BY IdleType DEF Init, OpType
<1>5. budget \in Budgets
  BY CassandraClusterAssumption DEF Init, Budgets
<1>6. TypeOK
  BY <1>2, <1>3, <1>4, <1>5, TypeParts
<1>7. ConfigInv
  <2>1. op["config"] = Idle /\ <<>> \in Seq(ConfigTaskRecords)
    BY <1>1
  <2> QED
    BY <2>1, IdleType DEF ConfigInv, ConfigSteps
<1>8. Ready(Idle) /\ ~NeedsCluster(Idle)
  BY IdleType DEF Ready, NeedsCluster, TaskSteps
<1> QED
  BY <1>1, <1>3, <1>6, <1>7, <1>8 DEF Inv, KnownInv

(* The users and the StatefulSet controller do not touch the operator. *)
LEMMA OutsideStep ==
    ASSUME Inv, ApiType', UNCHANGED operator, budget' \in Budgets
    PROVE  Inv'
<1>1. /\ crStore' = crStore /\ cmStore' = cmStore /\ known' = known
      /\ queue' = queue /\ op' = op
  BY DEF operator
<1>2. StoreType' /\ QueueType' /\ OpType' /\ known' \in Knowns
  BY <1>1, TypeParts DEF Inv, StoreType, QueueType, OpType
<1>3. TypeOK'
  BY <1>2, TypeParts DEF TypeOK, ApiType, StoreType, QueueType, OpType, Events, Knowns, Budgets
<1> QED
  BY <1>1, <1>3 DEF Inv, QueueInv, ConfigInv, KnownInv

LEMMA BudgetSpent ==
    ASSUME budget \in Budgets
    PROVE  /\ budget.edits > 0 => [budget EXCEPT !.edits = @ - 1] \in Budgets
           /\ budget.crashes > 0 => [budget EXCEPT !.crashes = @ - 1] \in Budgets
           /\ budget.errors > 0 => [budget EXCEPT !.errors = @ - 1] \in Budgets
<1>1. MaxEdits \in Nat /\ MaxCrashes \in Nat /\ MaxErrors \in Nat
  BY CassandraClusterAssumption
<1> QED
  BY <1>1 DEF Budgets

LEMMA UserStep ==
    ASSUME Inv, User
    PROVE  Inv'
<1>1. ApiType /\ budget \in Budgets
  BY TypeParts DEF Inv
<1>2. ASSUME NEW s \in Specs, EditCluster(s) PROVE Inv'
  <2>1. ApiType' /\ UNCHANGED operator
    BY <1>1, <1>2 DEF EditCluster, ApiType, Absent
  <2>2. budget' \in Budgets
    BY <1>1, <1>2, BudgetSpent DEF EditCluster, UserMay
  <2> QED
    BY <2>1, <2>2, OutsideStep
<1>3. CASE DeleteCluster
  <2>1. ApiType' /\ UNCHANGED operator
    BY <1>1, <1>3 DEF DeleteCluster, ApiType, Absent
  <2>2. budget' \in Budgets
    BY <1>1, <1>3, BudgetSpent DEF DeleteCluster, UserMay
  <2> QED
    BY <2>1, <2>2, OutsideStep
<1>4. ASSUME NEW v \in Configs \cup {None}, EditConfig(v) PROVE Inv'
  <2>1. ApiType' /\ UNCHANGED operator
    BY <1>1, <1>4 DEF EditConfig, ApiType, Absent
  <2>2. budget' \in Budgets
    BY <1>1, <1>4, BudgetSpent DEF EditConfig, UserMay
  <2> QED
    BY <2>1, <2>2, OutsideStep
<1> QED
  BY <1>2, <1>3, <1>4 DEF User

LEMMA ControllerStep ==
    ASSUME Inv, NEW r \in RackNames, Observe(r) \/ RolloutCompletes(r) \/ Removed(r)
    PROVE  Inv'
<1>1. ApiType /\ budget \in Budgets /\ sets \in [RackNames -> Absent(StatefulSets)]
  BY TypeParts DEF Inv, ApiType
<1>2. UNCHANGED operator /\ budget' = budget /\ cr' = cr /\ cm' = cm /\ service' = service
  BY DEF Observe, RolloutCompletes, Removed
<1>3. sets' \in [RackNames -> Absent(StatefulSets)]
  <2>1. CASE Observe(r)
    <3>1. sets[r] \in StatefulSets
      BY <1>1, <2>1 DEF Observe, Absent
    <3>2. [sets[r] EXCEPT !.obs = sets[r].gen, !.rolled = FALSE] \in StatefulSets
      BY <3>1 DEF StatefulSets
    <3>3. sets' = [sets EXCEPT ![r] = [sets[r] EXCEPT !.obs = sets[r].gen, !.rolled = FALSE]]
      BY <1>1, <2>1 DEF Observe
    <3> QED
      BY <1>1, <3>2, <3>3 DEF Absent
  <2>2. CASE RolloutCompletes(r)
    <3>1. sets[r] \in StatefulSets
      BY <1>1, <2>2 DEF RolloutCompletes, Absent
    <3>2. [sets[r] EXCEPT !.rolled = TRUE] \in StatefulSets
      BY <3>1 DEF StatefulSets
    <3>3. sets' = [sets EXCEPT ![r] = [sets[r] EXCEPT !.rolled = TRUE]]
      BY <2>2 DEF RolloutCompletes
    <3> QED
      BY <1>1, <3>2, <3>3 DEF Absent
  <2>3. CASE Removed(r)
    BY <1>1, <2>3 DEF Removed, Absent
  <2> QED
    BY <2>1, <2>2, <2>3
<1>4. ApiType' /\ budget' \in Budgets
  BY <1>1, <1>2, <1>3 DEF ApiType
<1> QED
  BY <1>2, <1>4, OutsideStep

(* Only an event of its own kind is put in the queue of a worker. *)
LEMMA EventQueued ==
    ASSUME QueueType, QueueInv, NEW w \in Workers, NEW e, Dispatch(w, e),
           e \in IF w = "cluster" THEN ClusterEvents ELSE ConfigEvents
    PROVE  QueueType' /\ QueueInv'
<1>1. e \in Events
  BY DEF Events
<1>2. queue' = [queue EXCEPT ![w] = Append(queue[w], e)]
  BY DEF Dispatch
<1>3. Append(queue[w], e) \in Seq(Events)
  BY <1>1 DEF QueueType
<1>4. QueueType'
  BY <1>2, <1>3 DEF QueueType
<1>5. "cluster" \in Workers /\ "config" \in Workers
  BY TwoWorkers
<1>6. CASE w = "cluster"
  <2>1. Append(queue[w], e) \in Seq(ClusterEvents)
    BY <1>6 DEF QueueInv
  <2>2. queue'["cluster"] = Append(queue[w], e) /\ queue'["config"] = queue["config"]
    BY <1>2, <1>5, <1>6 DEF QueueType
  <2> QED
    BY <1>4, <2>1, <2>2 DEF QueueInv
<1>7. CASE w = "config"
  <2>1. Append(queue[w], e) \in Seq(ConfigEvents)
    BY <1>7 DEF QueueInv
  <2>2. queue'["config"] = Append(queue[w], e) /\ queue'["cluster"] = queue["cluster"]
    BY <1>2, <1>5, <1>7 DEF QueueType
  <2> QED
    BY <1>4, <2>1, <2>2 DEF QueueInv
<1> QED
  BY <1>6, <1>7, TwoWorkers

LEMMA InformerStep ==
    ASSUME Inv, CassandraInformer \/ ConfigMapInformer
    PROVE  Inv'
<1>1. /\ ApiType /\ StoreType /\ QueueType /\ OpType /\ QueueInv
      /\ known \in Knowns /\ budget \in Budgets
  BY TypeParts DEF Inv
<1>2. known' = known /\ op' = op /\ budget' = budget /\ UNCHANGED api
  BY DEF CassandraInformer, ConfigMapInformer
<1>3. ApiType' /\ OpType' /\ known' \in Knowns /\ budget' \in Budgets
  BY <1>1, <1>2 DEF ApiType, OpType, api
<1>4. StoreType'
  BY <1>1 DEF CassandraInformer, ConfigMapInformer, StoreType, ApiType
<1>5. QueueType' /\ QueueInv'
  <2>1. CASE CassandraInformer
    <3> DEFINE e == IF crStore = None THEN [kind |-> "add", new |-> cr]
                    ELSE IF cr = None THEN [kind |-> "delete"]
                    ELSE [kind |-> "update", old |-> crStore, new |-> cr]
    <3>1. Dispatch("cluster", e) /\ crStore # cr
      BY <2>1 DEF CassandraInformer
    <3>2. crStore # None => crStore \in Specs
      BY <1>1 DEF StoreType, Absent
    <3>3. cr # None => cr \in Specs
      BY <1>1 DEF ApiType, Absent
    <3>4. e \in ClusterEvents
      BY <3>1, <3>2, <3>3 DEF ClusterEvents
    <3> HIDE DEF e
    <3> QED
      BY <1>1, <3>1, <3>4, EventQueued, TwoWorkers
  <2>2. CASE ConfigMapInformer
    <3> DEFINE e == IF cmStore = None THEN [kind |-> "addConfig", cfg |-> cm]
                    ELSE IF cm = None THEN [kind |-> "deleteConfig", cfg |-> cmStore]
                                      ELSE [kind |-> "updateConfig", cfg |-> cm]
    <3>1. Dispatch("config", e) \/ queue' = queue
      BY <2>2 DEF ConfigMapInformer
    <3>2. cmStore # None => cmStore \in Configs
      BY <1>1 DEF StoreType, Absent
    <3>3. (cm # None => cm \in Configs) /\ cmStore # cm
      BY <1>1, <2>2 DEF ApiType, Absent, ConfigMapInformer
    <3>4. e \in ConfigEvents
      BY <3>2, <3>3 DEF ConfigEvents
    <3> HIDE DEF e
    <3>5. CASE Dispatch("config", e)
      BY <1>1, <3>4, <3>5, EventQueued, TwoWorkers
    <3>6. CASE queue' = queue
      BY <1>1, <3>6 DEF QueueType, QueueInv
    <3> QED
      BY <3>1, <3>5, <3>6
  <2> QED
    BY <2>1, <2>2
<1>6. TypeOK'
  BY <1>3, <1>4, <1>5, TypeParts DEF TypeOK, ApiType, StoreType, QueueType, OpType, Events, Knowns, Budgets
<1> QED
  BY <1>2, <1>5, <1>6 DEF Inv, ConfigInv, KnownInv

-----------------------------------------------------------------------------
(* A worker takes an event. *)
LEMMA Taken ==
    ASSUME Inv, NEW w \in Workers, NEW kinds, Takes(w, kinds)
    PROVE  /\ ApiType' /\ StoreType' /\ budget' \in Budgets /\ QueueType' /\ QueueInv'
           /\ Head(queue[w]) \in IF w = "cluster" THEN ClusterEvents ELSE ConfigEvents
           /\ Head(queue[w]).kind \in kinds
<1>1. /\ ApiType /\ StoreType /\ QueueType /\ QueueInv /\ budget \in Budgets
  BY TypeParts DEF Inv
<1>2. /\ queue[w] # <<>> /\ Head(queue[w]).kind \in kinds
      /\ queue' = [queue EXCEPT ![w] = Tail(queue[w])]
      /\ cr' = cr /\ cm' = cm /\ sets' = sets /\ service' = service
      /\ crStore' = crStore /\ cmStore' = cmStore /\ budget' = budget
  BY DEF Takes, api
<1>3. ApiType' /\ StoreType' /\ budget' \in Budgets
  BY <1>1, <1>2 DEF ApiType, StoreType
<1>4. Tail(queue[w]) \in Seq(Events)
  BY <1>1, <1>2 DEF QueueType
<1>5. QueueType'
  BY <1>1, <1>2, <1>4 DEF QueueType
<1>6. "cluster" \in Workers /\ "config" \in Workers
  BY TwoWorkers
<1>7. CASE w = "cluster"
  <2> DEFINE E == ClusterEvents
  <2>1. queue[w] \in Seq(E)
    BY <1>1, <1>7 DEF QueueInv
  <2> HIDE DEF E
  <2>2. Tail(queue[w]) \in Seq(E) /\ Head(queue[w]) \in E
    BY <1>2, <2>1
  <2>3. queue'["cluster"] = Tail(queue[w]) /\ queue'["config"] = queue["config"]
    BY <1>1, <1>2, <1>6, <1>7 DEF QueueType
  <2>4. QueueInv'
    BY <1>1, <2>2, <2>3 DEF QueueInv, E
  <2> QED
    BY <1>2, <1>3, <1>5, <1>7, <2>2, <2>4 DEF E
<1>8. CASE w = "config"
  <2> DEFINE E == ConfigEvents
  <2>1. queue[w] \in Seq(E)
    BY <1>1, <1>8 DEF QueueInv
  <2> HIDE DEF E
  <2>2. Tail(queue[w]) \in Seq(E) /\ Head(queue[w]) \in E
    BY <1>2, <2>1
  <2>3. queue'["config"] = Tail(queue[w]) /\ queue'["cluster"] = queue["cluster"]
    BY <1>1, <1>2, <1>6, <1>8 DEF QueueType
  <2>4. QueueInv'
    BY <1>1, <2>2, <2>3 DEF QueueInv, E
  <2> QED
    BY <1>2, <1>3, <1>5, <1>8, <2>2, <2>4 DEF E
<1> QED
  BY <1>7, <1>8, TwoWorkers

LEMMA IdleIsGood ==
    ASSUME NEW w, NEW map PROVE GoodOperation(w, Idle, map)
<1>1. <<>> \in Seq(ConfigTaskRecords)
  OBVIOUS
<1> QED
  BY <1>1, IdleType DEF GoodOperation, Ready, NeedsCluster, ConfigSteps, TaskSteps

LEMMA EventType ==
    ASSUME NEW e
    PROVE  /\ e \in ClusterEvents => /\ e.kind \in {"add", "delete", "update"}
                                     /\ e.kind \in {"add", "update"} => e.new \in Specs
                                     /\ e.kind = "update" => e.old \in Specs
           /\ e \in ConfigEvents => /\ e.kind \in {"addConfig", "updateConfig", "deleteConfig"}
                                    /\ e.cfg \in Configs
BY DEF ClusterEvents, ConfigEvents

LEMMA KnownType ==
    ASSUME known \in Knowns, known # None
    PROVE  /\ known = [def |-> known.def, online |-> known.online]
           /\ known.def \in Defs /\ known.def.racks \in Seq(Racks)
           /\ \A def \in Defs, online \in BOOLEAN :
                  [def |-> def, online |-> online] \in Knowns \ {None}
<1>1. known \in [def : Defs, online : BOOLEAN]
  BY DEF Knowns, Absent
<1>2. \A def \in Defs, online \in BOOLEAN : [def |-> def, online |-> online] # None
  BY NoneAssumption DEF Defs
<1> QED
  BY <1>1, <1>2, DefType DEF Knowns, Absent

LEMMA ReceiveAddStep ==
    ASSUME Inv, NEW w \in Workers, ReceiveAdd(w)
    PROVE  Inv'
<1> DEFINE e == Head(queue[w])
           o == Operation("findConfig", <<>>, None, e.new)
<1>1. Takes(w, {"add", "update"}) /\ op' = [op EXCEPT ![w] = o] /\ known' = known
  BY DEF ReceiveAdd, Start
<1>2. /\ ApiType' /\ StoreType' /\ budget' \in Budgets /\ QueueType' /\ QueueInv'
      /\ e \in IF w = "cluster" THEN ClusterEvents ELSE ConfigEvents
      /\ e.kind \in {"add", "update"}
  BY <1>1, Taken
<1> HIDE DEF e
<1>3. w # "config" /\ e.new \in Specs
  BY <1>2, EventType
<1>4. "findConfig" \in OpSteps /\ <<>> \in Seq(TaskRecords) /\ None \in Absent(Configs)
      /\ e.new \in Absent(Specs) /\ e.new # None
  BY <1>3, SpecType DEF OpSteps, Absent
<1>5. o \in Operations /\ o.step = "findConfig" /\ o.def = e.new
  BY <1>4 DEF Operation, Operations, Absent
<1> HIDE DEF o
<1>6. GoodOperation(w, o, known')
  BY <1>3, <1>4, <1>5 DEF GoodOperation, Ready, NeedsCluster, TaskSteps
<1>7. known' \in Knowns
  BY <1>1, TypeParts DEF Inv
<1> QED
  BY <1>1, <1>2, <1>6, <1>7, WorkerStep

LEMMA ReceiveDeleteStep ==
    ASSUME Inv, NEW w \in Workers, ReceiveDelete(w)
    PROVE  Inv'
<1> DEFINE o == IF known = None THEN Idle ELSE Operation("deleteSets", <<>>, None, None)
<1>1. Takes(w, {"delete"}) /\ op' = [op EXCEPT ![w] = o] /\ known' = None
  BY DEF ReceiveDelete, Start
<1>2. /\ ApiType' /\ StoreType' /\ budget' \in Budgets /\ QueueType' /\ QueueInv'
      /\ Head(queue[w]) \in IF w = "cluster" THEN ClusterEvents ELSE ConfigEvents
      /\ Head(queue[w]).kind \in {"delete"}
  BY <1>1, Taken
<1>3. w # "config"
  BY <1>2, EventType
<1>4. GoodOperation(w, o, known')
  <2>1. CASE known = None
    BY <2>1, IdleIsGood
  <2>2. CASE known # None
    <3>1. o = Operation("deleteSets", <<>>, None, None)
      BY <2>2
    <3>2. "deleteSets" \in OpSteps /\ <<>> \in Seq(TaskRecords) /\ None \in Absent(Configs)
          /\ None \in Absent(Specs)
      BY DEF OpSteps, Absent
    <3> HIDE DEF o
    <3>3. o \in Operations /\ o.step = "deleteSets"
      BY <3>1, <3>2 DEF Operation, Operations, Absent
    <3> QED
      BY <1>3, <3>3 DEF GoodOperation, Ready, NeedsCluster, TaskSteps
  <2> QED
    BY <2>1, <2>2
<1>5. known' \in Knowns
  BY <1>1 DEF Knowns, Absent
<1> HIDE DEF o
<1> QED
  BY <1>1, <1>2, <1>3, <1>4, <1>5, WorkerStep

LEMMA NextIsGood ==
    ASSUME NEW w \in Workers, NEW todo \in Seq(TaskRecords), NEW cfg \in Absent(Configs), NEW map,
           w = "config" => todo \in Seq(ConfigTaskRecords),
           map # None
    PROVE  GoodOperation(w, Operation("next", todo, cfg, None), map)
<1> DEFINE o == Operation("next", todo, cfg, None)
<1>1. "next" \in OpSteps /\ None \in Absent(Specs)
  BY DEF OpSteps, Absent
<1>2. o \in Operations /\ o.step = "next" /\ o.todo = todo /\ o.def = None
  BY <1>1, OperationType
<1> HIDE DEF o
<1>3. GoodOperation(w, o, map)
  BY <1>2 DEF GoodOperation, Ready, NeedsCluster, TaskSteps, ConfigSteps
<1> QED
  BY <1>3 DEF o

LEMMA ReceiveUpdateStep ==
    ASSUME Inv, NEW w \in Workers, ReceiveUpdate(w)
    PROVE  Inv'
<1> DEFINE old == Head(queue[w]).old
           new == Head(queue[w]).new
           changes == ChangesForCluster(old, new)
           o == IF ~Valid(new) \/ ChangeForbidden(old, new)
                THEN Idle ELSE Operation("next", changes, None, None)
<1>1. Takes(w, {"update"}) /\ known # None /\ op[w] = Idle
  BY DEF ReceiveUpdate, Takes
<1>2. /\ ApiType' /\ StoreType' /\ budget' \in Budgets /\ QueueType' /\ QueueInv'
      /\ Head(queue[w]) \in IF w = "cluster" THEN ClusterEvents ELSE ConfigEvents
      /\ Head(queue[w]).kind \in {"update"}
  BY <1>1, Taken
<1>3. w # "config" /\ old \in Specs /\ new \in Specs
  BY <1>2, EventType
<1>4. OpType /\ known \in Knowns
  BY TypeParts DEF Inv
<1>5. changes \in Seq(TaskRecords) /\ Definition(new) \in Defs
  BY <1>3, ChangesAreTasks, DefinitionType
<1>6. op' = [op EXCEPT ![w] = o]
  BY <1>1, <1>4 DEF ReceiveUpdate, Start, OpType
<1>7. known' = known \/ known' = [known EXCEPT !.def = Definition(new)]
  BY DEF ReceiveUpdate
<1> HIDE DEF old, new, changes
<1>8. known' \in Knowns \ {None}
  <2>1. CASE known' = known
    BY <1>1, <1>4, <2>1
  <2>2. CASE known' = [known EXCEPT !.def = Definition(new)]
    <3>1. known \in [def : Defs, online : BOOLEAN]
      BY <1>1, <1>4 DEF Knowns, Absent
    <3>2. known' = [def |-> Definition(new), online |-> known.online] /\ known.online \in BOOLEAN
      BY <2>2, <3>1
    <3> QED
      BY <1>1, <1>4, <1>5, <3>2, KnownType
  <2> QED
    BY <1>7, <2>1, <2>2
<1>9. GoodOperation(w, o, known')
  <2>1. CASE ~Valid(new) \/ ChangeForbidden(old, new)
    BY <2>1, IdleIsGood
  <2>2. CASE ~(~Valid(new) \/ ChangeForbidden(old, new))
    <3>1. o = Operation("next", changes, None, None) /\ None \in Absent(Configs)
      BY <2>2 DEF Absent
    <3> QED
      BY <1>3, <1>5, <1>8, <3>1, NextIsGood
  <2> QED
    BY <2>1, <2>2
<1> HIDE DEF o
<1> QED
  BY <1>2, <1>3, <1>6, <1>8, <1>9, WorkerStep

LEMMA ReceiveConfigStep ==
    ASSUME Inv, NEW w \in Workers, ReceiveConfig(w)
    PROVE  Inv'
<1> DEFINE e == Head(queue[w])
           tasks == Tasks(ConfigTask[e.kind], known.def.racks, None)
           o == IF known = None THEN Idle ELSE Operation("next", tasks, e.cfg, None)
<1>1. /\ Takes(w, {"addConfig", "updateConfig", "deleteConfig"})
      /\ op' = [op EXCEPT ![w] = o] /\ known' = known
  BY DEF ReceiveConfig, Start
<1>2. /\ ApiType' /\ StoreType' /\ budget' \in Budgets /\ QueueType' /\ QueueInv'
      /\ e \in IF w = "cluster" THEN ClusterEvents ELSE ConfigEvents
      /\ e.kind \in {"addConfig", "updateConfig", "deleteConfig"}
  BY <1>1, Taken
<1> HIDE DEF e
<1>3. w # "cluster" /\ e.cfg \in Configs
  BY <1>2, EventType
<1>4. known \in Knowns
  BY TypeParts DEF Inv
<1>5. ConfigTask[e.kind] \in ConfigTaskTypes
  BY <1>2 DEF ConfigTask, ConfigTaskTypes
<1>6. GoodOperation(w, o, known')
  <2>1. CASE known = None
    BY <2>1, IdleIsGood
  <2>2. CASE known # None
    <3>1. known.def.racks \in Seq(Racks)
      BY <1>4, <2>2, KnownType
    <3>2. tasks \in Seq(ConfigTaskRecords)
      BY <1>5, <3>1, TasksType DEF ConfigTaskRecords
    <3>3. tasks \in Seq(TaskRecords)
      BY <3>2, ConfigTasksAreTasks, SeqWider
    <3> HIDE DEF tasks
    <3>4. e.cfg \in Absent(Configs)
      BY <1>3 DEF Absent
    <3>5. GoodOperation(w, Operation("next", tasks, e.cfg, None), known')
      BY <1>1, <2>2, <3>2, <3>3, <3>4, NextIsGood
    <3> QED
      BY <2>2, <3>5
  <2> QED
    BY <2>1, <2>2
<1> HIDE DEF o
<1> QED
  BY <1>1, <1>2, <1>4, <1>6, WorkerStep

LEMMA ReceiveStep ==
    ASSUME Inv, NEW w \in Workers, Receive(w) PROVE Inv'
BY ReceiveAddStep, ReceiveDeleteStep, ReceiveUpdateStep, ReceiveConfigStep DEF Receive

-----------------------------------------------------------------------------
(* The calls of an operation. *)
LEMMA OperationIsGood ==
    ASSUME Inv, NEW w \in Workers
    PROVE  op[w] \in Operations /\ GoodOperation(w, op[w], known)
<1>1. op[w] \in Operations
  BY DEF Inv, TypeOK
<1> QED
  BY <1>1 DEF Inv, GoodOperation, ConfigInv, KnownInv

(* A call that does not end the operation.  What it changes of the         *)
(* operation is not what GoodOperation says of the ConfigMap's worker.     *)
LEMMA CallStep ==
    ASSUME Inv, NEW w \in Workers, NEW o, op' = [op EXCEPT ![w] = o],
           GoodOperation(w, o, known'),
           known' \in Knowns, w = "config" => known' = known,
           ApiType', UNCHANGED <<crStore, cmStore, queue>>, budget' \in Budgets
    PROVE  Inv'
<1>1. StoreType' /\ QueueType' /\ QueueInv'
  BY TypeParts DEF Inv, StoreType, QueueType, QueueInv
<1> QED
  BY <1>1, WorkerStep

LEMMA ApiUnchanged ==
    ASSUME Inv, UNCHANGED api
    PROVE  ApiType'
BY TypeParts DEF Inv, ApiType, api

(* Going on to another call: what it needs is there. *)
LEMMA GotoIsGood ==
    ASSUME Inv, NEW w \in Workers, NEW step \in OpSteps, NEW o, NEW map,
           o = [op[w] EXCEPT !.step = step],
           Ready(o), w = "config" => step \in ConfigSteps,
           w = "cluster" /\ NeedsCluster(o) => map # None
    PROVE  GoodOperation(w, o, map)
<1>1. op[w] \in Operations /\ GoodOperation(w, op[w], known)
  BY OperationIsGood
<1>2. o \in Operations /\ o.step = step /\ o.todo = op[w].todo /\ o.def = op[w].def
  BY <1>1 DEF Operations
<1> QED
  BY <1>1, <1>2 DEF GoodOperation

LEMMA GotoChanges ==
    ASSUME Inv, NEW w \in Workers, NEW step, Goto(w, step)
    PROVE  op' = [op EXCEPT ![w] = [op[w] EXCEPT !.step = step]]
BY DEF Goto

LEMMA EndStep ==
    ASSUME Inv, NEW w \in Workers, End(w), known' \in Knowns, w = "config" => known' = known,
           ApiType', UNCHANGED <<crStore, cmStore, queue>>, budget' \in Budgets
    PROVE  Inv'
<1>1. op' = [op EXCEPT ![w] = Idle]
  BY DEF End
<1> QED
  BY <1>1, CallStep, IdleIsGood

LEMMA ConfigIsStep ==
    ASSUME Inv, NEW w \in Workers, NEW cfg \in Absent(Configs), At(w, "findConfig"), ConfigIs(w, cfg),
           UNCHANGED <<api, crStore, cmStore, known, queue>>, budget' \in Budgets
    PROVE  Inv'
<1> DEFINE step == IF op[w].def # None THEN "register" ELSE "create"
           o == [op[w] EXCEPT !.cfg = cfg, !.step = step]
<1>1. op[w] \in Operations /\ GoodOperation(w, op[w], known) /\ op[w].step = "findConfig"
  BY OperationIsGood DEF At
<1>2. OpType /\ known \in Knowns
  BY TypeParts DEF Inv
<1>3. op' = [op EXCEPT ![w] = o]
  BY <1>2 DEF ConfigIs, OpType
<1>4. step \in OpSteps
  BY DEF OpSteps
<1>5. o \in Operations /\ o.step = step /\ o.todo = op[w].todo /\ o.def = op[w].def
  BY <1>1, <1>4 DEF Operations
<1> HIDE DEF o
<1>6. w # "config"
  BY <1>1 DEF GoodOperation, ConfigSteps
<1>7. GoodOperation(w, o, known')
  BY <1>1, <1>5, <1>6 DEF GoodOperation, Ready, NeedsCluster, TaskSteps
<1>8. ApiType'
  BY ApiUnchanged
<1> QED
  BY <1>2, <1>3, <1>7, <1>8, CallStep

LEMMA FindConfigStep ==
    ASSUME Inv, NEW w \in Workers, FindConfig(w) PROVE Inv'
<1>1. cm \in Absent(Configs) /\ budget \in Budgets
  BY TypeParts DEF Inv, ApiType
<1> QED
  BY <1>1, ConfigIsStep DEF FindConfig

LEMMA RegisterStep ==
    ASSUME Inv, NEW w \in Workers, Register(w) PROVE Inv'
<1>1. /\ op[w] \in Operations /\ GoodOperation(w, op[w], known) /\ op[w].step = "register"
      /\ UNCHANGED <<api, crStore, cmStore, queue, budget>>
  BY OperationIsGood DEF At, Register
<1>2. known \in Knowns /\ budget \in Budgets
  BY TypeParts DEF Inv
<1>3. ApiType' /\ budget' \in Budgets
  BY <1>1, <1>2, ApiUnchanged
<1>4. w # "config" /\ op[w].def \in Specs
  BY <1>1 DEF GoodOperation, Ready, ConfigSteps, Operations, Absent
<1>5. CASE Valid(op[w].def)
  <2>1. known' = [def |-> Definition(op[w].def), online |-> FALSE] /\ Goto(w, "findExisting")
    BY <1>5 DEF Register
  <2>2. known' \in Knowns /\ known' # None
    BY <1>4, <2>1, NoneAssumption DEF Knowns, Absent, Defs
  <2>3. PICK o : o = [op[w] EXCEPT !.step = "findExisting"]
    OBVIOUS
  <2>4. op' = [op EXCEPT ![w] = o]
    BY <2>1, <2>3, GotoChanges
  <2>5. o.step = "findExisting" /\ "findExisting" \in OpSteps
    BY <1>1, <2>3 DEF Operations, OpSteps
  <2>6. GoodOperation(w, o, known')
    BY <1>4, <2>2, <2>3, <2>5, GotoIsGood DEF Ready, TaskSteps
  <2> QED
    BY <1>1, <1>3, <1>4, <2>2, <2>4, <2>6, CallStep
<1>6. CASE ~Valid(op[w].def)
  BY <1>1, <1>2, <1>3, <1>6, EndStep DEF Register
<1> QED
  BY <1>5, <1>6

LEMMA FindExistingStep ==
    ASSUME Inv, NEW w \in Workers, FindExisting(w) PROVE Inv'
<1>1. /\ op[w] \in Operations /\ GoodOperation(w, op[w], known) /\ op[w].step = "findExisting"
      /\ UNCHANGED <<api, crStore, cmStore, queue, budget>>
  BY OperationIsGood DEF At, FindExisting
<1>2. known \in Knowns /\ budget \in Budgets
  BY TypeParts DEF Inv
<1>3. ApiType' /\ budget' \in Budgets
  BY <1>1, <1>2, ApiUnchanged
<1>4. w # "config" /\ known # None
  BY <1>1, TwoWorkers DEF GoodOperation, NeedsCluster, ConfigSteps
<1>5. CASE service \/ \E r \in RackNames : sets[r] # None
  <2>1. known' = [known EXCEPT !.online = TRUE] /\ End(w)
    BY <1>5 DEF FindExisting
  <2>2. known' \in Knowns
    BY <1>2, <1>4, <2>1 DEF Knowns, Absent
  <2> QED
    BY <1>1, <1>3, <1>4, <2>1, <2>2, EndStep
<1>6. CASE ~(service \/ \E r \in RackNames : sets[r] # None)
  <2>1. known' = known /\ Goto(w, "createService")
    BY <1>6 DEF FindExisting
  <2>2. PICK o : o = [op[w] EXCEPT !.step = "createService"]
    OBVIOUS
  <2>3. op' = [op EXCEPT ![w] = o]
    BY <2>1, <2>2, GotoChanges
  <2>4. o.step = "createService" /\ "createService" \in OpSteps
    BY <1>1, <2>2 DEF Operations, OpSteps
  <2>5. GoodOperation(w, o, known')
    BY <1>4, <2>1, <2>2, <2>4, GotoIsGood DEF Ready, TaskSteps
  <2> QED
    BY <1>1, <1>2, <1>3, <1>4, <2>1, <2>3, <2>5, CallStep
<1> QED
  BY <1>5, <1>6

LEMMA CreateServiceStep ==
    ASSUME Inv, NEW w \in Workers, CreateService(w) PROVE Inv'
<1>1. /\ op[w] \in Operations /\ GoodOperation(w, op[w], known) /\ op[w].step = "createService"
      /\ UNCHANGED <<crStore, cmStore, queue>> /\ known' = known /\ budget' = budget
  BY OperationIsGood DEF At, CreateService
<1>2. OpType /\ known \in Knowns /\ budget \in Budgets /\ ApiType
  BY TypeParts DEF Inv
<1>3. ApiType'
  BY <1>2 DEF CreateService, ApiType
<1>4. w # "config" /\ known # None
  BY <1>1, TwoWorkers DEF GoodOperation, NeedsCluster, ConfigSteps
<1>5. CASE service
  BY <1>1, <1>2, <1>3, <1>5, EndStep DEF CreateService
<1>6. CASE ~service
  <2> DEFINE tasks == Tasks("create rack", known.def.racks, None)
             o == [op[w] EXCEPT !.step = "next", !.todo = tasks]
  <2>1. op' = [op EXCEPT ![w] = o]
    BY <1>2, <1>6 DEF CreateService, OpType
  <2>2. known.def.racks \in Seq(Racks)
    BY <1>2, <1>4, KnownType
  <2>3. "create rack" \in {"create rack"} \cup ConfigTaskTypes
    OBVIOUS
  <2> DEFINE T == [type : {"create rack"} \cup ConfigTaskTypes, rack : Racks, patch : {None}]
  <2>4. tasks \in Seq(T)
    BY <2>2, <2>3, TasksType
  <2>5. T \subseteq TaskRecords
    BY DEF TaskRecords
  <2> HIDE DEF T
  <2>6. tasks \in Seq(TaskRecords)
    BY <2>4, <2>5, SeqWider
  <2> HIDE DEF tasks
  <2>7. o \in Operations /\ o.step = "next"
    BY <1>1, <2>6 DEF Operations, OpSteps
  <2> HIDE DEF o
  <2>8. GoodOperation(w, o, known')
    BY <1>1, <1>4, <2>7 DEF GoodOperation, Ready, TaskSteps
  <2> QED
    BY <1>1, <1>2, <1>3, <2>1, <2>8, CallStep
<1> QED
  BY <1>5, <1>6

(* The task at hand, and the tasks after it, are the worker's own. *)
LEMMA TasksAtHand ==
    ASSUME Inv, NEW w \in Workers, op[w].todo # <<>>
    PROVE  /\ Task(w) = Head(op[w].todo)
           /\ Task(w) \in TaskRecords /\ Task(w).rack \in Racks /\ Task(w).rack.name \in RackNames
           /\ Task(w).type = "update rack" => Task(w).patch \in Patches
           /\ w = "config" => Task(w).type \in ConfigTaskTypes
           /\ Tail(op[w].todo) \in Seq(TaskRecords)
           /\ w = "config" => Tail(op[w].todo) \in Seq(ConfigTaskRecords)
<1>1. op[w] \in Operations /\ GoodOperation(w, op[w], known)
  BY OperationIsGood
<1>2. w = "config" => /\ Head(op[w].todo).type \in ConfigTaskTypes
                      /\ Tail(op[w].todo) \in Seq(ConfigTaskRecords)
  <2> DEFINE T == ConfigTaskRecords
  <2> SUFFICES ASSUME w = "config"
               PROVE  Head(op[w].todo).type \in ConfigTaskTypes /\ Tail(op[w].todo) \in Seq(T)
    OBVIOUS
  <2>1. op[w].todo \in Seq(T)
    BY <1>1 DEF GoodOperation
  <2> HIDE DEF T
  <2>2. Head(op[w].todo) \in T /\ Tail(op[w].todo) \in Seq(T)
    BY <2>1
  <2>3. Head(op[w].todo).type \in ConfigTaskTypes
    BY <2>2 DEF T, ConfigTaskRecords
  <2> QED
    BY <2>2, <2>3
<1> QED
  BY <1>1, <1>2, TaskType DEF Task

LEMMA NextTaskStep ==
    ASSUME Inv, NEW w \in Workers, NextTask(w) PROVE Inv'
<1>1. /\ op[w] \in Operations /\ GoodOperation(w, op[w], known) /\ op[w].step = "next"
      /\ op[w].todo # <<>>
      /\ UNCHANGED <<crStore, cmStore, queue>> /\ UNCHANGED api /\ known' = known /\ budget' = budget
  BY OperationIsGood DEF At, NextTask
<1>2. OpType /\ known \in Knowns /\ budget \in Budgets
  BY TypeParts DEF Inv
<1>3. ApiType'
  BY <1>1, ApiUnchanged
<1>4. /\ Task(w) = Head(op[w].todo)
      /\ w = "config" => Task(w).type \in ConfigTaskTypes
      /\ Tail(op[w].todo) \in Seq(TaskRecords)
      /\ w = "config" => Tail(op[w].todo) \in Seq(ConfigTaskRecords)
  BY <1>1, TasksAtHand
<1>5. w = "cluster" => known # None
  BY <1>1 DEF GoodOperation, NeedsCluster
<1>6. ASSUME NEW step \in {"create", "findConfig", "patch", "get"}, Goto(w, step),
             step = "patch" => Task(w).type \in {"update rack", "hash"},
             w = "config" => step \in ConfigSteps
      PROVE  Inv'
  <2>1. PICK o : o = [op[w] EXCEPT !.step = step]
    OBVIOUS
  <2>2. op' = [op EXCEPT ![w] = o]
    BY <1>6, <2>1, GotoChanges
  <2>3. o.step = step /\ o.todo = op[w].todo /\ o.def = op[w].def /\ step \in OpSteps
    BY <1>1, <1>6, <2>1 DEF Operations, OpSteps
  <2>4. Ready(o)
    BY <1>1, <1>4, <1>6, <2>3 DEF Ready, TaskSteps
  <2>5. GoodOperation(w, o, known')
    BY <1>1, <1>5, <1>6, <2>1, <2>3, <2>4, GotoIsGood
  <2> QED
    BY <1>1, <1>2, <1>3, <2>2, <2>5, CallStep
<1>7. CASE Task(w).type = "create rack" /\ Goto(w, "create")
  BY <1>4, <1>6, <1>7 DEF ConfigTaskTypes
<1>8. CASE Task(w).type = "add rack" /\ Goto(w, "findConfig")
  BY <1>4, <1>6, <1>8 DEF ConfigTaskTypes
<1>9. CASE Task(w).type \in {"update rack", "hash"} /\ Goto(w, "patch")
  BY <1>6, <1>9 DEF ConfigSteps
<1>10. CASE Task(w).type \in {"mount", "unmount"} /\ Goto(w, "get")
  BY <1>6, <1>10 DEF ConfigSteps
<1>11. CASE op' = [op EXCEPT ![w].todo = Tail(@)]
  <2> DEFINE o == [op[w] EXCEPT !.todo = Tail(op[w].todo)]
  <2>1. op' = [op EXCEPT ![w] = o]
    BY <1>2, <1>11 DEF OpType
  <2>2. o \in Operations /\ o.step = "next" /\ o.todo = Tail(op[w].todo) /\ o.def = op[w].def
    BY <1>1, <1>4 DEF Operations
  <2> HIDE DEF o
  <2>3. Ready(o)
    BY <2>2 DEF Ready, TaskSteps
  <2>4. GoodOperation(w, o, known')
    BY <1>1, <1>4, <1>5, <2>2, <2>3 DEF GoodOperation
  <2> QED
    BY <1>1, <1>2, <1>3, <2>1, <2>4, CallStep
<1> QED
  BY <1>7, <1>8, <1>9, <1>10, <1>11 DEF NextTask

LEMMA FinishedStep ==
    ASSUME Inv, NEW w \in Workers, Finished(w) PROVE Inv'
<1>1. /\ op[w] \in Operations /\ GoodOperation(w, op[w], known) /\ op[w].step = "next" /\ End(w)
      /\ UNCHANGED <<crStore, cmStore, queue>> /\ UNCHANGED api /\ budget' = budget
  BY OperationIsGood DEF At, Finished
<1>2. known \in Knowns /\ budget \in Budgets
  BY TypeParts DEF Inv
<1>3. ApiType'
  BY <1>1, ApiUnchanged
<1>4. w = "config" => op[w].def = None
  BY <1>1 DEF GoodOperation
<1>5. known' \in Knowns /\ (w = "config" => known' = known)
  <2>1. CASE op[w].def = None
    BY <1>2, <2>1 DEF Finished
  <2>2. CASE op[w].def # None
    <3>1. known # None
      BY <1>1, <1>4, <2>2, TwoWorkers DEF GoodOperation, NeedsCluster
    <3>2. known' = [known EXCEPT !.online = TRUE]
      BY <2>2 DEF Finished
    <3>3. known' \in Knowns
      BY <1>2, <3>1, <3>2 DEF Knowns, Absent
    <3> QED
      BY <1>4, <2>2, <3>3
  <2> QED
    BY <2>1, <2>2
<1> QED
  BY <1>1, <1>2, <1>3, <1>5, EndStep

-----------------------------------------------------------------------------
(* The three ways of writing a StatefulSet.  Each may be refused, and none *)
(* takes back a deletion.                                                  *)
Writes(w) ==
    \E set \in StatefulSets :
        /\ WriteAndWait(w, set)
        /\ sets[Task(w).rack.name] # None => set.deleting = sets[Task(w).rack.name].deleting

LEMMA CreateWrites ==
    ASSUME Inv, NEW w \in Workers, CreateSet(w)
    PROVE  w = "cluster" /\ (Writes(w) \/ (End(w) /\ sets' = sets))
<1>1. op[w] \in Operations /\ GoodOperation(w, op[w], known) /\ op[w].step = "create"
  BY OperationIsGood DEF At, CreateSet
<1>2. w = "cluster" /\ known # None /\ op[w].todo # <<>>
  BY <1>1, TwoWorkers DEF GoodOperation, Ready, NeedsCluster, TaskSteps, ConfigSteps
<1>3. Task(w).rack \in Racks
  BY <1>2, TasksAtHand
<1>4. known.def \in Defs /\ op[w].cfg \in Absent(Configs)
  BY <1>1, <1>2, TypeParts, KnownType DEF Inv, Operations
<1>5. NewStatefulSet(known.def, Task(w).rack, op[w].cfg) \in StatefulSets
  BY <1>3, <1>4, NewStatefulSetType
<1> QED
  BY <1>2, <1>5 DEF CreateSet, Writes

LEMMA PatchWrites ==
    ASSUME Inv, NEW w \in Workers, PatchSet(w)
    PROVE  (sets[Task(w).rack.name] # None /\ Writes(w)) \/ (End(w) /\ sets' = sets)
<1> DEFINE set == sets[Task(w).rack.name]
           new == IF Task(w).type = "hash" THEN WithHash(set, op[w].cfg)
                                           ELSE Patched(set, Task(w).patch)
<1>1. op[w] \in Operations /\ GoodOperation(w, op[w], known) /\ op[w].step = "patch"
  BY OperationIsGood DEF At, PatchSet
<1>2. op[w].todo # <<>> /\ Head(op[w].todo).type \in {"update rack", "hash"}
  BY <1>1 DEF GoodOperation, Ready, TaskSteps
<1>3. /\ Task(w).rack.name \in RackNames /\ Task(w).type \in {"update rack", "hash"}
      /\ Task(w).type = "update rack" => Task(w).patch \in Patches
  BY <1>2, TasksAtHand
<1>4. op[w].cfg \in Absent(Configs)
  BY <1>1 DEF Operations
<1>5. CASE set = None
  BY <1>5 DEF PatchSet
<1>6. CASE set # None
  <2>1. set \in StatefulSets
    BY <1>3, <1>6, TypeParts DEF Inv, ApiType, Absent
  <2>2. new \in StatefulSets /\ new.deleting = set.deleting
    BY <1>3, <1>4, <2>1, WithHashType, PatchedType
  <2>3. WriteAndWait(w, new)
    BY <1>6 DEF PatchSet
  <2> QED
    BY <1>6, <2>2, <2>3 DEF Writes
<1> QED
  BY <1>5, <1>6

LEMMA UpdateWrites ==
    ASSUME Inv, NEW w \in Workers, UpdateSet(w)
    PROVE  (sets[Task(w).rack.name] # None /\ Writes(w)) \/ (End(w) /\ sets' = sets)
<1> DEFINE set == sets[Task(w).rack.name]
           new == IF Task(w).type = "mount" THEN WithVolume(set, op[w].cfg) ELSE WithoutVolume(set)
<1>1. op[w] \in Operations /\ GoodOperation(w, op[w], known) /\ op[w].step = "update"
  BY OperationIsGood DEF At, UpdateSet
<1>2. op[w].todo # <<>> /\ op[w].copy # None /\ op[w].cfg \in Absent(Configs)
  BY <1>1 DEF GoodOperation, Ready, TaskSteps, Operations
<1>3. Task(w).rack.name \in RackNames
  BY <1>2, TasksAtHand
<1>4. CASE ~(set = op[w].copy /\ ~(Task(w).type = "mount" /\ set.vol))
  BY <1>4 DEF UpdateSet
<1>5. CASE set = op[w].copy /\ ~(Task(w).type = "mount" /\ set.vol)
  <2>1. set \in StatefulSets
    BY <1>2, <1>3, <1>5, TypeParts DEF Inv, ApiType, Absent
  <2>2. new \in StatefulSets /\ new.deleting = set.deleting
    BY <1>2, <2>1, WithVolumeType, WithoutVolumeType
  <2>3. WriteAndWait(w, new)
    BY <1>5 DEF UpdateSet
  <2> QED
    BY <1>2, <1>5, <2>2, <2>3 DEF Writes
<1> QED
  BY <1>4, <1>5

LEMMA WriteStep ==
    ASSUME Inv, NEW w \in Workers, CreateSet(w) \/ PatchSet(w) \/ UpdateSet(w)
    PROVE  /\ op[w].step \in {"create", "patch", "update"} /\ op[w].todo # <<>>
           /\ Task(w).rack.name \in RackNames
           /\ w = "cluster" => known # None
           /\ w = "config" => ~CreateSet(w)
           /\ UNCHANGED <<cr, cm, service, crStore, cmStore, known, queue, budget>>
           /\ Writes(w) \/ (End(w) /\ sets' = sets)
<1>1. op[w] \in Operations /\ GoodOperation(w, op[w], known)
      /\ op[w].step \in {"create", "patch", "update"}
  BY OperationIsGood DEF At, CreateSet, PatchSet, UpdateSet
<1>2. op[w].todo # <<>> /\ (w = "cluster" => known # None)
  BY <1>1 DEF GoodOperation, Ready, NeedsCluster, TaskSteps
<1>3. Task(w).rack.name \in RackNames
  BY <1>2, TasksAtHand
<1>4. UNCHANGED <<cr, cm, service, crStore, cmStore, known, queue, budget>>
  BY DEF CreateSet, PatchSet, UpdateSet
<1> QED
  BY <1>1, <1>2, <1>3, <1>4, CreateWrites, PatchWrites, UpdateWrites

LEMMA WriteChanges ==
    ASSUME Inv, NEW w \in Workers, op[w].todo # <<>>, NEW set \in StatefulSets, WriteAndWait(w, set)
    PROVE  /\ sets' = [sets EXCEPT ![Task(w).rack.name] = set]
           /\ op'[w] \in Operations /\ op'[w].step = "wait" /\ op'[w].gen = set.gen
           /\ op'[w].todo = op[w].todo /\ op'[w].def = op[w].def
           /\ op' = [op EXCEPT ![w] = op'[w]]
<1> DEFINE o == [op[w] EXCEPT !.step = "wait", !.gen = set.gen, !.copy = None]
<1>1. op[w] \in Operations /\ OpType
  BY OperationIsGood, TypeParts DEF Inv
<1>2. op' = [op EXCEPT ![w] = o] /\ sets' = [sets EXCEPT ![Task(w).rack.name] = set]
  BY <1>1 DEF WriteAndWait, OpType
<1>3. set.gen \in Nat /\ "wait" \in OpSteps /\ None \in Absent(StatefulSets)
  BY DEF StatefulSets, OpSteps, Absent
<1>4. /\ o \in Operations /\ o.step = "wait" /\ o.gen = set.gen /\ o.todo = op[w].todo
      /\ o.def = op[w].def
  BY <1>1, <1>3 DEF Operations
<1> HIDE DEF o
<1>5. op'[w] = o
  BY <1>1, <1>2 DEF OpType
<1> QED
  BY <1>2, <1>4, <1>5

LEMMA WriteKeepsInv ==
    ASSUME Inv, NEW w \in Workers, CreateSet(w) \/ PatchSet(w) \/ UpdateSet(w)
    PROVE  Inv'
<1>1. /\ op[w].step \in {"create", "patch", "update"} /\ op[w].todo # <<>>
      /\ Task(w).rack.name \in RackNames
      /\ w = "cluster" => known # None
      /\ UNCHANGED <<cr, cm, service, crStore, cmStore, known, queue, budget>>
      /\ Writes(w) \/ (End(w) /\ sets' = sets)
  BY WriteStep
<1>2. ApiType /\ known' \in Knowns /\ budget' \in Budgets
  BY <1>1, TypeParts DEF Inv
<1>3. CASE End(w) /\ sets' = sets
  <2>1. ApiType'
    BY <1>1, <1>2, <1>3 DEF ApiType
  <2> QED
    BY <1>1, <1>2, <1>3, <2>1, EndStep
<1>4. CASE Writes(w)
  <2>1. PICK set \in StatefulSets : WriteAndWait(w, set)
    BY <1>4 DEF Writes
  <2>2. /\ sets' = [sets EXCEPT ![Task(w).rack.name] = set]
        /\ op'[w] \in Operations /\ op'[w].step = "wait"
        /\ op'[w].todo = op[w].todo /\ op'[w].def = op[w].def
        /\ op' = [op EXCEPT ![w] = op'[w]]
    BY <1>1, <2>1, WriteChanges
  <2>3. ApiType'
    BY <1>1, <1>2, <2>2 DEF ApiType, Absent
  <2>4. PICK o : o = op'[w]
    OBVIOUS
  <2>5. GoodOperation(w, op[w], known)
    BY OperationIsGood
  <2>6. Ready(o)
    BY <1>1, <2>2, <2>4 DEF Ready, TaskSteps
  <2>7. GoodOperation(w, o, known')
    BY <1>1, <2>2, <2>4, <2>5, <2>6 DEF GoodOperation, ConfigSteps
  <2>8. op' = [op EXCEPT ![w] = o]
    BY <2>2, <2>4
  <2> QED
    BY <1>1, <1>2, <2>3, <2>7, <2>8, CallStep
<1> QED
  BY <1>1, <1>3, <1>4

LEMMA GetSetStep ==
    ASSUME Inv, NEW w \in Workers, GetSet(w) PROVE Inv'
<1>1. /\ op[w] \in Operations /\ GoodOperation(w, op[w], known) /\ op[w].step = "get"
      /\ UNCHANGED <<crStore, cmStore, queue>> /\ UNCHANGED api /\ known' = known /\ budget' = budget
  BY OperationIsGood DEF At, GetSet
<1>2. OpType /\ known \in Knowns /\ budget \in Budgets
  BY TypeParts DEF Inv
<1>3. ApiType'
  BY <1>1, ApiUnchanged
<1>4. op[w].todo # <<>> /\ (w = "cluster" => known # None)
  BY <1>1 DEF GoodOperation, Ready, NeedsCluster, TaskSteps
<1>5. Task(w).rack.name \in RackNames
  BY <1>4, TasksAtHand
<1> DEFINE set == sets[Task(w).rack.name]
<1>6. CASE set = None
  BY <1>1, <1>2, <1>3, <1>6, EndStep DEF GetSet
<1>7. CASE set # None
  <2> DEFINE o == [op[w] EXCEPT !.step = "update", !.copy = set]
  <2>1. op' = [op EXCEPT ![w] = o]
    BY <1>2, <1>7 DEF GetSet, OpType
  <2>2. set \in Absent(StatefulSets)
    BY <1>5, TypeParts DEF Inv, ApiType
  <2>3. "update" \in OpSteps
    BY DEF OpSteps
  <2> HIDE DEF set
  <2>4. /\ o \in Operations /\ o.step = "update" /\ o.todo = op[w].todo /\ o.def = op[w].def
        /\ o.copy = set
    BY <1>1, <2>2, <2>3 DEF Operations
  <2> HIDE DEF o
  <2>5. Ready(o)
    BY <1>4, <1>7, <2>4 DEF Ready, TaskSteps
  <2>6. GoodOperation(w, o, known')
    BY <1>1, <1>4, <2>4, <2>5 DEF GoodOperation, ConfigSteps
  <2> QED
    BY <1>1, <1>2, <1>3, <2>1, <2>6, CallStep
<1> QED
  BY <1>6, <1>7

(* The end of a task, and the end of a wait without the rack. *)
LEMMA TaskDoneStep ==
    ASSUME Inv, NEW w \in Workers, At(w, "wait"), TaskDone(w),
           UNCHANGED <<api, crStore, cmStore, known, queue>>, budget' \in Budgets
    PROVE  Inv'
<1> DEFINE o == [op[w] EXCEPT !.step = "next", !.todo = Tail(op[w].todo), !.gen = 0]
<1>1. op[w] \in Operations /\ GoodOperation(w, op[w], known) /\ op[w].step = "wait"
  BY OperationIsGood DEF At
<1>2. OpType /\ known \in Knowns
  BY TypeParts DEF Inv
<1>3. op[w].todo # <<>> /\ (w = "cluster" => known # None)
  BY <1>1 DEF GoodOperation, Ready, NeedsCluster, TaskSteps
<1>4. /\ Tail(op[w].todo) \in Seq(TaskRecords)
      /\ w = "config" => Tail(op[w].todo) \in Seq(ConfigTaskRecords)
  BY <1>3, TasksAtHand
<1>5. op' = [op EXCEPT ![w] = o]
  BY <1>2 DEF TaskDone, OpType
<1>6. o \in Operations /\ o.step = "next" /\ o.todo = Tail(op[w].todo) /\ o.def = op[w].def
  BY <1>1, <1>4 DEF Operations, OpSteps
<1> HIDE DEF o
<1>7. Ready(o)
  BY <1>6 DEF Ready, TaskSteps
<1>8. GoodOperation(w, o, known')
  BY <1>1, <1>3, <1>4, <1>6, <1>7 DEF GoodOperation, ConfigSteps
<1>9. ApiType'
  BY ApiUnchanged
<1> QED
  BY <1>2, <1>5, <1>8, <1>9, CallStep

LEMMA WaitAbortedStep ==
    ASSUME Inv, NEW w \in Workers, At(w, "wait"), WaitAborted(w),
           UNCHANGED <<api, crStore, cmStore, known, queue>>, budget' \in Budgets
    PROVE  Inv'
<1>1. CASE TaskDone(w)
  BY <1>1, TaskDoneStep
<1>2. CASE End(w)
  <2>1. known' \in Knowns /\ ApiType' /\ known' = known
    BY TypeParts, ApiUnchanged DEF Inv
  <2> QED
    BY <1>2, <2>1, EndStep
<1> QED
  BY <1>1, <1>2 DEF WaitAborted

LEMMA WaitStep ==
    ASSUME Inv, NEW w \in Workers, WaitSucceeds(w) \/ WaitFails(w) PROVE Inv'
<1>1. budget \in Budgets
  BY TypeParts DEF Inv
<1>2. CASE WaitSucceeds(w)
  BY <1>1, <1>2, TaskDoneStep DEF WaitSucceeds
<1>3. CASE WaitFails(w)
  BY <1>1, <1>3, WaitAbortedStep DEF WaitFails
<1> QED
  BY <1>2, <1>3

LEMMA DeleteStep ==
    ASSUME Inv, NEW w \in Workers, DeleteSets(w) \/ DeleteService(w) PROVE Inv'
<1>1. ApiType /\ known \in Knowns /\ budget \in Budgets
  BY TypeParts DEF Inv
<1>2. /\ UNCHANGED <<crStore, cmStore, queue>> /\ known' = known /\ budget' = budget
      /\ cr' = cr /\ cm' = cm
  BY DEF DeleteSets, DeleteService
<1>3. CASE DeleteSets(w)
  <2>1. /\ op[w] \in Operations /\ GoodOperation(w, op[w], known) /\ op[w].step = "deleteSets"
    BY <1>3, OperationIsGood DEF At, DeleteSets
  <2>2. \A set \in StatefulSets : [set EXCEPT !.deleting = TRUE] \in StatefulSets
    BY DEF StatefulSets
  <2>3. sets' \in [RackNames -> Absent(StatefulSets)]
    BY <1>1, <1>3, <2>2 DEF DeleteSets, ApiType, Absent
  <2>4. ApiType'
    BY <1>1, <1>2, <1>3, <2>3 DEF DeleteSets, ApiType
  <2>5. PICK o : o = [op[w] EXCEPT !.step = "deleteService"]
    OBVIOUS
  <2>6. op' = [op EXCEPT ![w] = o]
    BY <1>3, <2>5, GotoChanges DEF DeleteSets
  <2>7. o.step = "deleteService" /\ "deleteService" \in OpSteps
    BY <2>1, <2>5 DEF Operations, OpSteps
  <2>8. w # "config"
    BY <2>1 DEF GoodOperation, ConfigSteps
  <2>9. GoodOperation(w, o, known')
    BY <2>5, <2>7, <2>8, GotoIsGood DEF Ready, NeedsCluster, TaskSteps
  <2> QED
    BY <1>1, <1>2, <2>4, <2>6, <2>9, CallStep
<1>4. CASE DeleteService(w)
  <2>1. ApiType' /\ End(w)
    BY <1>1, <1>4 DEF DeleteService, ApiType
  <2> QED
    BY <1>1, <1>2, <2>1, EndStep
<1> QED
  BY <1>3, <1>4

LEMMA ExecuteStep ==
    ASSUME Inv, NEW w \in Workers, Execute(w) PROVE Inv'
BY FindConfigStep, RegisterStep, FindExistingStep, CreateServiceStep, NextTaskStep,
   FinishedStep, WriteKeepsInv, GetSetStep, WaitStep, DeleteStep
   DEF Execute

LEMMA CallFailsStep ==
    ASSUME Inv, NEW w \in Workers, CallFails(w) PROVE Inv'
<1>1. /\ UNCHANGED <<api, crStore, cmStore, known, queue>> /\ budget.errors > 0
      /\ budget' = [budget EXCEPT !.errors = @ - 1]
  BY DEF CallFails
<1>2. op[w] \in Operations /\ GoodOperation(w, op[w], known) /\ known \in Knowns
  BY OperationIsGood, TypeParts DEF Inv
<1>3. budget' \in Budgets
  BY <1>1, BudgetSpent, TypeParts DEF Inv
<1>4. ApiType' /\ known' = known
  BY <1>1, ApiUnchanged
<1>5. CASE At(w, "findConfig") /\ ConfigIs(w, None)
  <2>1. None \in Absent(Configs)
    BY DEF Absent
  <2> QED
    BY <1>1, <1>3, <1>5, <2>1, ConfigIsStep
<1>6. ASSUME NEW step \in {"createService", "deleteService"}, Goto(w, step),
             op[w].step \in {"findExisting", "deleteSets"},
             step = "createService" => op[w].step = "findExisting"
      PROVE  Inv'
  <2>1. PICK o : o = [op[w] EXCEPT !.step = step]
    OBVIOUS
  <2>2. op' = [op EXCEPT ![w] = o]
    BY <1>6, <2>1, GotoChanges
  <2>3. o.step = step /\ step \in OpSteps
    BY <1>2, <1>6, <2>1 DEF Operations, OpSteps
  <2>4. w # "config" /\ (step = "createService" => known # None)
    BY <1>2, <1>6, TwoWorkers DEF GoodOperation, NeedsCluster, ConfigSteps
  <2>5. Ready(o) /\ (NeedsCluster(o) => known' # None)
    BY <1>4, <1>6, <2>3, <2>4 DEF Ready, NeedsCluster, TaskSteps
  <2>6. GoodOperation(w, o, known')
    BY <2>1, <2>3, <2>4, <2>5, GotoIsGood
  <2> QED
    BY <1>1, <1>2, <1>3, <1>4, <2>2, <2>6, CallStep
<1>7. CASE At(w, "findExisting") /\ Goto(w, "createService")
  BY <1>6, <1>7 DEF At
<1>8. CASE At(w, "deleteSets") /\ Goto(w, "deleteService")
  BY <1>6, <1>8 DEF At
<1>9. CASE At(w, "wait") /\ WaitAborted(w)
  BY <1>1, <1>3, <1>9, WaitAbortedStep
<1>10. CASE End(w)
  BY <1>1, <1>2, <1>3, <1>4, <1>10, EndStep
<1> QED
  BY <1>5, <1>7, <1>8, <1>9, <1>10 DEF CallFails

LEMMA CrashStep ==
    ASSUME Inv, CrashRestart PROVE Inv'
<1>1. /\ crStore' = None /\ cmStore' = None /\ known' = None
      /\ queue' = [w \in Workers |-> <<>>] /\ op' = [w \in Workers |-> Idle]
      /\ UNCHANGED api /\ budget.crashes > 0
      /\ budget' = [budget EXCEPT !.crashes = @ - 1]
  BY DEF CrashRestart
<1>2. ApiType' /\ StoreType' /\ known' \in Knowns
  BY <1>1, ApiUnchanged DEF StoreType, Knowns, Absent
<1>3. budget' \in Budgets
  BY <1>1, BudgetSpent, TypeParts DEF Inv
<1>4. op'["cluster"] = Idle /\ op'["config"] = Idle /\ queue'["cluster"] = <<>> /\ queue'["config"] = <<>>
  BY <1>1, TwoWorkers
<1>5. QueueType' /\ QueueInv'
  <2>1. <<>> \in Seq(Events) /\ <<>> \in Seq(ClusterEvents) /\ <<>> \in Seq(ConfigEvents)
    OBVIOUS
  <2>2. QueueType'
    BY <1>1, <2>1 DEF QueueType
  <2> QED
    BY <1>4, <2>1, <2>2 DEF QueueInv
<1>6. OpType'
  BY <1>1, IdleType DEF OpType
<1>7. TypeOK'
  BY <1>2, <1>3, <1>5, <1>6 DEF TypeOK, ApiType, StoreType, QueueType, OpType, Events, Knowns, Budgets
<1>8. ConfigInv'
  <2>1. <<>> \in Seq(ConfigTaskRecords)
    OBVIOUS
  <2> QED
    BY <1>4, <2>1, IdleType DEF ConfigInv, ConfigSteps
<1>9. Ready(Idle) /\ ~NeedsCluster(Idle)
  BY IdleType DEF Ready, NeedsCluster, TaskSteps
<1> QED
  BY <1>4, <1>5, <1>7, <1>8, <1>9, TwoWorkers DEF Inv, KnownInv

LEMMA InvStep == Inv /\ [Next]_vars => Inv'
<1> SUFFICES ASSUME Inv, [Next]_vars PROVE Inv'
  OBVIOUS
<1>1. CASE UNCHANGED vars
  <2>1. ApiType' /\ UNCHANGED operator /\ budget' \in Budgets
    BY <1>1, ApiUnchanged, TypeParts DEF vars, api, operator, Inv
  <2> QED
    BY <2>1, OutsideStep
<1>2. ASSUME NEW r \in RackNames, Observe(r) \/ RolloutCompletes(r) \/ Removed(r) PROVE Inv'
  BY <1>2, ControllerStep
<1>3. ASSUME NEW w \in Workers, Receive(w) \/ Execute(w) \/ CallFails(w) PROVE Inv'
  BY <1>3, ReceiveStep, ExecuteStep, CallFailsStep
<1> QED
  BY <1>1, <1>2, <1>3, UserStep, InformerStep, CrashStep DEF Next

(* The state keeps its shape whatever users, failures and crashes do: each *)
(* worker has a task when it makes a call about a rack, a definition when  *)
(* it registers a cluster, and the cluster in the map as long as it needs  *)
(* it, although deletions take it out.                                     *)
THEOREM InvHolds == Spec => []Inv
<1>1. Init => Inv
  BY InitInv
<1>2. Inv /\ [Next]_vars => Inv'
  BY InvStep
<1> QED
  BY <1>1, <1>2, PTL DEF Spec

(* Every variable keeps its type; a task that updates a rack always has    *)
(* the patch to send, and one for a ConfigMap never has.                   *)
THEOREM TypeCorrect == Spec => []TypeOK
<1>1. Inv => TypeOK
  BY DEF Inv
<1> QED
  BY <1>1, InvHolds, PTL

-----------------------------------------------------------------------------
(* RolloutsAwaited.  A rack that is being rolled out has a worker that     *)
(* waits for exactly the generation written last: the worker that wrote it. *)

(* A step that leaves the StatefulSets alone, and changes at most the      *)
(* operation of a worker that no unsettled rack relies on.                 *)
LEMMA NobodyStopsWaiting ==
    ASSUME Awaited, NEW w \in Workers, sets' = sets, budget' = budget,
           \A v \in Workers : v # w => op'[v] = op[v],
           \A r \in RackNames : AwaitedBy(w, r) => ~Unsettled(r)
    PROVE  Awaited'
<1> SUFFICES ASSUME NoFailures', NEW r \in RackNames, Unsettled(r)'
             PROVE  \E v \in Workers : AwaitedBy(v, r)'
  BY DEF Awaited
<1>1. NoFailures /\ Unsettled(r)
  BY DEF NoFailures, Unsettled
<1>2. PICK v \in Workers : AwaitedBy(v, r)
  BY <1>1 DEF Awaited
<1>3. v # w
  BY <1>1, <1>2
<1>4. op'[v] = op[v]
  BY <1>3
<1>5. AwaitedBy(v, r)'
  BY <1>2, <1>4 DEF AwaitedBy, Awaits, At, Task
<1> QED
  BY <1>5

LEMMA FailureEndsIt ==
    ASSUME Inv, NEW w \in Workers, CallFails(w) \/ CrashRestart
    PROVE  ~NoFailures'
<1>1. budget \in Budgets
  BY TypeParts DEF Inv
<1>2. MaxEdits \in Nat /\ MaxCrashes \in Nat /\ MaxErrors \in Nat
  BY CassandraClusterAssumption
<1>3. CASE CallFails(w)
  BY <1>1, <1>2, <1>3 DEF CallFails, NoFailures, Budgets
<1>4. CASE CrashRestart
  BY <1>1, <1>2, <1>4 DEF CrashRestart, NoFailures, Budgets
<1> QED
  BY <1>3, <1>4

LEMMA ControllerAwaited ==
    ASSUME Inv, Awaited, NEW n \in RackNames, Observe(n) \/ RolloutCompletes(n) \/ Removed(n)
    PROVE  Awaited'
<1>1. sets \in [RackNames -> Absent(StatefulSets)]
  BY TypeParts DEF Inv, ApiType
<1>2. op' = op /\ budget' = budget
  BY DEF Observe, RolloutCompletes, Removed, operator
<1>3. \A r \in RackNames : r # n => sets'[r] = sets[r]
  BY <1>1 DEF Observe, RolloutCompletes, Removed
<1>4. Unsettled(n)' => Unsettled(n) /\ sets'[n].gen = sets[n].gen
  <2>1. CASE Removed(n)
    BY <1>1, <2>1 DEF Removed, Unsettled
  <2>2. CASE Observe(n)
    <3>1. sets[n] \in StatefulSets
      BY <1>1, <2>2 DEF Observe, Absent
    <3>2. sets'[n] = [sets[n] EXCEPT !.obs = sets[n].gen, !.rolled = FALSE]
      BY <1>1, <2>2 DEF Observe
    <3>3. sets'[n].gen = sets[n].gen
      BY <3>1, <3>2 DEF StatefulSets
    <3> QED
      BY <2>2, <3>3 DEF Observe, Unsettled
  <2>3. CASE RolloutCompletes(n)
    <3>1. sets[n] \in StatefulSets
      BY <1>1, <2>3 DEF RolloutCompletes, Absent
    <3>2. sets'[n] = [sets[n] EXCEPT !.rolled = TRUE]
      BY <1>1, <2>3 DEF RolloutCompletes
    <3>3. sets'[n].gen = sets[n].gen
      BY <3>1, <3>2 DEF StatefulSets
    <3> QED
      BY <2>3, <3>3 DEF RolloutCompletes, Unsettled
  <2> QED
    BY <2>1, <2>2, <2>3
<1> SUFFICES ASSUME NoFailures', NEW r \in RackNames, Unsettled(r)'
             PROVE  \E v \in Workers : AwaitedBy(v, r)'
  BY DEF Awaited
<1>5. NoFailures /\ Unsettled(r) /\ sets'[r].gen = sets[r].gen
  BY <1>2, <1>3, <1>4 DEF NoFailures, Unsettled
<1>6. PICK v \in Workers : AwaitedBy(v, r)
  BY <1>5 DEF Awaited
<1>7. AwaitedBy(v, r)'
  BY <1>2, <1>5, <1>6 DEF AwaitedBy, Awaits, At, Task
<1> QED
  BY <1>7

LEMMA WriteAwaited ==
    ASSUME Inv, Awaited, NEW w \in Workers, CreateSet(w) \/ PatchSet(w) \/ UpdateSet(w)
    PROVE  Awaited'
<1>1. /\ op[w].step \in {"create", "patch", "update"} /\ op[w].todo # <<>>
      /\ Task(w).rack.name \in RackNames /\ budget' = budget
      /\ Writes(w) \/ (End(w) /\ sets' = sets)
  BY WriteStep
<1>2. OpType /\ sets \in [RackNames -> Absent(StatefulSets)]
  BY TypeParts DEF Inv, ApiType
<1>3. CASE End(w) /\ sets' = sets
  <2>1. \A v \in Workers : v # w => op'[v] = op[v]
    BY <1>2, <1>3, OpChanges DEF End
  <2>2. \A r \in RackNames : ~AwaitedBy(w, r)
    BY <1>1 DEF AwaitedBy, Awaits, At
  <2> QED
    BY <1>1, <1>3, <2>1, <2>2, NobodyStopsWaiting
<1>4. CASE Writes(w)
  <2>1. PICK set \in StatefulSets : WriteAndWait(w, set)
    BY <1>4 DEF Writes
  <2> DEFINE n == Task(w).rack.name
  <2>2. /\ sets' = [sets EXCEPT ![n] = set]
        /\ op'[w].step = "wait" /\ op'[w].gen = set.gen /\ op'[w].todo = op[w].todo
        /\ op' = [op EXCEPT ![w] = op'[w]]
    BY <1>1, <2>1, WriteChanges
  <2>3. PICK o : o = op'[w]
    OBVIOUS
  <2>4. \A v \in Workers : v # w => op'[v] = op[v]
    BY <1>2, <2>2, <2>3, OpChanges
  <2> SUFFICES ASSUME NoFailures', NEW r \in RackNames, Unsettled(r)'
               PROVE  \E v \in Workers : AwaitedBy(v, r)'
    BY DEF Awaited
  <2>5. CASE r = n
    <3>1. sets'[r] = set
      BY <1>1, <1>2, <2>2, <2>5
    <3>2. Awaits(w, r)'
      BY <2>2, <2>5 DEF Awaits, At, Task
    <3> QED
      BY <2>2, <3>1, <3>2 DEF AwaitedBy
  <2>6. CASE r # n
    <3>1. sets'[r] = sets[r]
      BY <1>1, <1>2, <2>2, <2>6
    <3>2. NoFailures /\ Unsettled(r)
      BY <1>1, <3>1 DEF NoFailures, Unsettled
    <3>3. PICK v \in Workers : AwaitedBy(v, r)
      BY <3>2 DEF Awaited
    <3>4. v # w
      BY <1>1, <3>3 DEF AwaitedBy, Awaits, At
    <3>5. op'[v] = op[v]
      BY <2>4, <3>4
    <3>6. AwaitedBy(v, r)'
      BY <3>1, <3>3, <3>5 DEF AwaitedBy, Awaits, At, Task
    <3> QED
      BY <3>6
  <2> QED
    BY <2>5, <2>6
<1> QED
  BY <1>1, <1>3, <1>4

(* A worker changes its own operation only. *)
LEMMA OthersKept ==
    ASSUME Inv, NEW w \in Workers, Receive(w) \/ Execute(w)
    PROVE  \A v \in Workers : v # w => op'[v] = op[v]
<1>1. op \in [Workers -> Operations]
  BY DEF Inv, TypeOK
<1>2. CASE Receive(w)
  BY <1>1, <1>2 DEF Receive, ReceiveAdd, ReceiveDelete, ReceiveUpdate, ReceiveConfig, Start
<1>3. CASE FindConfig(w) \/ Register(w) \/ FindExisting(w) \/ CreateService(w)
  BY <1>1, <1>3 DEF FindConfig, ConfigIs, Register, FindExisting, CreateService, Goto, End
<1>4. CASE NextTask(w) \/ Finished(w)
  BY <1>1, <1>4 DEF NextTask, Finished, Goto, End
<1>5. CASE CreateSet(w) \/ PatchSet(w) \/ GetSet(w) \/ UpdateSet(w)
  BY <1>1, <1>5 DEF CreateSet, PatchSet, GetSet, UpdateSet, WriteAndWait, End
<1>6. CASE WaitSucceeds(w) \/ WaitFails(w) \/ DeleteSets(w) \/ DeleteService(w)
  BY <1>1, <1>6 DEF WaitSucceeds, WaitFails, WaitAborted, TaskDone, DeleteSets, DeleteService,
                    Goto, End
<1> QED
  BY <1>2, <1>3, <1>4, <1>5, <1>6 DEF Execute

LEMMA DeleteAwaited ==
    ASSUME Inv, Awaited, NEW w \in Workers, DeleteSets(w)
    PROVE  Awaited'
<1>1. sets \in [RackNames -> Absent(StatefulSets)]
  BY TypeParts DEF Inv, ApiType
<1>2. \A r \in RackNames : sets'[r] = None \/ sets'[r].deleting
  <2> SUFFICES ASSUME NEW r \in RackNames, sets[r] # None PROVE sets'[r].deleting
    BY DEF DeleteSets
  <2>1. sets[r] \in StatefulSets
    BY <1>1 DEF Absent
  <2>2. sets'[r] = [sets[r] EXCEPT !.deleting = TRUE]
    BY DEF DeleteSets
  <2> QED
    BY <2>1, <2>2 DEF StatefulSets
<1> QED
  BY <1>2 DEF Awaited, Unsettled

LEMMA InitAwaited == Init => Awaited
BY DEF Init, Awaited, Unsettled

LEMMA AwaitedStep == Inv /\ Awaited /\ [Next]_vars => Awaited'
<1> SUFFICES ASSUME Inv, Awaited, [Next]_vars PROVE Awaited'
  OBVIOUS
<1>1. ASSUME sets' = sets, op' = op, budget'.crashes = budget.crashes, budget'.errors = budget.errors
      PROVE  Awaited'
  BY <1>1 DEF Awaited, AwaitedBy, Awaits, At, Task, Unsettled, NoFailures
<1>2. CASE UNCHANGED vars
  BY <1>1, <1>2 DEF vars
<1>3. CASE User
  <2>1. sets' = sets /\ op' = op
    BY <1>3 DEF User, EditCluster, DeleteCluster, EditConfig, operator
  <2>2. budget' = [budget EXCEPT !.edits = @ - 1] /\ budget \in Budgets
    BY <1>3, TypeParts DEF User, EditCluster, DeleteCluster, EditConfig, UserMay, Inv
  <2>3. budget'.crashes = budget.crashes /\ budget'.errors = budget.errors
    BY <2>2 DEF Budgets
  <2> QED
    BY <1>1, <2>1, <2>3
<1>4. ASSUME NEW r \in RackNames, Observe(r) \/ RolloutCompletes(r) \/ Removed(r) PROVE Awaited'
  BY <1>4, ControllerAwaited
<1>5. CASE CassandraInformer \/ ConfigMapInformer
  BY <1>1, <1>5 DEF CassandraInformer, ConfigMapInformer, api
<1>6. CASE CrashRestart
  BY <1>6, FailureEndsIt, TwoWorkers DEF Awaited
<1>7. ASSUME NEW w \in Workers, CallFails(w) PROVE Awaited'
  BY <1>7, FailureEndsIt DEF Awaited
<1>8. ASSUME NEW w \in Workers, Receive(w) PROVE Awaited'
  <2>1. \A v \in Workers : v # w => op'[v] = op[v]
    BY <1>8, OthersKept
  <2>2. op[w] = Idle /\ sets' = sets /\ budget' = budget
    BY <1>8 DEF Receive, ReceiveAdd, ReceiveDelete, ReceiveUpdate, ReceiveConfig, Takes, api
  <2>3. \A r \in RackNames : ~AwaitedBy(w, r)
    BY <2>2, IdleType DEF AwaitedBy, Awaits, At
  <2> QED
    BY <2>1, <2>2, <2>3, NobodyStopsWaiting
<1>9. ASSUME NEW w \in Workers, Execute(w) PROVE Awaited'
  <2>1. \A v \in Workers : v # w => op'[v] = op[v]
    BY <1>9, OthersKept
  <2>2. CASE CreateSet(w) \/ PatchSet(w) \/ UpdateSet(w)
    BY <2>2, WriteAwaited
  <2>3. CASE DeleteSets(w)
    BY <2>3, DeleteAwaited
  <2>4. CASE FindConfig(w) \/ Register(w) \/ FindExisting(w) \/ CreateService(w) \/ NextTask(w)
             \/ Finished(w) \/ GetSet(w) \/ DeleteService(w)
    <3>1. op[w].step # "wait" /\ sets' = sets /\ budget' = budget
      BY <2>4 DEF FindConfig, Register, FindExisting, CreateService, NextTask, Finished, GetSet,
                  DeleteService, At, api
    <3>2. \A r \in RackNames : ~AwaitedBy(w, r)
      BY <3>1 DEF AwaitedBy, Awaits, At
    <3> QED
      BY <2>1, <3>1, <3>2, NobodyStopsWaiting
  <2>5. CASE WaitFails(w)
    <3>1. sets[Task(w).rack.name] = None /\ sets' = sets /\ budget' = budget
      BY <2>5 DEF WaitFails, api
    <3>2. \A r \in RackNames : AwaitedBy(w, r) => ~Unsettled(r)
      BY <3>1 DEF AwaitedBy, Awaits, Unsettled
    <3> QED
      BY <2>1, <3>1, <3>2, NobodyStopsWaiting
  <2>6. CASE WaitSucceeds(w)
    <3>1. /\ sets[Task(w).rack.name] # None /\ sets' = sets /\ budget' = budget
          /\ ChangeApplied(w, sets[Task(w).rack.name])
      BY <2>6 DEF WaitSucceeds, api
    <3>2. \A r \in RackNames : AwaitedBy(w, r) => ~Unsettled(r)
      <4> SUFFICES ASSUME NEW r \in RackNames, AwaitedBy(w, r) PROVE ~Unsettled(r)
        OBVIOUS
      <4>1. sets[r] # None /\ sets[r].obs >= sets[r].gen /\ sets[r].rolled
        BY <3>1 DEF AwaitedBy, Awaits, ChangeApplied
      <4>2. sets[r] \in StatefulSets
        BY <4>1, TypeParts DEF Inv, ApiType, Absent
      <4>3. sets[r].obs \in Nat /\ sets[r].gen \in Nat
        BY <4>2 DEF StatefulSets
      <4> QED
        BY <4>1, <4>3 DEF Unsettled
    <3> QED
      BY <2>1, <3>1, <3>2, NobodyStopsWaiting
  <2> QED
    BY <1>9, <2>2, <2>3, <2>4, <2>5, <2>6 DEF Execute
<1> QED
  BY <1>2, <1>3, <1>4, <1>5, <1>6, <1>7, <1>8, <1>9 DEF Next

(* As long as no call fails and the operator does not crash, every rack    *)
(* that is being rolled out is waited for.                                 *)
THEOREM EveryRolloutAwaited == Spec => []RolloutsAwaited
<1>1. Init => Awaited
  BY InitAwaited
<1>2. Inv /\ Awaited /\ [Next]_vars => Awaited'
  BY AwaitedStep
<1>3. Awaited => RolloutsAwaited
  BY DEF Awaited, RolloutsAwaited, AwaitedBy
<1> QED
  BY <1>1, <1>2, <1>3, InvHolds, PTL DEF Spec

-----------------------------------------------------------------------------
(* DeletedLeavesNothing. *)

(* Steps that only see to the StatefulSets of a cluster that is there. *)
LEMMA SetsOnly ==
    ASSUME Deletions, NoFailures' => NoFailures,
           UNCHANGED <<crStore, known, service>>,
           queue'["cluster"] = queue["cluster"], op'["cluster"] = op["cluster"],
           \A r \in RackNames : sets[r] = None \/ sets[r].deleting
                                => sets'[r] = None \/ sets'[r].deleting
    PROVE  Deletions'
<1> SUFFICES ASSUME NoFailures' PROVE DeletionComes' /\ NothingLeft'
  BY DEF Deletions
<1>1. DeletionComes /\ NothingLeft
  BY DEF Deletions
<1>2. DeletionComes'
  BY <1>1 DEF DeletionComes
<1>3. NothingLeft'
  BY <1>1 DEF NothingLeft
<1> QED
  BY <1>2, <1>3

(* Steps of an operation on a cluster that is in the map. *)
LEMMA WithCluster ==
    ASSUME Deletions, NoFailures' => NoFailures, ~Going(op["cluster"].step), known' # None,
           UNCHANGED <<crStore, queue>>
    PROVE  Deletions'
<1> SUFFICES ASSUME NoFailures' PROVE DeletionComes' /\ NothingLeft'
  BY DEF Deletions
<1>1. DeletionComes
  BY DEF Deletions
<1>2. DeletionComes'
  BY <1>1 DEF DeletionComes
<1> QED
  BY <1>2 DEF NothingLeft

(* An event that is taken is the last one only if it is the deletion. *)
LEMMA LastStays ==
    ASSUME NEW S, NEW events \in Seq(S), events # <<>>
    PROVE  /\ Tail(events) = <<>> => events[Len(events)] = Head(events)
           /\ Tail(events) # <<>> => Tail(events)[Len(Tail(events))] = events[Len(events)]
OBVIOUS

LEMMA ControllerDeletions ==
    ASSUME Inv, Deletions, NEW n \in RackNames, Observe(n) \/ RolloutCompletes(n) \/ Removed(n)
    PROVE  Deletions'
<1>1. sets \in [RackNames -> Absent(StatefulSets)]
  BY TypeParts DEF Inv, ApiType
<1>2. /\ op' = op /\ budget' = budget /\ queue' = queue
      /\ UNCHANGED <<crStore, known, service>>
  BY DEF Observe, RolloutCompletes, Removed, operator
<1>3. \A r \in RackNames : r # n => sets'[r] = sets[r]
  BY <1>1 DEF Observe, RolloutCompletes, Removed
<1>4. sets[n] = None \/ sets[n].deleting => sets'[n] = None \/ sets'[n].deleting
  BY <1>1 DEF Observe, RolloutCompletes, Removed
<1>5. NoFailures' => NoFailures
  BY <1>2 DEF NoFailures
<1>6. \A r \in RackNames : sets[r] = None \/ sets[r].deleting
                           => sets'[r] = None \/ sets'[r].deleting
  BY <1>3, <1>4
<1> QED
  BY <1>2, <1>5, <1>6, SetsOnly

LEMMA InformerDeletions ==
    ASSUME Inv, Deletions, CassandraInformer \/ ConfigMapInformer
    PROVE  Deletions'
<1>1. /\ queue \in [Workers -> Seq(Events)] /\ queue["cluster"] \in Seq(ClusterEvents)
      /\ "cluster" \in Workers /\ "config" \in Workers
  BY TypeParts, TwoWorkers DEF Inv, QueueType, QueueInv
<1>2. op' = op /\ budget' = budget /\ known' = known /\ sets' = sets /\ service' = service
  BY DEF CassandraInformer, ConfigMapInformer, api
<1>3. NoFailures' => NoFailures
  BY <1>2 DEF NoFailures
<1>4. CASE ConfigMapInformer
  <2>1. queue'["cluster"] = queue["cluster"] /\ crStore' = crStore
    BY <1>1, <1>4 DEF ConfigMapInformer, Dispatch
  <2> QED
    BY <1>2, <1>3, <2>1, SetsOnly
<1>5. CASE CassandraInformer
  <2> SUFFICES ASSUME NoFailures' PROVE DeletionComes' /\ NothingLeft'
    BY DEF Deletions
  <2>1. NothingLeft'
    BY <1>2, <1>3 DEF Deletions, NothingLeft
  <2>2. DeletionComes'
    <3> SUFFICES ASSUME crStore' = None
                 PROVE  /\ queue'["cluster"] # <<>>
                        /\ queue'["cluster"][Len(queue'["cluster"])].kind = "delete"
      BY DEF DeletionComes
    <3>1. cr = None /\ crStore # None
      BY <1>5 DEF CassandraInformer
    <3> DEFINE e == [kind |-> "delete"]
               q == queue["cluster"]
    <3>2. Dispatch("cluster", e)
      BY <1>5, <3>1 DEF CassandraInformer
    <3>3. queue'["cluster"] = Append(q, e)
      BY <1>1, <3>2 DEF Dispatch
    <3>4. e.kind = "delete"
      OBVIOUS
    <3>5. q \in Seq(Events)
      BY <1>1
    <3> HIDE DEF e, q
    <3>6. Append(q, e) # <<>> /\ Append(q, e)[Len(Append(q, e))] = e
      BY <3>5
    <3> QED
      BY <3>3, <3>4, <3>6
  <2> QED
    BY <2>1, <2>2
<1> QED
  BY <1>4, <1>5

LEMMA ReceiveDeletions ==
    ASSUME Inv, Deletions, NEW w \in Workers, Receive(w)
    PROVE  Deletions'
<1>1. /\ queue \in [Workers -> Seq(Events)] /\ OpType
      /\ "cluster" \in Workers /\ "config" \in Workers
  BY TypeParts, TwoWorkers DEF Inv, QueueType
<1>2. /\ op[w] = Idle /\ queue[w] # <<>> /\ queue' = [queue EXCEPT ![w] = Tail(queue[w])]
      /\ crStore' = crStore /\ budget' = budget /\ sets' = sets /\ service' = service
  BY DEF Receive, ReceiveAdd, ReceiveDelete, ReceiveUpdate, ReceiveConfig, Takes, api
<1>3. NoFailures' => NoFailures
  BY <1>2 DEF NoFailures
<1>4. Head(queue[w]) \in IF w = "cluster" THEN ClusterEvents ELSE ConfigEvents
  BY Taken DEF Receive, ReceiveAdd, ReceiveDelete, ReceiveUpdate, ReceiveConfig
<1>5. CASE w = "config"
  <2>1. Head(queue[w]).kind \in {"addConfig", "updateConfig", "deleteConfig"}
    BY <1>4, <1>5, EventType
  <2>2. known' = known
    BY <2>1 DEF Receive, ReceiveAdd, ReceiveDelete, ReceiveUpdate, ReceiveConfig, Takes
  <2>3. op'["cluster"] = op["cluster"] /\ queue'["cluster"] = queue["cluster"]
    BY <1>1, <1>2, <1>5, OthersKept
  <2> QED
    BY <1>2, <1>3, <2>2, <2>3, SetsOnly
<1>6. CASE w = "cluster"
  <2> DEFINE q == queue["cluster"]
  <2>1. queue'["cluster"] = Tail(q)
    BY <1>1, <1>2, <1>6
  <2>2. /\ Tail(q) = <<>> => q[Len(q)] = Head(q)
        /\ Tail(q) # <<>> => Tail(q)[Len(Tail(q))] = q[Len(q)]
    BY <1>1, <1>2, <1>6, LastStays
  <2>3. Head(q).kind \in {"add", "delete", "update"}
    BY <1>4, <1>6, EventType
  <2> SUFFICES ASSUME NoFailures' PROVE DeletionComes' /\ NothingLeft'
    BY DEF Deletions
  <2>4. /\ crStore = None => q[Len(q)].kind = "delete"
        /\ known = None => \A r \in RackNames : sets[r] = None \/ sets[r].deleting
        /\ known = None => ~service
        /\ op[w].step = "idle"
    BY <1>2, <1>3, <1>6, IdleType DEF Deletions, DeletionComes, NothingLeft
  <2> HIDE DEF q
  <2>5. CASE Head(q).kind = "delete"
    <3>1. ReceiveDelete(w)
      BY <1>6, <2>5 DEF Receive, ReceiveAdd, ReceiveUpdate, ReceiveConfig, Takes, q
    <3>2. known' = None /\ op'[w] = IF known = None THEN Idle
                                    ELSE Operation("deleteSets", <<>>, None, None)
      BY <1>1, <3>1 DEF ReceiveDelete, Start, OpType
    <3>3. IF known = None THEN op'[w].step = "idle" ELSE op'[w].step = "deleteSets"
      BY <3>2, IdleType DEF Operation
    <3>4. DeletionComes'
      BY <1>2, <1>6, <2>1, <2>2, <2>4, <3>2, <3>3 DEF DeletionComes, Going
    <3>5. NothingLeft'
      BY <1>2, <1>6, <2>4, <3>3 DEF NothingLeft
    <3> QED
      BY <3>4, <3>5
  <2>6. CASE Head(q).kind # "delete"
    <3>1. DeletionComes'
      BY <1>2, <2>1, <2>2, <2>4, <2>6 DEF DeletionComes
    <3>2. known = None => known' = known /\ op'[w].step = "findConfig"
      <4> SUFFICES ASSUME known = None PROVE known' = known /\ op'[w].step = "findConfig"
        OBVIOUS
      <4>1. ReceiveAdd(w)
        BY <1>6, <2>3, <2>6 DEF Receive, ReceiveDelete, ReceiveUpdate, ReceiveConfig, Takes, q
      <4>2. known' = known /\ op'[w] = Operation("findConfig", <<>>, None, Head(queue[w]).new)
        BY <1>1, <4>1 DEF ReceiveAdd, Start, OpType
      <4> QED
        BY <4>2 DEF Operation
    <3>3. known # None => known' # None
      <4> SUFFICES ASSUME known # None PROVE known' # None
        OBVIOUS
      <4>1. CASE known' = known
        BY <4>1
      <4>2. CASE known' # known
        <5>1. ReceiveUpdate(w) /\ known' = [known EXCEPT !.def = Definition(Head(queue[w]).new)]
          BY <1>6, <2>3, <2>6, <4>2 DEF Receive, ReceiveAdd, ReceiveDelete, ReceiveUpdate,
                                        ReceiveConfig, Takes, q
        <5>2. Head(queue[w]).new \in Specs
          BY <1>4, <1>6, <5>1, EventType DEF ReceiveUpdate, Takes
        <5>3. known \in Knowns /\ known \in [def : Defs, online : BOOLEAN]
          BY TypeParts DEF Inv, Knowns, Absent
        <5>4. Definition(Head(queue[w]).new) \in Defs
          BY <5>2, DefinitionType
        <5>5. known' = [def |-> Definition(Head(queue[w]).new), online |-> known.online]
              /\ known.online \in BOOLEAN
          BY <5>1, <5>3
        <5> QED
          BY <5>3, <5>4, <5>5, KnownType
      <4> QED
        BY <4>1, <4>2
    <3>4. NothingLeft'
      BY <1>2, <1>6, <2>4, <3>2, <3>3 DEF NothingLeft
    <3> QED
      BY <3>1, <3>4
  <2> QED
    BY <2>5, <2>6
<1> QED
  BY <1>5, <1>6, TwoWorkers

(* A write leaves what is gone or going as it is, unless it creates. *)
LEMMA WriteKeepsDeletion ==
    ASSUME Inv, NEW w \in Workers, PatchSet(w) \/ UpdateSet(w)
    PROVE  \A r \in RackNames : sets[r] = None \/ sets[r].deleting
                                => sets'[r] = None \/ sets'[r].deleting
<1> DEFINE n == Task(w).rack.name
<1>1. (sets[n] # None /\ Writes(w)) \/ (End(w) /\ sets' = sets)
  BY PatchWrites, UpdateWrites
<1>2. sets \in [RackNames -> Absent(StatefulSets)] /\ n \in RackNames
  BY TypeParts, WriteStep DEF Inv, ApiType
<1>3. CASE sets[n] # None /\ Writes(w)
  <2>1. PICK set \in StatefulSets : WriteAndWait(w, set) /\ set.deleting = sets[n].deleting
    BY <1>3 DEF Writes
  <2>2. sets' = [sets EXCEPT ![n] = set]
    BY <2>1 DEF WriteAndWait
  <2> QED
    BY <1>2, <1>3, <2>1, <2>2
<1> QED
  BY <1>1, <1>3

LEMMA ConfigWorkerDeletions ==
    ASSUME Inv, Deletions, NEW w \in Workers, w = "config", Execute(w)
    PROVE  Deletions'
<1>1. GoodOperation(w, op[w], known)
  BY OperationIsGood
<1>2. op[w].step \in ConfigSteps /\ op[w].def = None
  BY <1>1 DEF GoodOperation
<1>3. NextTask(w) \/ Finished(w) \/ PatchSet(w) \/ GetSet(w) \/ UpdateSet(w) \/ WaitSucceeds(w)
      \/ WaitFails(w)
  BY <1>2 DEF Execute, FindConfig, Register, FindExisting, CreateService, CreateSet, DeleteSets,
              DeleteService, At, ConfigSteps
<1>4. queue' = queue /\ crStore' = crStore /\ known' = known /\ service' = service /\ budget' = budget
  BY <1>2, <1>3 DEF NextTask, Finished, PatchSet, GetSet, UpdateSet, WaitSucceeds, WaitFails, api
<1>5. op'["cluster"] = op["cluster"]
  BY OthersKept, TwoWorkers
<1>6. \A r \in RackNames : sets[r] = None \/ sets[r].deleting
                           => sets'[r] = None \/ sets'[r].deleting
  <2>1. CASE PatchSet(w) \/ UpdateSet(w)
    BY <2>1, WriteKeepsDeletion
  <2>2. CASE sets' = sets
    BY <2>2
  <2> QED
    BY <1>3, <2>1, <2>2 DEF NextTask, Finished, GetSet, WaitSucceeds, WaitFails, api
<1>7. NoFailures' => NoFailures
  BY <1>4 DEF NoFailures
<1> QED
  BY <1>4, <1>5, <1>6, <1>7, SetsOnly

LEMMA OnlineType ==
    ASSUME known \in Knowns, known # None, NEW new, new = [known EXCEPT !.online = TRUE]
    PROVE  new # None
<1>1. known \in [def : Defs, online : BOOLEAN]
  BY DEF Knowns, Absent
<1>2. new = [def |-> known.def, online |-> TRUE] /\ known.def \in Defs
  BY <1>1
<1> QED
  BY <1>2, KnownType

LEMMA ClusterWorkerDeletions ==
    ASSUME Inv, Deletions, NEW w \in Workers, w = "cluster", Execute(w)
    PROVE  Deletions'
<1>1. GoodOperation(w, op[w], known) /\ op[w] \in Operations /\ OpType /\ known \in Knowns
  BY OperationIsGood, TypeParts DEF Inv
<1>2. queue' = queue /\ crStore' = crStore /\ budget' = budget
  BY DEF Execute, FindConfig, Register, FindExisting, CreateService, NextTask, Finished, CreateSet,
         PatchSet, GetSet, UpdateSet, WaitSucceeds, WaitFails, DeleteSets, DeleteService
<1>3. NoFailures' => NoFailures
  BY <1>2 DEF NoFailures
<1>4. ASSUME NoFailures' PROVE DeletionComes /\ NothingLeft
  BY <1>3, <1>4 DEF Deletions
<1>5. CASE DeleteSets(w)
  <2> SUFFICES ASSUME NoFailures' PROVE DeletionComes' /\ NothingLeft'
    BY DEF Deletions
  <2>1. op[w].step = "deleteSets" /\ op'[w].step = "deleteService" /\ known' = known
    BY <1>1, <1>5 DEF DeleteSets, At, Goto, OpType, Operations
  <2>2. \A r \in RackNames : sets'[r] = None \/ sets'[r].deleting
    <3> SUFFICES ASSUME NEW r \in RackNames, sets[r] # None PROVE sets'[r].deleting
      BY <1>5 DEF DeleteSets
    <3>1. sets[r] \in StatefulSets
      BY TypeParts DEF Inv, ApiType, Absent
    <3>2. sets'[r] = [sets[r] EXCEPT !.deleting = TRUE]
      BY <1>5 DEF DeleteSets
    <3> QED
      BY <3>1, <3>2 DEF StatefulSets
  <2>3. DeletionComes'
    BY <1>2, <1>4, <2>1 DEF DeletionComes, Going
  <2> QED
    BY <2>1, <2>2, <2>3 DEF NothingLeft
<1>6. CASE DeleteService(w)
  <2> SUFFICES ASSUME NoFailures' PROVE DeletionComes' /\ NothingLeft'
    BY DEF Deletions
  <2>1. /\ op[w].step = "deleteService" /\ op'[w] = Idle /\ known' = known /\ service' = FALSE
        /\ sets' = sets
    BY <1>1, <1>6 DEF DeleteService, At, End, OpType
  <2>2. op'[w].step = "idle"
    BY <2>1, IdleType
  <2>3. DeletionComes'
    BY <1>2, <1>4, <2>1, <2>2 DEF DeletionComes, Going
  <2>4. NothingLeft'
    BY <1>4, <2>1, <2>2 DEF NothingLeft
  <2> QED
    BY <2>3, <2>4
<1>7. CASE FindConfig(w) \/ (Register(w) /\ known' = known)
  <2> SUFFICES ASSUME NoFailures' PROVE DeletionComes' /\ NothingLeft'
    BY DEF Deletions
  <2>1. /\ op[w].step \in {"findConfig", "register"} /\ known' = known
        /\ sets' = sets /\ service' = service
    BY <1>7 DEF FindConfig, Register, At, api
  <2>2. op'[w].step # "deleteSets"
    <3>1. CASE FindConfig(w)
      BY <1>1, <3>1 DEF FindConfig, ConfigIs, OpType, Operations
    <3>2. CASE Register(w)
      <4>1. CASE Goto(w, "findExisting")
        BY <1>1, <4>1 DEF Goto, OpType, Operations
      <4>2. CASE End(w)
        <5>1. op'[w] = Idle
          BY <1>1, <4>2 DEF End, OpType
        <5> QED
          BY <5>1, IdleType
      <4> QED
        BY <3>2, <4>1, <4>2 DEF Register
    <3> QED
      BY <1>7, <3>1, <3>2
  <2>3. DeletionComes'
    BY <1>2, <1>4, <2>1 DEF DeletionComes, Going
  <2>4. NothingLeft'
    BY <1>4, <2>1, <2>2 DEF NothingLeft
  <2> QED
    BY <2>3, <2>4
<1>8. CASE Register(w) /\ known' # known
  <2>1. known' = [def |-> Definition(op[w].def), online |-> FALSE] /\ op[w].step = "register"
    BY <1>8 DEF Register, At
  <2>2. op[w].def \in Specs
    BY <1>1, <2>1 DEF GoodOperation, Ready, Operations, Absent
  <2>3. known' # None
    BY <2>1, <2>2, NoneAssumption
  <2>4. ~Going(op["cluster"].step)
    BY <2>1 DEF Going
  <2> QED
    BY <1>2, <1>3, <2>3, <2>4, WithCluster
<1>9. CASE FindExisting(w) \/ CreateService(w) \/ NextTask(w) \/ Finished(w) \/ CreateSet(w)
           \/ PatchSet(w) \/ GetSet(w) \/ UpdateSet(w) \/ WaitSucceeds(w) \/ WaitFails(w)
  <2>1. op[w].step \in TaskSteps \cup {"findExisting", "createService", "next"}
    BY <1>9 DEF FindExisting, CreateService, NextTask, Finished, CreateSet, PatchSet, GetSet,
                UpdateSet, WaitSucceeds, WaitFails, At, TaskSteps
  <2>2. known # None
    BY <1>1, <2>1 DEF GoodOperation, NeedsCluster
  <2>3. known' = known \/ known' = [known EXCEPT !.online = TRUE]
    BY <1>9 DEF FindExisting, CreateService, NextTask, Finished, CreateSet, PatchSet, GetSet,
                UpdateSet, WaitSucceeds, WaitFails
  <2>4. known' # None
    BY <1>1, <2>2, <2>3, OnlineType
  <2>5. ~Going(op["cluster"].step)
    BY <2>1 DEF Going, TaskSteps
  <2> QED
    BY <1>2, <1>3, <2>4, <2>5, WithCluster
<1> QED
  BY <1>5, <1>6, <1>7, <1>8, <1>9 DEF Execute

LEMMA InitDeletions == Init => Deletions
<1> SUFFICES ASSUME Init PROVE DeletionComes /\ NothingLeft
  BY DEF Deletions
<1>1. op["cluster"].step = "idle" /\ queue["cluster"] = <<>>
  BY IdleType, TwoWorkers DEF Init
<1>2. known = None /\ service = FALSE /\ \A r \in RackNames : sets[r] = None
  BY DEF Init
<1> QED
  BY <1>1, <1>2 DEF DeletionComes, NothingLeft, Going

LEMMA DeletionsStep == Inv /\ Deletions /\ [Next]_vars => Deletions'
<1> SUFFICES ASSUME Inv, Deletions, [Next]_vars PROVE Deletions'
  OBVIOUS
<1>1. CASE UNCHANGED vars
  <2>1. /\ UNCHANGED <<crStore, known, service>>
        /\ queue' = queue /\ op' = op /\ sets' = sets /\ budget' = budget
    BY <1>1 DEF vars
  <2> QED
    BY <2>1, SetsOnly DEF NoFailures
<1>2. CASE User
  <2>1. sets' = sets /\ op' = op /\ queue' = queue /\ UNCHANGED <<crStore, known, service>>
    BY <1>2 DEF User, EditCluster, DeleteCluster, EditConfig, operator
  <2>2. budget' = [budget EXCEPT !.edits = @ - 1] /\ budget \in Budgets
    BY <1>2, TypeParts DEF User, EditCluster, DeleteCluster, EditConfig, UserMay, Inv
  <2>3. NoFailures' => NoFailures
    BY <2>2 DEF Budgets, NoFailures
  <2> QED
    BY <2>1, <2>3, SetsOnly
<1>3. ASSUME NEW r \in RackNames, Observe(r) \/ RolloutCompletes(r) \/ Removed(r) PROVE Deletions'
  BY <1>3, ControllerDeletions
<1>4. CASE CassandraInformer \/ ConfigMapInformer
  BY <1>4, InformerDeletions
<1>5. CASE CrashRestart
  BY <1>5, FailureEndsIt, TwoWorkers DEF Deletions
<1>6. ASSUME NEW w \in Workers, CallFails(w) PROVE Deletions'
  BY <1>6, FailureEndsIt DEF Deletions
<1>7. ASSUME NEW w \in Workers, Receive(w) PROVE Deletions'
  BY <1>7, ReceiveDeletions
<1>8. ASSUME NEW w \in Workers, Execute(w) PROVE Deletions'
  BY <1>8, ConfigWorkerDeletions, ClusterWorkerDeletions, TwoWorkers
<1> QED
  BY <1>1, <1>2, <1>3, <1>4, <1>5, <1>6, <1>7, <1>8 DEF Next

(* As long as no call fails and the operator does not crash, a cluster that *)
(* was deleted, at whatever moment, leaves nothing behind.                  *)
THEOREM DeletionComplete == Spec => []DeletedLeavesNothing
<1>1. Init => Deletions
  BY InitDeletions
<1>2. Inv /\ Deletions /\ [Next]_vars => Deletions'
  BY DeletionsStep
<1>3. Deletions => DeletedLeavesNothing
  <2> SUFFICES ASSUME Deletions, Quiescent, NoFailures, cr = None
               PROVE  /\ \A r \in RackNames : sets[r] = None
                      /\ ~service
                      /\ known = None
    BY DEF DeletedLeavesNothing
  <2>1. crStore = None /\ queue["cluster"] = <<>> /\ op["cluster"].step = "idle"
    BY IdleType, TwoWorkers DEF Quiescent
  <2>2. known = None
    BY <2>1 DEF Deletions, DeletionComes
  <2> QED
    BY <2>1, <2>2 DEF Deletions, NothingLeft, Quiescent
<1> QED
  BY <1>1, <1>2, <1>3, InvHolds, PTL DEF Spec

-----------------------------------------------------------------------------
(* StableWhenDeployed, for users who wait until the operator has nothing   *)
(* left to do.  What the workers know of the two resources is then never   *)
(* out of date: all they have before them is about what is there now.      *)
CalmUsers == Patient = {"create", "update", "delete", "config"}

(* A rack is patched with the image that the user wrote, and created with  *)
(* the default image if there is none.                                     *)
ImagesGiven == \A s \in Specs : s.boot # NoImage

Members(s) == {s[i] : i \in DOMAIN s}

ClusterNews(e, spec) == IF e.kind = "delete" THEN spec = None ELSE e.new = spec
ConfigNews(e, cfg) == IF e.kind = "deleteConfig" THEN cfg = None ELSE e.cfg = cfg

NewsInv ==
    /\ crStore # cr => queue["cluster"] = <<>> /\ op["cluster"] = Idle
    /\ cmStore # cm => queue["config"] = <<>> /\ op["config"] = Idle
    /\ \A e \in Members(queue["cluster"]) : ClusterNews(e, cr)
    /\ \A e \in Members(queue["config"]) : ConfigNews(e, cm)

(* A task for a rack of the resource is made from the resource. *)
ClusterTask(t, o, spec) ==
    /\ spec # None
    /\ t.type \in ChangeTypes \cup {"create rack"}
    /\ t.type = "create rack" <=> o.def # None
    /\ t.type \in {"create rack", "add rack", "update rack"} => t.rack \in RacksOf(spec)
    /\ t.type = "update rack" => t.patch = PatchFor(t.rack, spec)
ClusterWork(o, map, spec) ==
    /\ o.def # None => o.def = spec
    /\ o.step \in {"deleteSets", "deleteService"} => spec = None
    /\ o.step \in {"findExisting", "createService"} => o.def # None /\ map.def = Definition(spec)
    /\ \A t \in Members(o.todo) : ClusterTask(t, o, spec)
    /\ o.step = "create" => Head(o.todo).type \in {"create rack", "add rack"}
    /\ o.step = "findConfig" => IF o.def = None THEN Head(o.todo).type = "add rack"
                                                ELSE o.todo = <<>>
    /\ o.step = "register" => o.todo = <<>>
    /\ o.step \notin {"get", "update"}

ConfigTaskFor(t, o, cfg) == IF t.type = "unmount" THEN cfg = None ELSE cfg # None /\ o.cfg = cfg
ConfigWork(o, cfg) ==
    /\ \A t \in Members(o.todo) : ConfigTaskFor(t, o, cfg)
    /\ o.step \in {"get", "update"} => Head(o.todo).type \in {"mount", "unmount"}

(* The racks of a cluster that exists are not being deleted. *)
Standing == cr # None => \A r \in RackNames : sets[r] # None => ~sets[r].deleting

Current ==
    NewsInv /\ ClusterWork(op["cluster"], known, cr) /\ ConfigWork(op["config"], cm) /\ Standing

-----------------------------------------------------------------------------
LEMMA MembersOf ==
    ASSUME NEW S, NEW s \in Seq(S)
    PROVE  /\ s # <<>> => Head(s) \in Members(s) /\ Members(Tail(s)) \subseteq Members(s)
           /\ s # <<>> => Members(s) = {Head(s)} \cup Members(Tail(s))
           /\ Members(s) \subseteq S
           /\ \A e : Members(Append(s, e)) = Members(s) \cup {e}
<1>1. /\ Len(s) \in Nat /\ DOMAIN s = 1..Len(s) /\ \A k \in DOMAIN s : s[k] \in S
  BY SeqMembers
<1>2. Members(s) \subseteq S
  BY <1>1 DEF Members
<1>3. ASSUME s # <<>>
      PROVE  Head(s) \in Members(s) /\ Members(Tail(s)) \subseteq Members(s)
             /\ Members(s) = {Head(s)} \cup Members(Tail(s))
  <2>1. Head(s) = s[1] /\ 1 \in DOMAIN s
    BY <1>3
  <2>2. \A i \in DOMAIN Tail(s) : i + 1 \in DOMAIN s /\ Tail(s)[i] = s[i + 1]
    BY <1>3
  <2>3. \A i \in DOMAIN s : i # 1 => i - 1 \in DOMAIN Tail(s) /\ Tail(s)[i - 1] = s[i]
    BY <1>3
  <2>4. ASSUME NEW x \in Members(Tail(s)) PROVE x \in Members(s)
    BY <2>2 DEF Members
  <2>5. ASSUME NEW x \in Members(s), x # Head(s) PROVE x \in Members(Tail(s))
    <3>1. PICK i \in DOMAIN s : x = s[i]
      BY DEF Members
    <3>2. i # 1
      BY <2>1, <2>5, <3>1
    <3> QED
      BY <2>3, <3>1, <3>2 DEF Members
  <2>6. Head(s) \in Members(s)
    BY <2>1 DEF Members
  <2> QED
    BY <2>4, <2>5, <2>6
<1>4. ASSUME NEW e PROVE Members(Append(s, e)) = Members(s) \cup {e}
  <2> DEFINE q == Append(s, e)
  <2>1. DOMAIN q = 1..(Len(s) + 1) /\ q[Len(s) + 1] = e /\ \A i \in 1..Len(s) : q[i] = s[i]
    <3>1. s \in Seq(S \cup {e}) /\ e \in S \cup {e}
      BY SeqWider
    <3> DEFINE R == S \cup {e}
    <3> HIDE DEF R
    <3>2. s \in Seq(R) /\ e \in R
      BY <3>1 DEF R
    <3> QED
      BY <3>2
  <2> HIDE DEF q
  <2>2. \A i \in DOMAIN q : i = Len(s) + 1 \/ i \in DOMAIN s
    BY <1>1, <2>1
  <2>3. \A i \in DOMAIN s : i \in DOMAIN q /\ q[i] = s[i]
    BY <1>1, <2>1
  <2>4. Len(s) + 1 \in DOMAIN q
    BY <1>1, <2>1
  <2>5. Members(q) = Members(s) \cup {e}
    BY <2>1, <2>2, <2>3, <2>4 DEF Members
  <2> QED
    BY <2>5 DEF q
<1> QED
  BY <1>2, <1>3, <1>4

LEMMA NoMembers == Members(<<>>) = {}
BY DEF Members

(* A worker with nothing to do. *)
LEMMA IdleWork ==
    ASSUME NEW map, NEW spec, NEW cfg
    PROVE  ClusterWork(Idle, map, spec) /\ ConfigWork(Idle, cfg)
BY IdleType, NoMembers DEF ClusterWork, ConfigWork

(* How the steps of an operation change it. *)
Same(o, p) == p.todo = o.todo /\ p.cfg = o.cfg /\ p.def = o.def

LEMMA Ended ==
    ASSUME Inv, NEW w \in Workers, End(w) PROVE op'[w] = Idle
BY TypeParts DEF Inv, OpType, End

LEMMA WentOn ==
    ASSUME Inv, NEW w \in Workers, NEW step, Goto(w, step)
    PROVE  op'[w].step = step /\ Same(op[w], op'[w]) /\ op'[w].copy = op[w].copy
<1>1. op[w] \in Operations /\ op' = [op EXCEPT ![w] = [op[w] EXCEPT !.step = step]] /\ OpType
  BY OperationIsGood, GotoChanges, TypeParts DEF Inv
<1> DEFINE o == [op[w] EXCEPT !.step = step]
<1>2. o.step = step /\ Same(op[w], o) /\ o.copy = op[w].copy
  BY <1>1 DEF Operations, Same
<1> HIDE DEF o
<1>3. op'[w] = o
  BY <1>1 DEF o, OpType
<1> QED
  BY <1>2, <1>3

LEMMA ConfigRead ==
    ASSUME Inv, NEW w \in Workers, NEW cfg, ConfigIs(w, cfg)
    PROVE  /\ op'[w].step = IF op[w].def # None THEN "register" ELSE "create"
           /\ op'[w].cfg = cfg /\ op'[w].todo = op[w].todo /\ op'[w].def = op[w].def
<1> DEFINE step == IF op[w].def # None THEN "register" ELSE "create"
           o == [op[w] EXCEPT !.cfg = cfg, !.step = step]
<1>1. op[w] \in Operations /\ OpType
  BY OperationIsGood, TypeParts DEF Inv
<1>2. op' = [op EXCEPT ![w] = o]
  BY <1>1 DEF ConfigIs, OpType
<1>3. o.step = step /\ o.cfg = cfg /\ o.todo = op[w].todo /\ o.def = op[w].def
  BY <1>1 DEF Operations
<1> HIDE DEF o
<1>4. op'[w] = o
  BY <1>1, <1>2 DEF OpType
<1> QED
  BY <1>3, <1>4

LEMMA Skipped ==
    ASSUME Inv, NEW w \in Workers, op' = [op EXCEPT ![w].todo = Tail(@)]
    PROVE  /\ op'[w].step = op[w].step /\ op'[w].todo = Tail(op[w].todo)
           /\ op'[w].cfg = op[w].cfg /\ op'[w].def = op[w].def
<1> DEFINE o == [op[w] EXCEPT !.todo = Tail(op[w].todo)]
<1>1. op[w] \in Operations /\ OpType
  BY OperationIsGood, TypeParts DEF Inv
<1>2. op' = [op EXCEPT ![w] = o]
  BY <1>1 DEF OpType
<1>3. o.step = op[w].step /\ o.cfg = op[w].cfg /\ o.todo = Tail(op[w].todo) /\ o.def = op[w].def
  BY <1>1 DEF Operations
<1> HIDE DEF o
<1>4. op'[w] = o
  BY <1>1, <1>2 DEF OpType
<1> QED
  BY <1>3, <1>4

LEMMA DoneWith ==
    ASSUME Inv, NEW w \in Workers, TaskDone(w)
    PROVE  /\ op'[w].step = "next" /\ op'[w].todo = Tail(op[w].todo)
           /\ op'[w].cfg = op[w].cfg /\ op'[w].def = op[w].def
<1> DEFINE o == [op[w] EXCEPT !.step = "next", !.todo = Tail(op[w].todo), !.gen = 0]
<1>1. op[w] \in Operations /\ OpType
  BY OperationIsGood, TypeParts DEF Inv
<1>2. op' = [op EXCEPT ![w] = o]
  BY <1>1 DEF TaskDone, OpType
<1>3. o.step = "next" /\ o.cfg = op[w].cfg /\ o.todo = Tail(op[w].todo) /\ o.def = op[w].def
  BY <1>1 DEF Operations
<1> HIDE DEF o
<1>4. op'[w] = o
  BY <1>1, <1>2 DEF OpType
<1> QED
  BY <1>3, <1>4

LEMMA Written ==
    ASSUME Inv, NEW w \in Workers, NEW set, WriteAndWait(w, set)
    PROVE  op'[w].step = "wait" /\ Same(op[w], op'[w])
<1> DEFINE o == [op[w] EXCEPT !.step = "wait", !.gen = set.gen, !.copy = None]
<1>1. op[w] \in Operations /\ OpType
  BY OperationIsGood, TypeParts DEF Inv
<1>2. op' = [op EXCEPT ![w] = o]
  BY <1>1 DEF WriteAndWait, OpType
<1>3. o.step = "wait" /\ Same(op[w], o)
  BY <1>1 DEF Operations, Same
<1> HIDE DEF o
<1>4. op'[w] = o
  BY <1>1, <1>2 DEF OpType
<1> QED
  BY <1>3, <1>4

LEMMA CopyRead ==
    ASSUME Inv, NEW w \in Workers, NEW set,
           op' = [op EXCEPT ![w].step = "update", ![w].copy = set]
    PROVE  op'[w].step = "update" /\ op'[w].copy = set /\ Same(op[w], op'[w])
<1> DEFINE o == [op[w] EXCEPT !.step = "update", !.copy = set]
<1>1. op[w] \in Operations /\ OpType
  BY OperationIsGood, TypeParts DEF Inv
<1>2. op' = [op EXCEPT ![w] = o]
  BY <1>1 DEF OpType
<1>3. o.step = "update" /\ o.copy = set /\ Same(op[w], o)
  BY <1>1 DEF Operations, Same
<1> HIDE DEF o
<1>4. op'[w] = o
  BY <1>1, <1>2 DEF OpType
<1> QED
  BY <1>3, <1>4

-----------------------------------------------------------------------------
(* An operation that goes on with some of its tasks. *)
LEMMA ClusterGoesOn ==
    ASSUME NEW o, NEW p, NEW map, NEW new, NEW spec, ClusterWork(o, map, spec),
           p.def = o.def, Members(p.todo) \subseteq Members(o.todo),
           p.step \in {"next", "patch", "wait"}
    PROVE  ClusterWork(p, new, spec)
BY DEF ClusterWork, ClusterTask

LEMMA ConfigGoesOn ==
    ASSUME NEW o, NEW p, NEW cfg, ConfigWork(o, cfg),
           p.cfg = o.cfg, Members(p.todo) \subseteq Members(o.todo),
           p.step \in {"get", "update"} => Head(p.todo).type \in {"mount", "unmount"}
    PROVE  ConfigWork(p, cfg)
BY DEF ConfigWork, ConfigTaskFor

(* A step of worker w. *)
LEMMA WorkerCurrent ==
    ASSUME Current, NEW w \in Workers, op[w] # Idle \/ queue[w] # <<>>,
           \A v \in Workers : v # w => op'[v] = op[v] /\ queue'[v] = queue[v],
           UNCHANGED <<cr, cm, crStore, cmStore>>,
           Members(queue'[w]) \subseteq Members(queue[w]),
           w = "cluster" => ClusterWork(op'[w], known', cr),
           w = "config" => ConfigWork(op'[w], cm) /\ known' = known,
           Standing'
    PROVE  Current'
<1>1. /\ cr' = cr /\ cm' = cm /\ crStore' = crStore /\ cmStore' = cmStore
      /\ "cluster" \in Workers /\ "config" \in Workers /\ "cluster" # "config"
  BY TwoWorkers
<1>2. CASE w = "cluster"
  <2>1. op'["config"] = op["config"] /\ queue'["config"] = queue["config"] /\ crStore = cr
    BY <1>1, <1>2 DEF Current, NewsInv
  <2>2. NewsInv'
    BY <1>1, <1>2, <2>1 DEF Current, NewsInv
  <2> QED
    BY <1>1, <1>2, <2>1, <2>2 DEF Current
<1>3. CASE w = "config"
  <2>1. op'["cluster"] = op["cluster"] /\ queue'["cluster"] = queue["cluster"] /\ cmStore = cm
    BY <1>1, <1>3 DEF Current, NewsInv
  <2>2. NewsInv'
    BY <1>1, <1>3, <2>1 DEF Current, NewsInv
  <2> QED
    BY <1>1, <1>3, <2>1, <2>2 DEF Current
<1> QED
  BY <1>2, <1>3, TwoWorkers

(* A call of an operation that goes on. *)
LEMMA CallCurrent ==
    ASSUME Current, NEW w \in Workers, op[w] # Idle,
           \A v \in Workers : v # w => op'[v] = op[v],
           UNCHANGED <<cr, cm, crStore, cmStore, queue>>,
           w = "cluster" => ClusterWork(op'[w], known', cr),
           w = "config" => ConfigWork(op'[w], cm) /\ known' = known,
           Standing'
    PROVE  Current'
<1>1. queue' = queue /\ UNCHANGED <<cr, cm, crStore, cmStore>>
  OBVIOUS
<1>2. \A v \in Workers : v # w => op'[v] = op[v] /\ queue'[v] = queue[v]
  BY <1>1
<1>3. Members(queue'[w]) \subseteq Members(queue[w])
  BY <1>1
<1> QED
  BY <1>1, <1>2, <1>3, WorkerCurrent

LEMMA SetsStand ==
    ASSUME Standing, cr' = cr, sets' = sets PROVE Standing'
BY DEF Standing

LEMMA InitCurrent == Init => Current
<1> SUFFICES ASSUME Init PROVE Current
  OBVIOUS
<1>1. /\ op["cluster"] = Idle /\ op["config"] = Idle
      /\ queue["cluster"] = <<>> /\ queue["config"] = <<>> /\ cr = None
  BY TwoWorkers DEF Init
<1>2. NewsInv
  BY <1>1, NoMembers DEF NewsInv
<1> QED
  BY <1>1, <1>2, IdleWork DEF Current, Standing

(* Users only make changes while the workers are idle. *)
LEMMA CalmEdit ==
    ASSUME CalmUsers, User
    PROVE  Quiescent /\ UNCHANGED <<sets, service, operator>>
           /\ (cm' = cm \/ cr' = cr)
<1>1. \A kind \in {"create", "update", "delete", "config"} : UserMay(kind) => Quiescent
  BY DEF CalmUsers, UserMay
<1> QED
  BY <1>1 DEF User, EditCluster, DeleteCluster, EditConfig

LEMMA UserCurrent ==
    ASSUME CalmUsers, Inv, Current, User PROVE Current'
<1>1. Quiescent /\ sets' = sets /\ queue' = queue /\ op' = op /\ known' = known
  BY CalmEdit DEF operator
<1>2. /\ op'["cluster"] = Idle /\ op'["config"] = Idle
      /\ queue'["cluster"] = <<>> /\ queue'["config"] = <<>>
      /\ \A r \in RackNames : sets'[r] # None => ~sets'[r].deleting
  BY <1>1, TwoWorkers DEF Quiescent
<1>3. NewsInv'
  BY <1>2, NoMembers DEF NewsInv
<1> QED
  BY <1>2, <1>3, IdleWork DEF Current, Standing

(* What the StatefulSet controller leaves as it is. *)
Agree(set, new) ==
    IF set = None THEN new = None
    ELSE /\ new # None /\ new.deleting = set.deleting /\ new.gen = set.gen
         /\ new.replicas = set.replicas /\ new.pod = set.pod /\ new.boot = set.boot
         /\ new.fixed = set.fixed /\ new.vol = set.vol /\ new.hash = set.hash


LEMMA SetType ==
    ASSUME Inv, NEW r \in RackNames, sets[r] # None
    PROVE  sets[r] \in StatefulSets
BY TypeParts DEF Inv, ApiType, Absent

LEMMA ControllerDoes ==
    ASSUME Inv, NEW n \in RackNames, Observe(n) \/ RolloutCompletes(n) \/ Removed(n)
    PROVE  /\ UNCHANGED <<cr, cm, service, crStore, cmStore, known, queue, op, budget>>
           /\ \A r \in RackNames : Agree(sets[r], sets'[r]) \/ (sets[r].deleting /\ sets'[r] = None)
           /\ ~Removed(n) => \A r \in RackNames : Agree(sets[r], sets'[r])
           /\ \A r \in RackNames : ~Unsettled(r) /\ ~(sets[r] # None /\ sets[r].deleting)
                                   => sets'[r] = sets[r]
<1>1. UNCHANGED <<cr, cm, service, operator, budget>>
  BY DEF Observe, RolloutCompletes, Removed
<1>2. UNCHANGED <<cr, cm, service, crStore, cmStore, known, queue, op, budget>>
  BY <1>1 DEF operator
<1>3. sets \in [RackNames -> Absent(StatefulSets)] /\ sets[n] # None
  BY TypeParts DEF Inv, ApiType, Observe, RolloutCompletes, Removed
<1>4. sets[n] \in StatefulSets
  BY <1>3, SetType
<1>5. \A r \in RackNames : r # n => sets'[r] = sets[r]
  BY <1>3 DEF Observe, RolloutCompletes, Removed
<1>6. \A r \in RackNames : r # n => Agree(sets[r], sets'[r])
  BY <1>5 DEF Agree
<1>7. CASE Removed(n)
  <2>1. sets[n].deleting /\ sets'[n] = None
    BY <1>3, <1>7 DEF Removed
  <2> QED
    BY <1>2, <1>3, <1>5, <1>6, <1>7, <2>1
<1>8. CASE Observe(n)
  <2> DEFINE set == [sets[n] EXCEPT !.obs = sets[n].gen, !.rolled = FALSE]
  <2>1. sets'[n] = set
    BY <1>3, <1>8 DEF Observe
  <2>2. set \in StatefulSets
    BY <1>4 DEF StatefulSets
  <2>3. Agree(sets[n], set)
    <3>1. set # None
      BY <2>2, SetAssumption
    <3> QED
      BY <1>3, <1>4, <3>1 DEF Agree, StatefulSets
  <2> HIDE DEF set
  <2>4. Unsettled(n)
    BY <1>3, <1>8 DEF Observe, Unsettled
  <2> QED
    BY <1>2, <1>5, <1>6, <2>1, <2>3, <2>4
<1>9. CASE RolloutCompletes(n)
  <2> DEFINE set == [sets[n] EXCEPT !.rolled = TRUE]
  <2>1. sets'[n] = set
    BY <1>3, <1>9 DEF RolloutCompletes
  <2>2. set \in StatefulSets
    BY <1>4 DEF StatefulSets
  <2>3. Agree(sets[n], set)
    <3>1. set # None
      BY <2>2, SetAssumption
    <3> QED
      BY <1>3, <1>4, <3>1 DEF Agree, StatefulSets
  <2> HIDE DEF set
  <2>4. Unsettled(n)
    BY <1>3, <1>9 DEF RolloutCompletes, Unsettled
  <2> QED
    BY <1>2, <1>5, <1>6, <2>1, <2>3, <2>4
<1> QED
  BY <1>7, <1>8, <1>9

LEMMA ControllerCurrent ==
    ASSUME Inv, Current, NEW n \in RackNames, Observe(n) \/ RolloutCompletes(n) \/ Removed(n)
    PROVE  Current'
<1>1. /\ UNCHANGED <<cr, cm, service, crStore, cmStore, known, queue, op, budget>>
      /\ \A r \in RackNames : Agree(sets[r], sets'[r]) \/ (sets[r].deleting /\ sets'[r] = None)
  BY ControllerDoes
<1>2. Standing'
  BY <1>1 DEF Current, Standing, Agree
<1> QED
  BY <1>1, <1>2 DEF Current, NewsInv

LEMMA InformerCurrent ==
    ASSUME Inv, Current, CassandraInformer \/ ConfigMapInformer
    PROVE  Current'
<1>1. /\ queue \in [Workers -> Seq(Events)]
      /\ "cluster" \in Workers /\ "config" \in Workers /\ "cluster" # "config"
  BY TypeParts, TwoWorkers DEF Inv, QueueType
<1>2. op' = op /\ known' = known /\ cr' = cr /\ cm' = cm /\ sets' = sets
  BY DEF CassandraInformer, ConfigMapInformer, api
<1>3. Standing' /\ ClusterWork(op'["cluster"], known', cr') /\ ConfigWork(op'["config"], cm')
  BY <1>2 DEF Current, Standing
<1>4. CASE CassandraInformer
  <2> DEFINE e == IF crStore = None THEN [kind |-> "add", new |-> cr]
                  ELSE IF cr = None THEN [kind |-> "delete"]
                  ELSE [kind |-> "update", old |-> crStore, new |-> cr]
  <2>1. Dispatch("cluster", e) /\ crStore' = cr /\ cmStore' = cmStore
    BY <1>4 DEF CassandraInformer
  <2>2. ClusterNews(e, cr)
    BY <1>4 DEF CassandraInformer, ClusterNews
  <2> HIDE DEF e
  <2>3. queue'["config"] = queue["config"] /\ queue'["cluster"] = Append(queue["cluster"], e)
    BY <1>1, <2>1 DEF Dispatch
  <2>4. Members(queue'["cluster"]) = Members(queue["cluster"]) \cup {e}
    BY <1>1, <2>3, MembersOf
  <2>5. NewsInv'
    BY <1>2, <2>1, <2>2, <2>3, <2>4 DEF Current, NewsInv
  <2> QED
    BY <1>3, <2>5 DEF Current
<1>5. CASE ConfigMapInformer
  <2> DEFINE e == IF cmStore = None THEN [kind |-> "addConfig", cfg |-> cm]
                  ELSE IF cm = None THEN [kind |-> "deleteConfig", cfg |-> cmStore]
                                    ELSE [kind |-> "updateConfig", cfg |-> cm]
  <2>1. (Dispatch("config", e) \/ queue' = queue) /\ cmStore' = cm /\ crStore' = crStore
    BY <1>5 DEF ConfigMapInformer
  <2>2. ConfigNews(e, cm)
    BY DEF ConfigNews
  <2> HIDE DEF e
  <2>3. /\ queue'["cluster"] = queue["cluster"]
        /\ queue'["config"] = Append(queue["config"], e) \/ queue'["config"] = queue["config"]
    BY <1>1, <2>1 DEF Dispatch
  <2>4. Members(queue'["config"]) \subseteq Members(queue["config"]) \cup {e}
    BY <1>1, <2>3, MembersOf
  <2>5. NewsInv'
    BY <1>2, <2>1, <2>2, <2>3, <2>4 DEF Current, NewsInv
  <2> QED
    BY <1>3, <2>5 DEF Current
<1> QED
  BY <1>4, <1>5

-----------------------------------------------------------------------------
(* The changes that the adjuster makes of the new specification. *)
LEMMA ChangesCurrent ==
    ASSUME NEW old \in Specs, NEW new \in Specs, NEW t \in Members(ChangesForCluster(old, new))
    PROVE  /\ t.type \in ChangeTypes
           /\ t.type \in {"add rack", "update rack"} => t.rack \in RacksOf(new)
           /\ t.patch = PatchFor(t.rack, new)
<1> DEFINE changes == ChangesForCluster(old, new)
           adds == Adds(old, new)
           dels == Dels(old, new)
           downs == Downs(old, new)
           ups == Updated(old, new)
<1>1. IsSpec(old) /\ IsSpec(new)
  BY SpecType
<1>2. /\ adds \in Seq(RacksOf(new)) /\ dels \in Seq(RacksOf(old))
      /\ downs \in Seq(RacksOf(new)) /\ ups \in Seq(RacksOf(new))
  BY <1>1, RackTypes
<1>3. Collected(changes, adds, dels, downs, ups, AllRacks(old, new), new)
  BY <1>1, ChangesInTurn
<1>4. PICK i \in DOMAIN changes : t = changes[i]
  BY DEF Members
<1> HIDE DEF changes, adds, dels, downs, ups
<1>5. i \in 1..Len(changes)
  BY <1>3, <1>4, SeqMembers DEF Collected
<1>6. Len(adds) \in Nat /\ Len(dels) \in Nat /\ Len(downs) \in Nat /\ Len(ups) \in Nat
  BY <1>2, SeqMembers
<1>7. ASSUME NEW type, NEW racks \in Seq(RacksOf(new)), NEW before \in Nat,
             Concerns(changes, i, type, racks, before, new)
      PROVE  t.type = type /\ t.rack \in RacksOf(new) /\ t.patch = PatchFor(t.rack, new)
  <2>1. /\ i \in (before + 1)..(before + Len(racks))
        /\ t.type = type /\ t.rack = racks[i - before]
        /\ t.patch = PatchFor(racks[i - before], new)
    BY <1>4, <1>7, Concerned
  <2>2. Len(racks) \in Nat /\ DOMAIN racks = 1..Len(racks)
        /\ \A k \in DOMAIN racks : racks[k] \in RacksOf(new)
    BY SeqMembers
  <2>3. i - before \in DOMAIN racks
    BY <2>1, <2>2
  <2> QED
    BY <2>1, <2>2, <2>3
<1>8. CASE Concerns(changes, i, "add rack", adds, 0, new)
  BY <1>2, <1>7, <1>8 DEF ChangeTypes
<1>9. CASE Concerns(changes, i, "delete rack", dels, Len(adds), new)
  <2>1. ASSUME NEW type, NEW before \in Nat, Concerns(changes, i, type, dels, before, new)
        PROVE  t.type = type /\ t.patch = PatchFor(t.rack, new)
    <3>1. /\ i \in (before + 1)..(before + Len(dels))
          /\ t.type = type /\ t.rack = dels[i - before]
          /\ t.patch = PatchFor(dels[i - before], new)
      BY <1>4, <2>1, Concerned
    <3> QED
      BY <3>1
  <2>2. t.type = "delete rack" /\ t.patch = PatchFor(t.rack, new)
    BY <1>6, <1>9, <2>1
  <2> QED
    BY <2>2 DEF ChangeTypes
<1>10. CASE Concerns(changes, i, "scale down rack", downs, Len(adds) + Len(dels), new)
  <2>1. Len(adds) + Len(dels) \in Nat
    BY <1>6
  <2> QED
    BY <1>2, <1>7, <1>10, <2>1 DEF ChangeTypes
<1>11. CASE Concerns(changes, i, "update rack", ups, Len(adds) + Len(dels) + Len(downs), new)
  <2>1. Len(adds) + Len(dels) + Len(downs) \in Nat
    BY <1>6
  <2> QED
    BY <1>2, <1>7, <1>11, <2>1 DEF ChangeTypes
<1> QED
  BY <1>3, <1>5, <1>8, <1>9, <1>10, <1>11 DEF Collected

(* One task for each rack. *)
LEMMA TasksMade ==
    ASSUME NEW type, NEW racks, NEW t \in Members(Tasks(type, racks, None))
    PROVE  t.type = type /\ \E i \in DOMAIN racks : t.rack = racks[i]
BY DEF Members, Tasks

LEMMA RackTasks ==
    ASSUME NEW s, NEW racks, racks = s.racks
    PROVE  \A t \in Members(Tasks("create rack", racks, None)) :
               t.type = "create rack" /\ t.rack \in RacksOf(s)
<1>1. PICK type : type = "create rack"
  OBVIOUS
<1>2. ASSUME NEW t \in Members(Tasks(type, racks, None))
      PROVE  t.type = type /\ t.rack \in RacksOf(s)
  BY TasksMade DEF RacksOf
<1> QED
  BY <1>1, <1>2

(* What a worker finds when it takes an event, and what it leaves. *)
LEMMA EventTaken ==
    ASSUME Inv, NEW w \in Workers, Receive(w)
    PROVE  /\ op[w] = Idle /\ queue[w] # <<>> /\ queue'[w] = Tail(queue[w])
           /\ \A v \in Workers : v # w => op'[v] = op[v] /\ queue'[v] = queue[v]
           /\ UNCHANGED <<cr, cm, crStore, cmStore, sets, service, budget>>
           /\ Head(queue[w]) \in Members(queue[w])
           /\ Members(queue'[w]) \subseteq Members(queue[w])
           /\ w = "cluster" => Head(queue[w]) \in ClusterEvents /\ ~ReceiveConfig(w)
           /\ w = "config" => Head(queue[w]) \in ConfigEvents /\ ReceiveConfig(w)
<1>1. queue \in [Workers -> Seq(Events)]
  BY TypeParts DEF Inv, QueueType
<1>2. /\ op[w] = Idle /\ queue[w] # <<>> /\ queue' = [queue EXCEPT ![w] = Tail(queue[w])]
      /\ UNCHANGED <<cr, cm, crStore, cmStore, sets, service, budget>>
  BY DEF Receive, ReceiveAdd, ReceiveDelete, ReceiveUpdate, ReceiveConfig, Takes, api
<1>3. Head(queue[w]) \in IF w = "cluster" THEN ClusterEvents ELSE ConfigEvents
  BY Taken DEF Receive, ReceiveAdd, ReceiveDelete, ReceiveUpdate, ReceiveConfig
<1>4. queue'[w] = Tail(queue[w]) /\ \A v \in Workers : v # w => queue'[v] = queue[v]
  BY <1>1, <1>2
<1>5. queue[w] \in Seq(Events)
  BY <1>1
<1>6. Head(queue[w]) \in Members(queue[w]) /\ Members(queue'[w]) \subseteq Members(queue[w])
  BY <1>2, <1>4, <1>5, MembersOf
<1>7. w = "cluster" => Head(queue[w]) \in ClusterEvents /\ ~ReceiveConfig(w)
  BY <1>3, EventType DEF ReceiveConfig, Takes
<1>8. w = "config" => Head(queue[w]) \in ConfigEvents /\ ReceiveConfig(w)
  BY <1>3, EventType DEF Receive, ReceiveAdd, ReceiveDelete, ReceiveUpdate, ReceiveConfig, Takes
<1> QED
  BY <1>2, <1>4, <1>6, <1>7, <1>8, OthersKept

LEMMA Begun ==
    ASSUME Inv, NEW w \in Workers, NEW o, Start(w, o) PROVE op'[w] = o
BY TypeParts DEF Inv, OpType, Start

LEMMA ReceiveCurrent ==
    ASSUME Inv, Current, NEW w \in Workers, Receive(w)
    PROVE  Current'
<1> DEFINE e == Head(queue[w])
<1>1. /\ op[w] = Idle /\ queue[w] # <<>>
      /\ \A v \in Workers : v # w => op'[v] = op[v] /\ queue'[v] = queue[v]
      /\ UNCHANGED <<cr, cm, crStore, cmStore>> /\ sets' = sets /\ cr' = cr
      /\ e \in Members(queue[w]) /\ Members(queue'[w]) \subseteq Members(queue[w])
      /\ w = "cluster" => e \in ClusterEvents /\ ~ReceiveConfig(w)
      /\ w = "config" => e \in ConfigEvents /\ ReceiveConfig(w)
  BY EventTaken
<1>2. Standing'
  BY <1>1, SetsStand DEF Current
<1>3. ASSUME w = "config" PROVE ConfigWork(op'[w], cm) /\ known' = known
  <2>1. known' = known
    BY <1>1, <1>3 DEF ReceiveConfig
  <2>2. ConfigNews(e, cm) /\ e.kind \in {"addConfig", "updateConfig", "deleteConfig"}
        /\ e.cfg \in Configs
    BY <1>1, <1>3, EventType DEF Current, NewsInv
  <2>3. CASE known = None
    <3>1. op'[w] = Idle
      BY <1>1, <1>3, <2>3, Begun DEF ReceiveConfig
    <3> QED
      BY <2>1, <3>1, IdleWork
  <2>4. CASE known # None
    <3> DEFINE tasks == Tasks(ConfigTask[e.kind], known.def.racks, None)
               o == Operation("next", tasks, e.cfg, None)
    <3>1. op'[w] = o
      BY <1>1, <1>3, <2>4, Begun DEF ReceiveConfig
    <3>2. o.step = "next" /\ o.todo = tasks /\ o.cfg = e.cfg
      BY DEF Operation
    <3> HIDE DEF o
    <3>3. \A t \in Members(tasks) : t.type = ConfigTask[e.kind]
      BY TasksMade
    <3>4. None \notin Configs
      BY CassandraClusterAssumption
    <3>5. \A t \in Members(tasks) : ConfigTaskFor(t, o, cm)
      BY <2>2, <3>2, <3>3, <3>4 DEF ConfigTaskFor, ConfigTask, ConfigNews
    <3> QED
      BY <2>1, <3>1, <3>2, <3>5 DEF ConfigWork
  <2> QED
    BY <2>3, <2>4
<1>4. ASSUME w = "cluster" PROVE ClusterWork(op'[w], known', cr)
  <2>1. /\ ClusterNews(e, cr) /\ e.kind \in {"add", "delete", "update"}
        /\ e.kind \in {"add", "update"} => e.new \in Specs
        /\ e.kind = "update" => e.old \in Specs
    BY <1>1, <1>4, EventType DEF Current, NewsInv
  <2>2. CASE ReceiveAdd(w)
    <3> DEFINE o == Operation("findConfig", <<>>, None, e.new)
    <3>1. op'[w] = o /\ e.kind \in {"add", "update"}
      BY <2>2, Begun DEF ReceiveAdd, Takes
    <3>2. o.step = "findConfig" /\ o.todo = <<>> /\ o.def = e.new
      BY DEF Operation
    <3> HIDE DEF o
    <3>3. e.new = cr /\ e.new # None
      BY <2>1, <3>1, SpecType DEF ClusterNews
    <3> QED
      BY <3>1, <3>2, <3>3, NoMembers DEF ClusterWork
  <2>3. CASE ReceiveDelete(w)
    <3>1. cr = None
      BY <2>1, <2>3 DEF ReceiveDelete, Takes, ClusterNews
    <3> DEFINE o == Operation("deleteSets", <<>>, None, None)
    <3>2. op'[w] = Idle \/ op'[w] = o
      BY <2>3, Begun DEF ReceiveDelete
    <3>3. o.step = "deleteSets" /\ o.todo = <<>> /\ o.def = None
      BY DEF Operation
    <3> HIDE DEF o
    <3>4. ClusterWork(o, known', cr)
      BY <3>1, <3>3, NoMembers DEF ClusterWork
    <3> QED
      BY <3>2, <3>4, IdleWork
  <2>4. CASE ReceiveUpdate(w)
    <3> DEFINE tasks == ChangesForCluster(e.old, e.new)
               o == Operation("next", tasks, None, None)
    <3>1. e.kind = "update" /\ e.new = cr /\ cr \in Specs /\ e.old \in Specs /\ cr # None
      BY <2>1, <2>4, SpecType DEF ReceiveUpdate, Takes, ClusterNews
    <3>2. op'[w] = Idle \/ op'[w] = o
      <4>1. CASE ~Valid(e.new)
        <5>1. op' = op
          BY <2>4, <4>1 DEF ReceiveUpdate
        <5> QED
          BY <1>1, <5>1
      <4>2. CASE Valid(e.new)
        BY <2>4, <4>2, Begun DEF ReceiveUpdate
      <4> QED
        BY <4>1, <4>2
    <3>3. \A t \in Members(tasks) : /\ t.type \in ChangeTypes
                                    /\ t.type \in {"add rack", "update rack"} => t.rack \in RacksOf(cr)
                                    /\ t.patch = PatchFor(t.rack, cr)
      BY <3>1, ChangesCurrent
    <3> HIDE DEF tasks
    <3>4. o.step = "next" /\ o.todo = tasks /\ o.def = None
      BY DEF Operation
    <3> HIDE DEF o
    <3>5. "create rack" \notin ChangeTypes
      BY DEF ChangeTypes
    <3>6. \A t \in Members(tasks) : ClusterTask(t, o, cr)
      BY <3>1, <3>3, <3>4, <3>5 DEF ClusterTask
    <3>7. ClusterWork(o, known', cr)
      BY <3>4, <3>6 DEF ClusterWork
    <3> QED
      BY <3>2, <3>7, IdleWork
  <2> QED
    BY <1>1, <1>4, <2>2, <2>3, <2>4 DEF Receive
<1> QED
  BY <1>1, <1>2, <1>3, <1>4, WorkerCurrent

-----------------------------------------------------------------------------
(* The calls of an operation. *)
Silent == UNCHANGED <<cr, cm, crStore, cmStore, queue>>
Kept(w) == (\A v \in Workers : v # w => op'[v] = op[v]) /\ (w = "config" => known' = known)

LEMMA EndCurrent ==
    ASSUME Inv, Current, NEW w \in Workers, op[w].step # "idle", End(w),
           Silent, Kept(w), Standing'
    PROVE  Current'
<1>1. op'[w] = Idle /\ op[w] # Idle
  BY Ended, IdleType
<1> QED
  BY <1>1, IdleWork, CallCurrent DEF Silent, Kept

LEMMA PursuedCurrent ==
    ASSUME Inv, Current, NEW w \in Workers, op[w].step # "idle",
           op'[w].step \in {"next", "patch", "wait"}, op'[w].def = op[w].def, op'[w].cfg = op[w].cfg,
           Members(op'[w].todo) \subseteq Members(op[w].todo),
           Silent, Kept(w), Standing'
    PROVE  Current'
<1>1. op[w] # Idle
  BY IdleType
<1>2. ASSUME w = "cluster" PROVE ClusterWork(op'[w], known', cr)
  BY <1>2, ClusterGoesOn DEF Current
<1>3. ASSUME w = "config" PROVE ConfigWork(op'[w], cm)
  BY <1>3, ConfigGoesOn DEF Current
<1> QED
  BY <1>1, <1>2, <1>3, CallCurrent DEF Silent, Kept

(* What the worker of the ConfigMap does not do. *)
LEMMA ClusterOnly ==
    ASSUME Inv, NEW w \in Workers, op[w].step \notin ConfigSteps PROVE w = "cluster"
BY TwoWorkers DEF Inv, ConfigInv

LEMMA ConfigIsCurrent ==
    ASSUME Inv, Current, NEW w \in Workers, NEW cfg, At(w, "findConfig"), ConfigIs(w, cfg),
           Silent, Kept(w), Standing'
    PROVE  Current'
<1>1. op[w].step = "findConfig" /\ w = "cluster" /\ op[w] # Idle
  BY ClusterOnly, IdleType DEF At, ConfigSteps
<1>2. /\ op'[w].step = IF op[w].def # None THEN "register" ELSE "create"
      /\ op'[w].todo = op[w].todo /\ op'[w].def = op[w].def
  BY ConfigRead
<1>3. ClusterWork(op[w], known, cr)
  BY <1>1 DEF Current
<1>4. ClusterWork(op'[w], known', cr)
  <2>1. CASE op[w].def # None
    BY <1>1, <1>2, <1>3, <2>1, NoMembers DEF ClusterWork
  <2>2. CASE op[w].def = None
    BY <1>1, <1>2, <1>3, <2>2 DEF ClusterWork, ClusterTask
  <2> QED
    BY <2>1, <2>2
<1> QED
  BY <1>1, <1>4, CallCurrent DEF Silent, Kept

LEMMA CreateServiceNext ==
    ASSUME Inv, Current, NEW w \in Workers, At(w, "findExisting"), Goto(w, "createService"),
           Silent, Kept(w), known' = known, Standing'
    PROVE  Current'
<1>1. op[w].step = "findExisting" /\ w = "cluster" /\ op[w] # Idle
  BY ClusterOnly, IdleType DEF At, ConfigSteps
<1>2. op'[w].step = "createService" /\ op'[w].todo = op[w].todo /\ op'[w].def = op[w].def
  BY WentOn DEF Same
<1>3. ClusterWork(op[w], known, cr)
  BY <1>1 DEF Current
<1>4. ClusterWork(op'[w], known', cr)
  BY <1>1, <1>2, <1>3 DEF ClusterWork, ClusterTask
<1> QED
  BY <1>1, <1>4, CallCurrent DEF Silent, Kept

LEMMA RegisterCurrent ==
    ASSUME Inv, Current, NEW w \in Workers, Register(w) PROVE Current'
<1>1. op[w].step = "register" /\ w = "cluster" /\ op[w] # Idle /\ "register" # "idle"
  BY ClusterOnly, IdleType DEF Register, At, ConfigSteps
<1>2. Silent /\ Kept(w) /\ sets' = sets
  BY <1>1, OthersKept DEF Silent, Kept, Register, api, Execute
<1>3. Standing'
  BY <1>2, SetsStand DEF Current, Silent
<1>4. CASE ~Valid(op[w].def)
  BY <1>1, <1>2, <1>3, <1>4, EndCurrent DEF Register
<1>5. CASE Valid(op[w].def)
  <2>1. known' = [def |-> Definition(op[w].def), online |-> FALSE] /\ Goto(w, "findExisting")
    BY <1>5 DEF Register
  <2>2. op'[w].step = "findExisting" /\ op'[w].todo = op[w].todo /\ op'[w].def = op[w].def
    BY <2>1, WentOn DEF Same
  <2>3. known'.def = Definition(op[w].def)
    BY <2>1
  <2>4. ClusterWork(op[w], known, cr) /\ op[w].def # None
    BY <1>1, OperationIsGood DEF Current, GoodOperation, Ready
  <2>5. ClusterWork(op'[w], known', cr)
    BY <1>1, <2>2, <2>3, <2>4, NoMembers DEF ClusterWork
  <2> QED
    BY <1>1, <1>2, <1>3, <2>5, CallCurrent DEF Silent, Kept
<1> QED
  BY <1>4, <1>5

LEMMA CreateServiceCurrent ==
    ASSUME Inv, Current, NEW w \in Workers, CreateService(w) PROVE Current'
<1>1. op[w].step = "createService" /\ w = "cluster" /\ op[w] # Idle /\ "createService" # "idle"
  BY ClusterOnly, IdleType DEF CreateService, At, ConfigSteps
<1>2. Silent /\ Kept(w) /\ sets' = sets /\ known' = known
  BY <1>1, OthersKept DEF Silent, Kept, CreateService, Execute
<1>3. Standing'
  BY <1>2, SetsStand DEF Current, Silent
<1>4. CASE service
  BY <1>1, <1>2, <1>3, <1>4, EndCurrent DEF CreateService
<1>5. CASE ~service
  <2> DEFINE tasks == Tasks("create rack", known.def.racks, None)
             o == [op[w] EXCEPT !.step = "next", !.todo = tasks]
  <2>1. op[w] \in Operations /\ OpType
    BY OperationIsGood, TypeParts DEF Inv
  <2>2. op' = [op EXCEPT ![w] = o]
    BY <1>5, <2>1 DEF CreateService, OpType
  <2>3. o.step = "next" /\ o.todo = tasks /\ o.def = op[w].def
    BY <2>1 DEF Operations
  <2> HIDE DEF o
  <2>4. op'[w] = o
    BY <2>1, <2>2 DEF OpType
  <2>5. op[w].def # None /\ op[w].def = cr /\ known.def = Definition(cr)
    BY <1>1 DEF Current, ClusterWork
  <2>6. cr \in Specs /\ known.def.racks = cr.racks
    BY <2>1, <2>5, DefinitionType DEF Operations, Absent
  <2>7. \A t \in Members(tasks) : t.type = "create rack" /\ t.rack \in RacksOf(cr)
    BY <2>6, RackTasks
  <2> HIDE DEF tasks
  <2>8. \A t \in Members(tasks) : ClusterTask(t, o, cr)
    BY <2>3, <2>5, <2>7 DEF ClusterTask
  <2>9. ClusterWork(op'[w], known', cr)
    BY <2>3, <2>4, <2>5, <2>8 DEF ClusterWork
  <2> QED
    BY <1>1, <1>2, <1>3, <2>9, CallCurrent DEF Silent, Kept
<1> QED
  BY <1>4, <1>5

LEMMA NextTaskCurrent ==
    ASSUME Inv, Current, NEW w \in Workers, NextTask(w) PROVE Current'
<1>1. op[w].step = "next" /\ op[w] # Idle /\ "next" # "idle" /\ op[w].todo # <<>>
  BY IdleType DEF NextTask, At
<1>2. Silent /\ Kept(w) /\ sets' = sets /\ known' = known
  BY OthersKept DEF Silent, Kept, NextTask, Execute, api
<1>3. Standing'
  BY <1>2, SetsStand DEF Current, Silent
<1>4. op[w].todo \in Seq(TaskRecords) /\ Task(w) = Head(op[w].todo)
  BY OperationIsGood DEF Operations, Task
<1>5. Task(w) \in Members(op[w].todo) /\ Members(Tail(op[w].todo)) \subseteq Members(op[w].todo)
  BY <1>1, <1>4, MembersOf
<1>6. /\ w = "cluster" => Task(w).type \in ChangeTypes \cup {"create rack"}
                          /\ (Task(w).type = "create rack" <=> op[w].def # None)
      /\ w = "config" => Task(w).type \in ConfigTaskTypes
  BY <1>1, <1>5, TasksAtHand DEF Current, ClusterWork, ClusterTask
<1>7. ASSUME NEW step, Goto(w, step), step \in {"create", "findConfig"},
             Task(w).type = IF step = "create" THEN "create rack" ELSE "add rack"
      PROVE  Current'
  <2>1. w = "cluster"
    BY <1>6, <1>7, TwoWorkers DEF ConfigTaskTypes
  <2>2. op'[w].step = step /\ op'[w].todo = op[w].todo /\ op'[w].def = op[w].def
    BY <1>7, WentOn DEF Same
  <2>3. ClusterWork(op[w], known, cr)
    BY <2>1 DEF Current
  <2>4. step = "findConfig" => op[w].def = None
    BY <1>6, <1>7, <2>1
  <2>5. ClusterWork(op'[w], known', cr)
    BY <1>4, <1>7, <2>2, <2>3, <2>4 DEF ClusterWork, ClusterTask
  <2> QED
    BY <1>1, <1>2, <1>3, <2>1, <2>5, CallCurrent DEF Silent, Kept
<1>8. CASE Goto(w, "patch")
  <2>1. op'[w].step = "patch" /\ op'[w].todo = op[w].todo /\ op'[w].def = op[w].def
        /\ op'[w].cfg = op[w].cfg
    BY <1>8, WentOn DEF Same
  <2> QED
    BY <1>1, <1>2, <1>3, <2>1, PursuedCurrent
<1>9. CASE Task(w).type \in {"mount", "unmount"} /\ Goto(w, "get")
  <2>1. w = "config"
    BY <1>6, <1>9, TwoWorkers DEF ChangeTypes
  <2>2. op'[w].step = "get" /\ op'[w].todo = op[w].todo /\ op'[w].cfg = op[w].cfg
    BY <1>9, WentOn DEF Same
  <2>3. ConfigWork(op'[w], cm)
    BY <1>4, <1>9, <2>1, <2>2, ConfigGoesOn DEF Current
  <2> QED
    BY <1>1, <1>2, <1>3, <2>1, <2>3, CallCurrent DEF Silent, Kept
<1>10. CASE op' = [op EXCEPT ![w].todo = Tail(@)]
  <2>1. /\ op'[w].step = "next" /\ op'[w].todo = Tail(op[w].todo) /\ op'[w].def = op[w].def
        /\ op'[w].cfg = op[w].cfg
    BY <1>1, <1>10, Skipped
  <2> QED
    BY <1>1, <1>2, <1>3, <1>5, <2>1, PursuedCurrent
<1> QED
  BY <1>7, <1>8, <1>9, <1>10 DEF NextTask

(* What is written is not being deleted unless it was before. *)
LEMMA WriteCurrent ==
    ASSUME Inv, Current, NEW w \in Workers, CreateSet(w) \/ PatchSet(w) \/ UpdateSet(w)
    PROVE  Current'
<1>1. /\ op[w].step \in {"create", "patch", "update"} /\ op[w].todo # <<>>
      /\ Task(w).rack.name \in RackNames
      /\ UNCHANGED <<cr, cm, service, crStore, cmStore, known, queue, budget>>
      /\ Writes(w) \/ (End(w) /\ sets' = sets)
  BY WriteStep
<1>2. Silent /\ Kept(w) /\ op[w].step # "idle" /\ cr' = cr
  BY <1>1, OthersKept DEF Silent, Kept, Execute
<1>3. CASE End(w) /\ sets' = sets
  <2>1. Standing'
    BY <1>2, <1>3, SetsStand DEF Current
  <2> QED
    BY <1>2, <1>3, <2>1, EndCurrent
<1>4. CASE Writes(w)
  <2>1. PICK set \in StatefulSets :
            /\ WriteAndWait(w, set)
            /\ sets[Task(w).rack.name] # None => set.deleting = sets[Task(w).rack.name].deleting
    BY <1>4 DEF Writes
  <2>2. /\ op'[w].step = "wait" /\ op'[w].todo = op[w].todo /\ op'[w].def = op[w].def
        /\ op'[w].cfg = op[w].cfg
    BY <2>1, Written DEF Same
  <2>3. sets' = [sets EXCEPT ![Task(w).rack.name] = set]
        /\ sets \in [RackNames -> Absent(StatefulSets)]
    BY <2>1, TypeParts DEF WriteAndWait, Inv, ApiType
  <2>4. ASSUME sets[Task(w).rack.name] = None PROVE ~set.deleting
    <3>1. CreateSet(w)
      <4>1. ASSUME PatchSet(w) \/ UpdateSet(w) PROVE sets' = sets
        BY <2>4, <4>1, PatchWrites, UpdateWrites
      <4>2. sets' # sets
        BY <1>1, <2>3, <2>4, SetAssumption
      <4> QED
        BY <4>1, <4>2
    <3>2. sets' = [sets EXCEPT ![Task(w).rack.name] = NewStatefulSet(known.def, Task(w).rack, op[w].cfg)]
      BY <2>4, <3>1 DEF CreateSet, WriteAndWait
    <3>3. set = NewStatefulSet(known.def, Task(w).rack, op[w].cfg)
      BY <1>1, <2>3, <3>2
    <3> QED
      BY <3>3 DEF NewStatefulSet
  <2>5. ASSUME cr # None, NEW r \in RackNames, sets'[r] # None PROVE ~sets'[r].deleting
    <3>1. CASE r = Task(w).rack.name
      <4>1. sets'[r] = set
        BY <2>3, <3>1
      <4> QED
        BY <2>1, <2>4, <2>5, <3>1, <4>1 DEF Current, Standing
    <3>2. CASE r # Task(w).rack.name
      BY <2>3, <2>5, <3>2 DEF Current, Standing
    <3> QED
      BY <3>1, <3>2
  <2>6. Standing'
    BY <1>2, <2>5 DEF Standing
  <2> QED
    BY <1>2, <2>2, <2>6, PursuedCurrent
<1> QED
  BY <1>1, <1>3, <1>4

LEMMA WaitCurrent ==
    ASSUME Inv, Current, NEW w \in Workers, At(w, "wait"), TaskDone(w) \/ End(w),
           Silent, Kept(w), Standing'
    PROVE  Current'
<1>1. op[w].step # "idle" /\ op[w].todo # <<>> /\ op[w].todo \in Seq(TaskRecords)
  BY OperationIsGood DEF At, GoodOperation, Ready, TaskSteps, Operations
<1>2. CASE TaskDone(w)
  <2>1. Members(Tail(op[w].todo)) \subseteq Members(op[w].todo)
    BY <1>1, MembersOf
  <2>2. /\ op'[w].step = "next" /\ op'[w].todo = Tail(op[w].todo) /\ op'[w].def = op[w].def
        /\ op'[w].cfg = op[w].cfg
    BY <1>2, DoneWith
  <2> QED
    BY <1>1, <2>1, <2>2, PursuedCurrent
<1>3. CASE End(w)
  BY <1>1, <1>3, EndCurrent
<1> QED
  BY <1>2, <1>3

LEMMA DeleteCurrent ==
    ASSUME Inv, Current, NEW w \in Workers, At(w, "deleteSets"), Goto(w, "deleteService"),
           Silent, Kept(w)
    PROVE  Current'
<1>1. op[w].step = "deleteSets" /\ w = "cluster" /\ op[w] # Idle
  BY ClusterOnly, IdleType DEF At, ConfigSteps
<1>2. op'[w].step = "deleteService" /\ op'[w].todo = op[w].todo /\ op'[w].def = op[w].def
  BY WentOn DEF Same
<1>3. ClusterWork(op[w], known, cr) /\ cr = None /\ cr' = cr
  BY <1>1 DEF Current, ClusterWork, Silent
<1>4. ClusterWork(op'[w], known', cr) /\ Standing'
  BY <1>1, <1>2, <1>3 DEF ClusterWork, ClusterTask, Standing
<1> QED
  BY <1>1, <1>4, CallCurrent DEF Silent, Kept

LEMMA ExecuteCurrent ==
    ASSUME Inv, Current, NEW w \in Workers, Execute(w) PROVE Current'
<1>1. \A v \in Workers : v # w => op'[v] = op[v]
  BY OthersKept
<1>2. ASSUME sets' = sets, cr' = cr PROVE Standing'
  BY <1>2, SetsStand DEF Current
<1>3. CASE FindConfig(w)
  <2>1. Silent /\ Kept(w) /\ sets' = sets /\ cr' = cr
    BY <1>1, <1>3 DEF Silent, Kept, FindConfig, api
  <2> QED
    BY <1>2, <1>3, <2>1, ConfigIsCurrent DEF FindConfig
<1>4. CASE FindExisting(w)
  <2>1. op[w].step = "findExisting" /\ w = "cluster" /\ op[w].step # "idle"
    BY <1>4, ClusterOnly DEF FindExisting, At, ConfigSteps
  <2>2. Silent /\ Kept(w) /\ sets' = sets /\ cr' = cr
    BY <1>1, <1>4, <2>1 DEF Silent, Kept, FindExisting, api
  <2> QED
    BY <1>2, <1>4, <2>1, <2>2, EndCurrent, CreateServiceNext DEF FindExisting
<1>5. CASE Finished(w)
  <2>1. op[w].step # "idle" /\ (w = "config" => op[w].def = None)
    BY <1>5 DEF Finished, At, Inv, ConfigInv
  <2>2. Silent /\ Kept(w) /\ sets' = sets /\ cr' = cr
    BY <1>1, <1>5, <2>1 DEF Silent, Kept, Finished, api
  <2> QED
    BY <1>2, <1>5, <2>1, <2>2, EndCurrent DEF Finished
<1>6. CASE GetSet(w)
  <2>1. Silent /\ Kept(w) /\ sets' = sets /\ cr' = cr /\ op[w].step = "get"
    BY <1>1, <1>6 DEF Silent, Kept, GetSet, api, At
  <2>2. w = "config" /\ op[w].step # "idle" /\ op[w] # Idle
    BY <2>1, TwoWorkers, IdleType DEF Current, ClusterWork
  <2>3. CASE End(w)
    BY <1>2, <2>1, <2>2, <2>3, EndCurrent
  <2>4. CASE op' = [op EXCEPT ![w].step = "update", ![w].copy = sets[Task(w).rack.name]]
    <3>1. op'[w].step = "update" /\ op'[w].todo = op[w].todo /\ op'[w].cfg = op[w].cfg
      BY <2>4, CopyRead DEF Same
    <3>2. ConfigWork(op'[w], cm)
      BY <2>1, <2>2, <3>1 DEF Current, ConfigWork, ConfigTaskFor
    <3> QED
      BY <1>2, <2>1, <2>2, <3>2, CallCurrent DEF Silent, Kept
  <2> QED
    BY <1>6, <2>3, <2>4 DEF GetSet
<1>7. CASE WaitSucceeds(w) \/ WaitFails(w)
  <2>1. Silent /\ Kept(w) /\ sets' = sets /\ cr' = cr
    BY <1>1, <1>7 DEF Silent, Kept, WaitSucceeds, WaitFails, api
  <2>2. At(w, "wait") /\ (TaskDone(w) \/ End(w))
    BY <1>7 DEF WaitSucceeds, WaitFails, WaitAborted
  <2> QED
    BY <1>2, <2>1, <2>2, WaitCurrent
<1>8. CASE DeleteSets(w)
  <2>1. Silent /\ Kept(w)
    BY <1>1, <1>8 DEF Silent, Kept, DeleteSets
  <2> QED
    BY <1>8, <2>1, DeleteCurrent DEF DeleteSets
<1>9. CASE DeleteService(w)
  <2>1. Silent /\ Kept(w) /\ sets' = sets /\ cr' = cr /\ op[w].step # "idle" /\ End(w)
    BY <1>1, <1>9 DEF Silent, Kept, DeleteService, At
  <2> QED
    BY <1>2, <2>1, EndCurrent
<1> QED
  BY <1>3, <1>4, <1>5, <1>6, <1>7, <1>8, <1>9, RegisterCurrent, CreateServiceCurrent,
     NextTaskCurrent, WriteCurrent DEF Execute

LEMMA CallFailsCurrent ==
    ASSUME Inv, Current, NEW w \in Workers, CallFails(w) PROVE Current'
<1>1. Silent /\ known' = known /\ sets' = sets /\ cr' = cr
  BY DEF CallFails, Silent, api
<1>2. \A v \in Workers : v # w => op'[v] = op[v]
  BY TypeParts DEF Inv, OpType, CallFails, ConfigIs, Goto, WaitAborted, TaskDone, End
<1>3. Kept(w) /\ Standing'
  BY <1>1, <1>2, SetsStand DEF Kept, Current
<1>4. CASE op[w].step # "idle" /\ End(w)
  BY <1>1, <1>3, <1>4, EndCurrent
<1>5. CASE At(w, "wait") /\ WaitAborted(w)
  BY <1>1, <1>3, <1>5, WaitCurrent DEF WaitAborted
<1> QED
  BY <1>1, <1>3, <1>4, <1>5, ConfigIsCurrent, CreateServiceNext, DeleteCurrent DEF CallFails

LEMMA CrashCurrent ==
    ASSUME Inv, Current, CrashRestart PROVE Current'
<1>1. /\ op'["cluster"] = Idle /\ op'["config"] = Idle
      /\ queue'["cluster"] = <<>> /\ queue'["config"] = <<>> /\ sets' = sets /\ cr' = cr
  BY TwoWorkers DEF CrashRestart, api
<1>2. NewsInv'
  BY <1>1, NoMembers DEF NewsInv
<1> QED
  BY <1>1, <1>2, IdleWork, SetsStand DEF Current

LEMMA CurrentStep ==
    ASSUME CalmUsers, Inv, Current, [Next]_vars PROVE Current'
<1>1. CASE UNCHANGED vars
  BY <1>1 DEF vars, Current, NewsInv, Standing
<1> QED
  BY <1>1, UserCurrent, ControllerCurrent, InformerCurrent, ReceiveCurrent, ExecuteCurrent,
     CallFailsCurrent, CrashCurrent DEF Next

-----------------------------------------------------------------------------
(* Writing what is there already changes nothing. *)
LEMMA SameWrites ==
    ASSUME NEW set \in StatefulSets
    PROVE  /\ \A cfg : set.hash = cfg => WithHash(set, cfg) = set
           /\ ~set.vol /\ set.hash = None => WithoutVolume(set) = set
           /\ \A patch : set.replicas = patch.replicas /\ set.pod = patch.pod /\ set.boot = patch.boot
                         => Patched(set, patch) = set
<1>1. ASSUME NEW cfg, set.hash = cfg PROVE WithHash(set, cfg) = set
  <2>1. [set EXCEPT !.hash = cfg] = set
    BY <1>1 DEF StatefulSets
  <2> QED
    BY <2>1 DEF WithHash, Changed
<1>2. ASSUME ~set.vol, set.hash = None PROVE WithoutVolume(set) = set
  <2>1. set.vol = FALSE
    BY <1>2 DEF StatefulSets
  <2>2. [set EXCEPT !.vol = FALSE, !.hash = None] = set
    BY <1>2, <2>1 DEF StatefulSets
  <2> QED
    BY <2>2 DEF WithoutVolume, Changed
<1>3. ASSUME NEW patch, set.replicas = patch.replicas, set.pod = patch.pod, set.boot = patch.boot
      PROVE  Patched(set, patch) = set
  <2>1. [set EXCEPT !.replicas = patch.replicas, !.pod = patch.pod, !.boot = patch.boot] = set
    BY <1>3 DEF StatefulSets
  <2> QED
    BY <2>1 DEF Patched, Changed
<1> QED
  BY <1>1, <1>2, <1>3

LEMMA SameSet ==
    ASSUME Inv, NEW w \in Workers, op[w].todo # <<>>, NEW set, set = sets[Task(w).rack.name],
           WriteAndWait(w, set)
    PROVE  sets' = sets
<1>1. Task(w).rack.name \in RackNames /\ sets \in [RackNames -> Absent(StatefulSets)]
  BY TasksAtHand, TypeParts DEF Inv, ApiType
<1> QED
  BY <1>1 DEF WriteAndWait

(* The task at hand of each worker. *)
LEMMA TaskCurrent ==
    ASSUME Inv, Current, NEW w \in Workers, op[w].todo # <<>>
    PROVE  /\ w = "cluster" => ClusterTask(Task(w), op[w], cr)
           /\ w = "config" => ConfigTaskFor(Task(w), op[w], cm) /\ Task(w).type \in ConfigTaskTypes
           /\ Task(w).rack.name \in RackNames
<1>1. op[w].todo \in Seq(TaskRecords) /\ Task(w) = Head(op[w].todo)
  BY OperationIsGood DEF Operations, Task
<1>2. Task(w) \in Members(op[w].todo)
  BY <1>1, MembersOf
<1> QED
  BY <1>2, TasksAtHand DEF Current, ClusterWork, ConfigWork

LEMMA GivenImage ==
    ASSUME ImagesGiven, NEW s \in Specs PROVE Definition(s).boot = s.boot /\ Definition(s).pod = s.pod
           /\ Definition(s).fixed = s.fixed
<1>1. s \in [fixed : {s.fixed}, pod : {s.pod}, boot : {s.boot}, racks : Seq(RacksOf(s))]
  BY SpecType DEF IsSpec
<1> QED
  BY <1>1 DEF Definition, ImagesGiven

(* A write to racks that are as they should be leaves them as they are. *)
LEMMA NothingWritten ==
    ASSUME ImagesGiven, Inv, Current, NEW w \in Workers, CreateSet(w) \/ PatchSet(w) \/ UpdateSet(w),
           cr # None, ClusterDeployed(cr), ConfigDeployed
    PROVE  sets' = sets
<1> DEFINE name == Task(w).rack.name
<1>1. /\ op[w].todo # <<>> /\ name \in RackNames /\ cr \in Specs
      /\ sets \in [RackNames -> Absent(StatefulSets)]
  BY WriteStep, TypeParts DEF Inv, ApiType, Absent
<1>2. /\ w = "cluster" => ClusterTask(Task(w), op[w], cr)
      /\ w = "config" => ConfigTaskFor(Task(w), op[w], cm) /\ Task(w).type \in ConfigTaskTypes
  BY <1>1, TaskCurrent
<1>3. ASSUME Task(w).rack \in RacksOf(cr)
      PROVE  /\ sets[name] # None /\ sets[name].replicas = Task(w).rack.replicas
             /\ sets[name].pod = cr.pod /\ sets[name].boot = cr.boot
  <2>1. PICK i \in DOMAIN cr.racks : Task(w).rack = cr.racks[i]
    BY <1>3 DEF RacksOf
  <2>2. RackDeployed(cr, i)
    BY DEF ClusterDeployed
  <2> QED
    BY <1>1, <2>1, <2>2, GivenImage DEF RackDeployed
<1>4. CASE CreateSet(w)
  <2>1. w = "cluster" /\ op[w].step = "create"
    BY <1>4, CreateWrites DEF CreateSet, At
  <2>2. Task(w).type \in {"create rack", "add rack"}
    BY <2>1 DEF Current, ClusterWork, Task
  <2>3. sets[name] # None
    BY <1>2, <1>3, <2>1, <2>2 DEF ClusterTask
  <2> QED
    BY <1>4, <2>3 DEF CreateSet
<1>5. CASE PatchSet(w) /\ sets[name] # None
  <2>1. Task(w).type \in {"update rack", "hash"}
    BY <1>5, OperationIsGood DEF PatchSet, At, GoodOperation, Ready, Task
  <2>2. sets[name] \in StatefulSets
    BY <1>1, <1>5, SetType
  <2>3. CASE Task(w).type = "hash"
    <3>1. w = "config" /\ op[w].cfg = cm
      BY <1>2, <2>3, TwoWorkers DEF ClusterTask, ChangeTypes, ConfigTaskFor
    <3>2. sets[name].hash = op[w].cfg
      BY <1>1, <1>5, <3>1 DEF ConfigDeployed
    <3>3. WithHash(sets[name], op[w].cfg) = sets[name]
      BY <2>2, <3>2, SameWrites
    <3>4. WriteAndWait(w, sets[name])
      BY <1>5, <2>3, <3>3 DEF PatchSet
    <3> QED
      BY <1>1, <3>4, SameSet
  <2>4. CASE Task(w).type = "update rack"
    <3>1. w = "cluster"
      BY <1>2, <2>4, TwoWorkers DEF ConfigTaskTypes
    <3>2. Task(w).rack \in RacksOf(cr) /\ Task(w).patch = PatchFor(Task(w).rack, cr)
      BY <1>2, <2>4, <3>1 DEF ClusterTask
    <3>3. /\ sets[name].replicas = Task(w).patch.replicas /\ sets[name].pod = Task(w).patch.pod
          /\ sets[name].boot = Task(w).patch.boot
      BY <1>3, <3>2 DEF PatchFor
    <3>4. Patched(sets[name], Task(w).patch) = sets[name]
      BY <2>2, <3>3, SameWrites
    <3>5. WriteAndWait(w, sets[name])
      BY <1>5, <2>4, <3>4 DEF PatchSet
    <3> QED
      BY <1>1, <3>5, SameSet
  <2> QED
    BY <2>1, <2>3, <2>4
<1>6. CASE PatchSet(w) /\ sets[name] = None
  BY <1>6 DEF PatchSet
<1>7. CASE UpdateSet(w)
  <2>1. op[w].step = "update" /\ op[w].copy # None
    BY <1>7, OperationIsGood DEF UpdateSet, At, GoodOperation, Ready
  <2>2. w = "config" /\ Task(w).type \in {"mount", "unmount"}
    BY <2>1, TwoWorkers DEF Current, ClusterWork, ConfigWork, Task
  <2>3. CASE ~(sets[name] = op[w].copy /\ ~(Task(w).type = "mount" /\ sets[name].vol))
    BY <1>7, <2>3 DEF UpdateSet
  <2>4. CASE sets[name] = op[w].copy /\ ~(Task(w).type = "mount" /\ sets[name].vol)
    <3>1. sets[name] # None /\ sets[name] \in StatefulSets
      BY <1>1, <2>1, <2>4, SetType
    <3>2. Task(w).type = "unmount" /\ cm = None
      BY <1>1, <1>2, <2>2, <2>4, <3>1 DEF ConfigTaskFor, ConfigDeployed
    <3>3. ~sets[name].vol /\ sets[name].hash = None
      BY <1>1, <3>1, <3>2 DEF ConfigDeployed
    <3>4. WithoutVolume(sets[name]) = sets[name]
      BY <3>1, <3>3, SameWrites
    <3>5. WriteAndWait(w, sets[name])
      BY <1>7, <2>4, <3>2, <3>4 DEF UpdateSet
    <3> QED
      BY <1>1, <3>5, SameSet
  <2> QED
    BY <2>3, <2>4
<1> QED
  BY <1>4, <1>5, <1>6, <1>7

(* The steps that do not touch any StatefulSet. *)
LEMMA SetsKept ==
    ASSUME NEW w \in Workers,
           \/ User \/ CassandraInformer \/ ConfigMapInformer \/ CrashRestart
           \/ Receive(w) \/ CallFails(w)
           \/ /\ Execute(w)
              /\ ~CreateSet(w) /\ ~PatchSet(w) /\ ~UpdateSet(w) /\ ~DeleteSets(w)
    PROVE  sets' = sets
<1>1. CASE User \/ CassandraInformer \/ ConfigMapInformer \/ CrashRestart
  BY <1>1 DEF User, EditCluster, DeleteCluster, EditConfig, CassandraInformer, ConfigMapInformer,
              CrashRestart, api
<1>2. CASE Receive(w) \/ CallFails(w)
  BY <1>2 DEF Receive, ReceiveAdd, ReceiveDelete, ReceiveUpdate, ReceiveConfig, Takes, CallFails, api
<1>3. CASE Execute(w) /\ ~CreateSet(w) /\ ~PatchSet(w) /\ ~UpdateSet(w) /\ ~DeleteSets(w)
  BY <1>3 DEF Execute, FindConfig, Register, FindExisting, CreateService, NextTask, Finished,
              GetSet, WaitSucceeds, WaitFails, DeleteService, api
<1> QED
  BY <1>1, <1>2, <1>3

LEMMA LeftAloneStep ==
    ASSUME ImagesGiven, Inv, Current, [Next]_vars, cr # None, ClusterDeployed(cr), ConfigDeployed
    PROVE  \A r \in RackNames : WrittenPart(sets[r])' = WrittenPart(sets[r])
<1>1. ASSUME sets' = sets PROVE \A r \in RackNames : WrittenPart(sets[r])' = WrittenPart(sets[r])
  BY <1>1
<1>2. CASE UNCHANGED vars
  BY <1>1, <1>2 DEF vars
<1>3. CASE User \/ CassandraInformer \/ ConfigMapInformer \/ CrashRestart
  BY <1>1, <1>3, SetsKept, TwoWorkers
<1>4. ASSUME NEW n \in RackNames, Observe(n) \/ RolloutCompletes(n) \/ Removed(n)
      PROVE  \A r \in RackNames : WrittenPart(sets[r])' = WrittenPart(sets[r])
  <2>1. ~Removed(n)
    BY DEF Current, Standing, Removed
  <2>2. \A r \in RackNames : Agree(sets[r], sets'[r])
    BY <1>4, <2>1, ControllerDoes
  <2> QED
    BY <2>2 DEF Agree, WrittenPart
<1>5. ASSUME NEW w \in Workers, Receive(w) \/ Execute(w) \/ CallFails(w) PROVE sets' = sets
  <2>1. ~DeleteSets(w)
    BY ClusterOnly DEF DeleteSets, At, ConfigSteps, Current, ClusterWork
  <2> QED
    BY <1>5, <2>1, NothingWritten, SetsKept
<1> QED
  BY <1>1, <1>2, <1>3, <1>4, <1>5 DEF Next

(* Racks that are as they should be are left alone.  For users who change  *)
(* the resources only when the operator has nothing left to do and who     *)
(* name the image of the bootstrapper: a patch writes back what the user   *)
(* left out, which is another image than the default that the rack was     *)
(* created with.                                                           *)
THEOREM LeftAlone ==
    ASSUME CalmUsers, ImagesGiven
    PROVE  Spec => StableWhenDeployed
<1>1. Init => Inv /\ Current
  BY InitInv, InitCurrent
<1>2. Inv /\ Current /\ [Next]_vars => (Inv /\ Current)'
  BY InvStep, CurrentStep
<1>3. Inv /\ Current /\ [Next]_vars =>
        [cr # None /\ cr' = cr /\ cm' = cm /\ ClusterDeployed(cr) /\ ConfigDeployed
           => \A r \in RackNames : WrittenPart(sets[r])' = WrittenPart(sets[r])]_vars
  BY LeftAloneStep
<1> QED
  BY <1>1, <1>2, <1>3, PTL DEF Spec, StableWhenDeployed

-----------------------------------------------------------------------------
(* SpecDeployed and ConfigMounted, for the same users if they also change  *)
(* the cluster only in ways that the operator supports.  Then only one of  *)
(* the two workers has anything to do at a time.                           *)
UniqueRacks == \A s \in Specs : UniqueNames(s.racks)

ClusterQuiet == crStore = cr /\ queue["cluster"] = <<>> /\ op["cluster"] = Idle
ConfigQuiet == cmStore = cm /\ queue["config"] = <<>> /\ op["config"] = Idle

(* What there is of a cluster (its entry map in the clusters map, its      *)
(* service and its StatefulSets) if there is none, and if it has the       *)
(* specification s.                                                        *)
Gone(map, svc, st) == map = None /\ ~svc /\ \A r \in RackNames : st[r] = None
Owned(s, map, st) ==
    /\ map # None /\ map.def = Definition(s)
    /\ \A r \in RackNames : st[r] # None => FoundIn(r, s.racks)
RackFits(rack, s, set) ==
    /\ set # None
    /\ set.replicas = rack.replicas /\ set.pod = s.pod /\ set.boot = s.boot /\ set.fixed = s.fixed
Fits(s, map, svc, st) ==
    IF s = None \/ ~Valid(s) THEN Gone(map, svc, st)
    ELSE svc /\ Owned(s, map, st) /\ \A rack \in RacksOf(s) : RackFits(rack, s, st[rack.name])

(* A StatefulSet mounts the ConfigMap with the contents v, or None. *)
Mounts(set, v) == set # None => (set.vol <=> v # None) /\ set.hash = v
Mounted(v, st) == \A r \in RackNames : Mounts(st[r], v)

(* The tasks of an operation whose StatefulSets are still to be written. *)
Open(o) == IF o.step = "wait" THEN Members(Tail(o.todo)) ELSE Members(o.todo)
NamedOnce(todo) == \A i, j \in DOMAIN todo : todo[i].rack.name = todo[j].rack.name => i = j

(* An operation on the racks of s: each of them is as specified, or the    *)
(* task that makes it so can be carried out.                               *)
Applies(t, s, set) ==
    IF t.type = "update rack" THEN set # None /\ set.fixed = s.fixed
    ELSE t.type \in {"create rack", "add rack"} /\ set = None
Changing(o, s, v, map, svc, st) ==
    /\ s # None /\ Valid(s) /\ svc /\ Owned(s, map, st)
    /\ NamedOnce(o.todo)
    /\ \A t \in Open(o) : Applies(t, s, st[t.rack.name])
    /\ \A rack \in RacksOf(s) :
           RackFits(rack, s, st[rack.name]) \/ \E t \in Open(o) : t.rack.name = rack.name
    /\ o.step = "wait" => st[Head(o.todo).rack.name] # None
    /\ o.def # None \/ o.step = "create" => o.cfg = v
Busy(o, s, v, map, svc, st) ==
    /\ o.step = "findConfig" /\ o.def # None => Gone(map, svc, st)
    /\ o.step = "register" => Gone(map, svc, st) /\ o.cfg = v
    /\ o.step \in {"findExisting", "createService"} =>
           /\ s # None /\ Valid(s) /\ o.cfg = v /\ map # None
           /\ ~svc /\ \A r \in RackNames : st[r] = None
    /\ o.step \in {"next", "create", "patch", "wait"} \/ (o.step = "findConfig" /\ o.def = None)
       => Changing(o, s, v, map, svc, st)

ClusterWaits(e, map, svc, st) ==
    /\ e.kind = "add" => Gone(map, svc, st)
    /\ e.kind = "update" => Fits(e.old, map, svc, st) /\ Supported(e.old, e.new)
ClusterSide ==
    /\ queue["cluster"] # <<>> =>
           /\ crStore = cr /\ op["cluster"] = Idle /\ Tail(queue["cluster"]) = <<>>
           /\ ClusterWaits(Head(queue["cluster"]), known, service, sets)
    /\ crStore # cr /\ cr # None =>
           Fits(crStore, known, service, sets) /\ (crStore # None => Supported(crStore, cr))
    /\ ClusterQuiet /\ (cr # None \/ ~ConfigQuiet) => Fits(cr, known, service, sets)
    /\ Busy(op["cluster"], cr, cm, known, service, sets)

(* An operation on the ConfigMap with the contents v. *)
Mounting(o, v, st) ==
    /\ NamedOnce(o.todo)
    /\ \A t \in Open(o) :
           /\ st[t.rack.name] # None
           /\ t.type = "mount" => ~st[t.rack.name].vol
           /\ t.type = "hash" => st[t.rack.name].vol
    /\ \A r \in RackNames : Mounts(st[r], v) \/ \E t \in Open(o) : t.rack.name = r
    /\ o.step = "update" => o.copy = st[Head(o.todo).rack.name]
    /\ o.step = "wait" => st[Head(o.todo).rack.name] # None
ConfigWaits(e, st) ==
    \A r \in RackNames : st[r] # None =>
        /\ e.kind = "addConfig" => ~st[r].vol
        /\ e.kind = "updateConfig" => st[r].vol
ConfigSide ==
    /\ queue["config"] # <<>> =>
           /\ cmStore = cm /\ op["config"] = Idle /\ Tail(queue["config"]) = <<>>
           /\ ConfigWaits(Head(queue["config"]), sets)
    /\ cmStore # cm => Mounted(cmStore, sets)
    /\ ConfigQuiet => Mounted(cm, sets)
    /\ op["config"] # Idle => Mounting(op["config"], cm, sets)

Calm == (ClusterQuiet \/ ConfigQuiet) /\ ClusterSide /\ ConfigSide
Deployed == NoFailures => Calm

-----------------------------------------------------------------------------
(* Two StatefulSets that run the same specification. *)
Alike(set, new) ==
    IF set = None THEN new = None
    ELSE /\ new # None /\ new.replicas = set.replicas /\ new.pod = set.pod
         /\ new.boot = set.boot /\ new.fixed = set.fixed

LEMMA FitsStays ==
    ASSUME NEW s \in Absent(Specs), NEW map, NEW svc, NEW st, NEW tt, Fits(s, map, svc, st),
           \A r \in RackNames : Alike(st[r], tt[r])
    PROVE  Fits(s, map, svc, tt)
<1>1. CASE s = None \/ ~Valid(s)
  BY <1>1 DEF Fits, Gone, Alike
<1>2. CASE s # None /\ Valid(s)
  <2>1. \A rack \in RacksOf(s) : rack.name \in RackNames
    BY <1>2, SpecType DEF Absent
  <2>2. svc /\ Owned(s, map, st) /\ \A rack \in RacksOf(s) : RackFits(rack, s, st[rack.name])
    BY <1>2 DEF Fits
  <2>3. Owned(s, map, tt)
    BY <2>2 DEF Owned, Alike
  <2>4. ASSUME NEW rack \in RacksOf(s) PROVE RackFits(rack, s, tt[rack.name])
    BY <2>1, <2>2 DEF RackFits, Alike
  <2> QED
    BY <1>2, <2>2, <2>3, <2>4 DEF Fits
<1> QED
  BY <1>1, <1>2

(* A cluster that is not known has nothing. *)
LEMMA FitsUnknown ==
    ASSUME NEW s, NEW map, NEW svc, NEW st, Fits(s, map, svc, st)
    PROVE  /\ map = None => Gone(map, svc, st)
           /\ map # None => /\ s # None /\ Valid(s) /\ svc /\ Owned(s, map, st)
                            /\ \A rack \in RacksOf(s) : RackFits(rack, s, st[rack.name])
BY DEF Fits, Owned, Gone

LEMMA GoneMounted ==
    ASSUME NEW map, NEW svc, NEW st, Gone(map, svc, st), NEW v PROVE Mounted(v, st)
BY DEF Gone, Mounted, Mounts

(* The tasks after the first one are for other racks. *)
LEMMA OtherRacks ==
    ASSUME NEW S, NEW todo \in Seq(S), todo # <<>>, NamedOnce(todo)
    PROVE  /\ NamedOnce(Tail(todo))
           /\ \A t \in Members(Tail(todo)) : t.rack.name # Head(todo).rack.name
<1>1. \A i \in DOMAIN Tail(todo) : i \in Int /\ i + 1 \in DOMAIN todo
                                   /\ Tail(todo)[i] = todo[i + 1] /\ i + 1 # 1
  OBVIOUS
<1>2. Head(todo) = todo[1] /\ 1 \in DOMAIN todo
  OBVIOUS
<1>3. \A i, j \in DOMAIN Tail(todo) : i + 1 = j + 1 => i = j
  BY <1>1
<1>4. NamedOnce(Tail(todo))
  <2> SUFFICES ASSUME NEW i \in DOMAIN Tail(todo), NEW j \in DOMAIN Tail(todo),
                      Tail(todo)[i].rack.name = Tail(todo)[j].rack.name
               PROVE  i = j
    BY DEF NamedOnce
  <2>1. i + 1 \in DOMAIN todo /\ j + 1 \in DOMAIN todo
        /\ Tail(todo)[i] = todo[i + 1] /\ Tail(todo)[j] = todo[j + 1]
    BY <1>1
  <2>2. i + 1 = j + 1
    BY <2>1, Zenon DEF NamedOnce
  <2> QED
    BY <1>3, <2>2, Zenon
<1>5. ASSUME NEW t \in Members(Tail(todo)), t.rack.name = Head(todo).rack.name PROVE FALSE
  <2>1. PICK i \in DOMAIN Tail(todo) : t = Tail(todo)[i]
    BY DEF Members
  <2>2. i + 1 \in DOMAIN todo /\ t = todo[i + 1] /\ i + 1 # 1
    BY <1>1, <2>1
  <2> QED
    BY <1>2, <1>5, <2>2, Zenon DEF NamedOnce
<1> QED
  BY <1>4, <1>5

(* One task for each rack of a specification. *)
LEMMA EveryRack ==
    ASSUME UniqueRacks, NEW s \in Specs, NEW type
    PROVE  LET tasks == Tasks(type, s.racks, None)
           IN  /\ NamedOnce(tasks)
               /\ \A t \in Members(tasks) : t.type = type /\ t.rack \in RacksOf(s)
               /\ \A rack \in RacksOf(s) : \E t \in Members(tasks) : t.rack = rack
<1> DEFINE tasks == Tasks(type, s.racks, None)
<1>1. DOMAIN tasks = DOMAIN s.racks
      /\ \A i \in DOMAIN s.racks : tasks[i].rack = s.racks[i] /\ tasks[i].type = type
  BY DEF Tasks
<1> HIDE DEF tasks
<1>2. NamedOnce(tasks)
  BY <1>1 DEF NamedOnce, UniqueRacks, UniqueNames
<1>3. \A t \in Members(tasks) : t.type = type /\ t.rack \in RacksOf(s)
  BY <1>1 DEF Members, RacksOf
<1>4. \A rack \in RacksOf(s) : \E t \in Members(tasks) : t.rack = rack
  BY <1>1 DEF Members, RacksOf
<1> QED
  BY <1>2, <1>3, <1>4 DEF tasks

LEMMA SameRack ==
    ASSUME UniqueRacks, NEW s \in Specs, NEW rack \in RacksOf(s), NEW other \in RacksOf(s),
           rack.name = other.name
    PROVE  rack = other
BY DEF UniqueRacks, UniqueNames, RacksOf

LEMMA RackFound ==
    ASSUME NEW s \in Specs
    PROVE  \A r : FoundIn(r, s.racks) <=> \E rack \in RacksOf(s) : rack.name = r
BY FoundRack DEF RacksOf

(* The rack of the first task is written as specified. *)
LEMMA RackChanged ==
    ASSUME UniqueRacks, NEW s \in Specs, NEW v, NEW map, NEW svc, NEW st, NEW tt, NEW o, NEW p, NEW set,
           Changing(o, s, v, map, svc, st), o.step \in {"create", "patch"},
           o.todo # <<>>, o.todo \in Seq(TaskRecords), Head(o.todo).rack \in RacksOf(s),
           p.step = "wait", Same(o, p),
           st \in [RackNames -> Absent(StatefulSets)], tt = [st EXCEPT ![Head(o.todo).rack.name] = set],
           RackFits(Head(o.todo).rack, s, set)
    PROVE  Changing(p, s, v, map, svc, tt)
<1> DEFINE t == Head(o.todo)
           n == Head(o.todo).rack.name
<1>1. n \in RackNames /\ set # None
  BY SpecType DEF RackFits
<1>2. tt[n] = set /\ \A r \in RackNames : r # n => tt[r] = st[r]
  BY <1>1
<1>3. Open(p) = Members(Tail(o.todo)) /\ Open(o) = Members(o.todo) /\ p.todo = o.todo /\ p.def = o.def
      /\ p.cfg = o.cfg
  BY DEF Open, Same
<1>4. Members(o.todo) = {t} \cup Members(Tail(o.todo))
      /\ \A x \in Members(Tail(o.todo)) : x \in Members(o.todo)
  BY MembersOf
<1>5. \A x \in Members(Tail(o.todo)) : x.rack.name # n
  BY OtherRacks DEF Changing
<1>6. \A x \in Members(o.todo) : x.rack.name \in RackNames
  <2>1. Members(o.todo) \subseteq TaskRecords
    BY MembersOf
  <2>2. \A x \in TaskRecords : x.rack \in Racks
    BY DEF TaskRecords
  <2> QED
    BY <2>1, <2>2, RackType
<1>7. Owned(s, map, tt)
  <2>1. FoundIn(n, s.racks)
    BY RackFound
  <2> QED
    BY <1>2, <2>1 DEF Changing, Owned
<1>8. ASSUME NEW x \in Open(p) PROVE Applies(x, s, tt[x.rack.name])
  BY <1>2, <1>3, <1>4, <1>5, <1>6 DEF Changing
<1>9. ASSUME NEW rack \in RacksOf(s)
      PROVE  RackFits(rack, s, tt[rack.name]) \/ \E x \in Open(p) : x.rack.name = rack.name
  <2>1. CASE rack.name = n
    BY <1>2, <2>1, SameRack
  <2>2. CASE rack.name # n
    <3>1. rack.name \in RackNames
      BY SpecType
    <3>2. tt[rack.name] = st[rack.name]
      BY <1>2, <2>2, <3>1
    <3> QED
      BY <1>3, <1>4, <2>2, <3>2 DEF Changing
  <2> QED
    BY <2>1, <2>2
<1>10. tt[Head(p.todo).rack.name] # None
  BY <1>1, <1>2, <1>3
<1>11. p.def # None => p.cfg = v
  BY <1>3 DEF Changing
<1> QED
  BY <1>3, <1>7, <1>8, <1>9, <1>10, <1>11 DEF Changing

(* The operation goes on with the tasks that are left. *)
LEMMA ChangingGoesOn ==
    ASSUME NEW s, NEW v, NEW map, NEW svc, NEW st, NEW o, NEW p,
           Changing(o, s, v, map, svc, st),
           NamedOnce(p.todo), Open(p) = Open(o), p.def = o.def,
           p.step # "wait", p.def # None \/ p.step = "create" => p.cfg = v
    PROVE  Changing(p, s, v, map, svc, st)
BY DEF Changing

(* The rack of the first task mounts the ConfigMap. *)
LEMMA RackMounted ==
    ASSUME NEW v, NEW st, NEW tt, NEW o, NEW p, NEW set,
           Mounting(o, v, st), o.step # "wait",
           o.todo # <<>>, o.todo \in Seq(TaskRecords),
           p.step = "wait", Same(o, p),
           st \in [RackNames -> Absent(StatefulSets)], tt = [st EXCEPT ![Head(o.todo).rack.name] = set],
           set # None, Mounts(set, v)
    PROVE  Mounting(p, v, tt)
<1> DEFINE t == Head(o.todo)
           n == Head(o.todo).rack.name
<1>1. Open(p) = Members(Tail(o.todo)) /\ Open(o) = Members(o.todo) /\ p.todo = o.todo
  BY DEF Open, Same
<1>2. Members(o.todo) = {t} \cup Members(Tail(o.todo)) /\ t \in Members(o.todo)
  BY MembersOf
<1>3. \A x \in Members(Tail(o.todo)) : x.rack.name # n
  BY OtherRacks DEF Mounting
<1>4. \A x \in Members(o.todo) : x.rack.name \in RackNames
  <2>1. Members(o.todo) \subseteq TaskRecords
    BY MembersOf
  <2>2. \A x \in TaskRecords : x.rack \in Racks
    BY DEF TaskRecords
  <2> QED
    BY <2>1, <2>2, RackType
<1>5. tt[n] = set /\ \A r \in RackNames : r # n => tt[r] = st[r]
  BY <1>2, <1>4
<1>6. ASSUME NEW x \in Open(p)
      PROVE  tt[x.rack.name] = st[x.rack.name] /\ x \in Open(o)
  BY <1>1, <1>2, <1>3, <1>4, <1>5
<1>7. ASSUME NEW r \in RackNames PROVE Mounts(tt[r], v) \/ \E x \in Open(p) : x.rack.name = r
  <2>1. CASE r = n
    BY <1>5, <2>1
  <2>2. CASE r # n
    BY <1>1, <1>2, <1>5, <2>2 DEF Mounting
  <2> QED
    BY <2>1, <2>2
<1>8. tt[Head(p.todo).rack.name] # None
  BY <1>1, <1>5
<1> QED
  BY <1>1, <1>6, <1>7, <1>8 DEF Mounting

LEMMA MountingGoesOn ==
    ASSUME NEW v, NEW st, NEW o, NEW p, Mounting(o, v, st),
           NamedOnce(p.todo), Open(p) = Open(o), p.step # "wait",
           p.step = "update" => p.copy = st[Head(p.todo).rack.name]
    PROVE  Mounting(p, v, st)
BY DEF Mounting

-----------------------------------------------------------------------------
(* The tasks of a supported change: one for each rack that is new or is    *)
(* not as specified, none that takes a rack away or makes it smaller.      *)
ChangeFits(t, old, new) ==
    /\ t.rack \in RacksOf(new)
    /\ \/ t.type = "update rack" /\ FoundIn(t.rack.name, old.racks)
       \/ t.type = "add rack" /\ ~FoundIn(t.rack.name, old.racks)
Unchanged(rack, old, new) ==
    /\ \E was \in RacksOf(old) : was.name = rack.name /\ was.replicas = rack.replicas
    /\ old.pod = new.pod /\ old.boot = new.boot

LEMMA NothingTaken ==
    ASSUME UniqueRacks, NEW old \in Specs, NEW new \in Specs, Supported(old, new)
    PROVE  /\ Named(old) /\ Named(new)
           /\ Len(Dels(old, new)) = 0 /\ Len(Downs(old, new)) = 0
           /\ \A i \in DOMAIN old.racks : FoundIn(old.racks[i].name, new.racks)
           /\ \A i \in DOMAIN old.racks, j \in DOMAIN new.racks :
                  old.racks[i].name = new.racks[j].name
                  => ~(new.racks[j].replicas < old.racks[i].replicas)
<1>1. Dels(old, new) = <<>>
  BY DEF Supported, Dels
<1>2. Downs(old, new) = <<>>
  BY DEF Supported, Downs, NewOf
<1>3. Named(old) /\ Named(new)
  BY SpecType DEF Named, UniqueRacks
<1>4. old.racks \in Seq(RacksOf(old)) /\ UniqueNames(old.racks)
  BY <1>3, SpecRacks DEF Named
<1>5. AllLeft(Dels(old, new), old.racks, new.racks)
  BY <1>4, NotInFacts DEF Dels
<1>6. \A i \in DOMAIN old.racks : FoundIn(old.racks[i].name, new.racks)
  BY <1>1, <1>5 DEF AllLeft
<1>7. AllSmaller(Downs(old, new), old, new)
  BY <1>3, ScaledDownFacts DEF Downs
<1> QED
  BY <1>1, <1>2, <1>3, <1>6, <1>7 DEF AllSmaller

LEMMA ChangesFit ==
    ASSUME UniqueRacks, NEW old \in Specs, NEW new \in Specs, Supported(old, new),
           NEW t \in Members(ChangesForCluster(old, new))
    PROVE  ChangeFits(t, old, new)
<1>1. /\ Named(old) /\ Named(new)
      /\ Len(Dels(old, new)) = 0 /\ Len(Downs(old, new)) = 0
  BY NothingTaken
<1>2. PICK i \in DOMAIN ChangesForCluster(old, new) : t = ChangesForCluster(old, new)[i]
  BY DEF Members
<1>3. Understood(t, i, old, new)
  BY <1>1, <1>2, ChangedRack
<1>4. t.type = "add rack" \/ t.type = "update rack"
  <2>1. /\ t.type \in ChangeTypes
        /\ t.type = "delete rack" => Len(Dels(old, new)) > 0
        /\ t.type = "scale down rack" => Len(Downs(old, new)) > 0
    BY <1>3 DEF Understood
  <2>2. ~(Len(Dels(old, new)) > 0) /\ ~(Len(Downs(old, new)) > 0)
    BY <1>1
  <2> QED
    BY <2>1, <2>2, Zenon DEF ChangeTypes
<1>5. CASE t.type = "add rack"
  <2>1. i \in DOMAIN Adds(old, new) /\ t.rack = Adds(old, new)[i]
    BY <1>3, <1>5 DEF Understood
  <2>2. new.racks \in Seq(RacksOf(new)) /\ UniqueNames(new.racks)
    BY <1>1, SpecRacks DEF Named
  <2>3. /\ Adds(old, new) \in Seq(RacksOf(new))
        /\ \A k \in DOMAIN Adds(old, new) : ~FoundIn(Adds(old, new)[k].name, old.racks)
    BY <2>2, NotInFacts DEF Adds
  <2>4. t.rack \in RacksOf(new) /\ ~FoundIn(t.rack.name, old.racks)
    BY <2>1, <2>3, SeqMembers
  <2> QED
    BY <1>5, <2>4 DEF ChangeFits
<1>6. CASE t.type = "update rack"
  <2> DEFINE k == i - (Len(Adds(old, new)) + Len(Dels(old, new)) + Len(Downs(old, new)))
  <2>1. k \in DOMAIN Updated(old, new) /\ t.rack = Updated(old, new)[k]
    BY <1>3, <1>6 DEF Understood
  <2> HIDE DEF k
  <2>2. /\ Updated(old, new) \in Seq(RacksOf(new))
        /\ \A m \in DOMAIN Updated(old, new) : FoundIn(Updated(old, new)[m].name, old.racks)
    BY <1>1, UpdatedFacts
  <2>3. t.rack \in RacksOf(new) /\ FoundIn(t.rack.name, old.racks)
    BY <2>1, <2>2, SeqMembers
  <2> QED
    BY <1>6, <2>3 DEF ChangeFits
<1> QED
  BY <1>4, <1>5, <1>6

LEMMA ChangesNamedOnce ==
    ASSUME UniqueRacks, NEW old \in Specs, NEW new \in Specs, Supported(old, new)
    PROVE  NamedOnce(ChangesForCluster(old, new))
<1> DEFINE changes == ChangesForCluster(old, new)
<1>1. RacksOnce(changes)
  BY NothingTaken, ChangesOnce
<1>2. \A t \in Members(changes) : ChangeFits(t, old, new)
  BY ChangesFit
<1> HIDE DEF changes
<1>3. \A i \in DOMAIN changes : changes[i].type \in {"add rack", "update rack"}
  BY <1>2 DEF Members, ChangeFits
<1>4. NamedOnce(changes)
  BY <1>1, <1>3 DEF NamedOnce, RacksOnce
<1> QED
  BY <1>4 DEF changes

LEMMA ChangesEnough ==
    ASSUME UniqueRacks, NEW old \in Specs, NEW new \in Specs, Supported(old, new),
           NEW rack \in RacksOf(new)
    PROVE  \/ Unchanged(rack, old, new)
           \/ \E t \in Members(ChangesForCluster(old, new)) : t.rack.name = rack.name
<1> DEFINE changes == ChangesForCluster(old, new)
<1>1. /\ Named(old) /\ Named(new)
      /\ \A i \in DOMAIN old.racks, j \in DOMAIN new.racks :
             old.racks[i].name = new.racks[j].name
             => ~(new.racks[j].replicas < old.racks[i].replicas)
  BY NothingTaken
<1>2. NoneForgotten(changes, old, new)
  BY <1>1, ChangesComplete
<1> HIDE DEF changes
<1>3. PICK j \in DOMAIN new.racks : rack = new.racks[j]
  BY DEF RacksOf
<1>4. ASSUME NEW type, Reached(changes, type, rack) PROVE \E t \in Members(changes) : t.rack.name = rack.name
  BY <1>4 DEF Reached, Members
<1>5. CASE ~FoundIn(rack.name, old.racks)
  BY <1>2, <1>3, <1>4, <1>5 DEF NoneForgotten, changes
<1>6. CASE FoundIn(rack.name, old.racks)
  <2>1. PICK i \in DOMAIN old.racks : old.racks[i].name = rack.name
    BY <1>6, FoundRack
  <2>2. CASE PodSpecHasChanged(old, new) \/ new.racks[j].replicas > old.racks[i].replicas
    BY <1>2, <1>3, <1>4, <2>1, <2>2 DEF NoneForgotten, changes
  <2>3. CASE ~PodSpecHasChanged(old, new) /\ ~(new.racks[j].replicas > old.racks[i].replicas)
    <3>1. old.racks[i] \in RacksOf(old)
      BY DEF RacksOf
    <3>2. old.racks[i].replicas \in Nat /\ rack.replicas \in Nat
      BY <3>1, SpecType
    <3>3. ~(rack.replicas < old.racks[i].replicas)
      BY <1>1, <1>3, <2>1
    <3>4. old.racks[i].replicas = rack.replicas
      BY <1>3, <2>3, <3>2, <3>3
    <3> QED
      BY <2>1, <2>3, <3>1, <3>4 DEF PodSpecHasChanged, Unchanged
  <2> QED
    BY <2>2, <2>3
<1> QED
  BY <1>5, <1>6

(* An update that begins. *)
LEMMA UpdateBegins ==
    ASSUME UniqueRacks, NEW old \in Specs, NEW new \in Specs, Supported(old, new),
           NEW v, NEW map, NEW svc, NEW st, NEW to, Fits(old, map, svc, st),
           to # None, to.def = Definition(new),
           NEW o, o.step = "next", o.todo = ChangesForCluster(old, new), o.def = None
    PROVE  Changing(o, new, v, to, svc, st)
<1>1. old # None /\ new # None /\ Valid(old) /\ Valid(new) /\ old.fixed = new.fixed
  BY SpecType DEF Supported, ChangeForbidden
<1>2. svc /\ Owned(old, map, st) /\ \A rack \in RacksOf(old) : RackFits(rack, old, st[rack.name])
  BY <1>1 DEF Fits
<1>3. ASSUME NEW r, FoundIn(r, old.racks) PROVE FoundIn(r, new.racks)
  <2>1. PICK i \in DOMAIN old.racks : old.racks[i].name = r
    BY <1>3, FoundRack
  <2> QED
    BY <2>1, NothingTaken
<1>4. Owned(new, to, st)
  BY <1>2, <1>3 DEF Owned
<1>5. Open(o) = Members(ChangesForCluster(old, new))
  BY DEF Open
<1>6. NamedOnce(o.todo)
  BY ChangesNamedOnce
<1>7. ASSUME NEW t \in Open(o) PROVE Applies(t, new, st[t.rack.name])
  <2>1. ChangeFits(t, old, new)
    BY <1>5, ChangesFit
  <2>2. t.rack.name \in RackNames
    BY <2>1, SpecType DEF ChangeFits
  <2>3. CASE t.type = "update rack" /\ FoundIn(t.rack.name, old.racks)
    <3>1. PICK rack \in RacksOf(old) : rack.name = t.rack.name
      BY <2>3, RackFound
    <3>2. RackFits(rack, old, st[t.rack.name])
      BY <1>2, <3>1
    <3> QED
      BY <1>1, <2>3, <3>2 DEF RackFits, Applies
  <2>4. CASE t.type = "add rack" /\ ~FoundIn(t.rack.name, old.racks)
    BY <1>2, <2>2, <2>4 DEF Owned, Applies
  <2> QED
    BY <2>1, <2>3, <2>4 DEF ChangeFits
<1>8. ASSUME NEW rack \in RacksOf(new)
      PROVE  RackFits(rack, new, st[rack.name]) \/ \E t \in Open(o) : t.rack.name = rack.name
  <2>1. CASE Unchanged(rack, old, new)
    <3>1. PICK was \in RacksOf(old) : was.name = rack.name /\ was.replicas = rack.replicas
      BY <2>1 DEF Unchanged
    <3>2. RackFits(was, old, st[rack.name])
      BY <1>2, <3>1
    <3> QED
      BY <1>1, <2>1, <3>1, <3>2 DEF Unchanged, RackFits
  <2> QED
    BY <1>5, <2>1, ChangesEnough
<1> QED
  BY <1>1, <1>2, <1>4, <1>6, <1>7, <1>8 DEF Changing

-----------------------------------------------------------------------------
LEMMA IdleBusy ==
    ASSUME NEW s, NEW v, NEW map, NEW svc, NEW st PROVE Busy(Idle, s, v, map, svc, st)
BY IdleType DEF Busy

(* A step while nothing of the ConfigMap is to be done, and one while      *)
(* nothing of the cluster is.                                              *)
LEMMA ClusterMoves ==
    ASSUME ConfigQuiet, UNCHANGED <<cm, cmStore>>, queue'["config"] = queue["config"],
           op'["config"] = op["config"], Mounted(cm, sets'), ClusterSide'
    PROVE  Calm'
<1>1. ConfigQuiet'
  BY DEF ConfigQuiet
<1>2. ConfigSide'
  BY <1>1 DEF ConfigSide, ConfigQuiet
<1> QED
  BY <1>1, <1>2 DEF Calm

LEMMA ConfigMoves ==
    ASSUME ClusterQuiet, UNCHANGED <<cr, crStore, known, service>>,
           queue'["cluster"] = queue["cluster"], op'["cluster"] = op["cluster"],
           Fits(cr, known, service, sets'), ConfigSide'
    PROVE  Calm'
<1>1. ClusterQuiet' /\ cr' = cr /\ known' = known /\ service' = service
  BY DEF ClusterQuiet
<1>2. ClusterSide'
  BY <1>1, IdleBusy DEF ClusterSide, ClusterQuiet
<1> QED
  BY <1>1, <1>2 DEF Calm

(* A call of an operation on the cluster, and of one on the ConfigMap. *)
LEMMA ClusterCall ==
    ASSUME Current, Calm, op["cluster"] # Idle, Silent, op'["config"] = op["config"],
           Mounted(cm, sets'),
           Busy(op'["cluster"], cr, cm, known', service', sets'),
           op'["cluster"] = Idle /\ cr # None => Fits(cr, known', service', sets')
    PROVE  Calm'
<1>1. ConfigQuiet /\ queue["cluster"] = <<>> /\ crStore = cr
  BY DEF Calm, ClusterQuiet, ClusterSide, Current, NewsInv
<1>2. cr' = cr /\ cm' = cm /\ crStore' = crStore /\ cmStore' = cmStore /\ queue' = queue
  BY DEF Silent
<1>3. ConfigQuiet'
  BY <1>1, <1>2 DEF ConfigQuiet
<1>4. ClusterSide'
  BY <1>1, <1>2, <1>3 DEF ClusterSide, ClusterQuiet
<1> QED
  BY <1>1, <1>2, <1>4, ClusterMoves

LEMMA ConfigCall ==
    ASSUME Inv, Current, Calm, op["config"] # Idle, Silent, op'["cluster"] = op["cluster"],
           known' = known, service' = service,
           \A r \in RackNames : Alike(sets[r], sets'[r]),
           IF op'["config"] = Idle THEN Mounted(cm, sets') ELSE Mounting(op'["config"], cm, sets')
    PROVE  Calm'
<1>1. ClusterQuiet /\ ~ConfigQuiet /\ queue["config"] = <<>> /\ cmStore = cm
  BY DEF Calm, ConfigQuiet, ConfigSide, Current, NewsInv
<1>2. cr' = cr /\ cm' = cm /\ crStore' = crStore /\ cmStore' = cmStore /\ queue' = queue
  BY DEF Silent
<1>3. cr \in Absent(Specs) /\ Fits(cr, known, service, sets)
  BY <1>1, TypeParts DEF Calm, ClusterSide, Inv, ApiType
<1>4. Fits(cr, known, service, sets')
  BY <1>3, FitsStays
<1>5. ConfigSide'
  BY <1>1, <1>2 DEF ConfigSide, ConfigQuiet
<1> QED
  BY <1>1, <1>2, <1>4, <1>5, ConfigMoves

LEMMA InitCalm == Init => Calm
<1> SUFFICES ASSUME Init PROVE Calm
  OBVIOUS
<1>1. /\ op["cluster"] = Idle /\ op["config"] = Idle
      /\ queue["cluster"] = <<>> /\ queue["config"] = <<>>
      /\ cr = None /\ crStore = cr /\ cmStore = cm /\ \A r \in RackNames : sets[r] = None
  BY TwoWorkers DEF Init
<1>2. ClusterQuiet /\ ConfigQuiet
  BY <1>1 DEF ClusterQuiet, ConfigQuiet
<1>3. Mounted(cm, sets)
  BY <1>1 DEF Mounted, Mounts
<1> QED
  BY <1>1, <1>2, <1>3, IdleBusy DEF Calm, ClusterSide, ConfigSide

(* What users find when they make a change. *)
LEMMA QuiescentFits ==
    ASSUME Inv, Deletions, NoFailures, Calm, Quiescent
    PROVE  /\ ClusterQuiet /\ ConfigQuiet
           /\ Fits(cr, known, service, sets) /\ Mounted(cm, sets)
<1>1. ClusterQuiet /\ ConfigQuiet
  BY TwoWorkers DEF Quiescent, ClusterQuiet, ConfigQuiet
<1>2. Mounted(cm, sets)
  BY <1>1 DEF Calm, ConfigSide
<1>3. CASE cr # None
  BY <1>1, <1>3, <1>2 DEF Calm, ClusterSide
<1>4. CASE cr = None
  <2>1. crStore = None /\ queue["cluster"] = <<>> /\ op["cluster"].step = "idle"
    BY <1>1, <1>4, IdleType DEF ClusterQuiet
  <2>2. known = None
    BY <2>1 DEF Deletions, DeletionComes
  <2>3. ~service /\ \A r \in RackNames : sets[r] = None
    BY <2>1, <2>2 DEF Deletions, NothingLeft, Quiescent
  <2> QED
    BY <1>1, <1>2, <1>4, <2>2, <2>3 DEF Fits, Gone
<1> QED
  BY <1>3, <1>4

LEMMA UserCalm ==
    ASSUME CalmUsers, SupportedOnly, Inv, Deletions, NoFailures, Calm, User PROVE Calm'
<1>1. Quiescent /\ UNCHANGED <<sets, service, crStore, cmStore, known, queue, op>>
  BY CalmEdit DEF operator
<1>2. ClusterQuiet /\ ConfigQuiet /\ Fits(cr, known, service, sets) /\ Mounted(cm, sets)
  BY <1>1, QuiescentFits
<1>3. CASE cm' = cm /\ cr' # cr /\ (cr' # None => cr = None \/ Supported(cr, cr'))
  <2>1. crStore' # cr' /\ queue'["cluster"] = <<>> /\ op'["cluster"] = Idle /\ crStore' = cr
    BY <1>1, <1>2, <1>3 DEF ClusterQuiet
  <2>2. ClusterSide'
    BY <1>1, <1>2, <1>3, <2>1, IdleBusy DEF ClusterSide, ClusterQuiet
  <2> QED
    BY <1>1, <1>2, <1>3, <2>2, ClusterMoves
<1>4. CASE cm' # cm /\ cr' = cr
  <2>1. cmStore' = cm /\ queue'["config"] = <<>> /\ op'["config"] = Idle
    BY <1>1, <1>2 DEF ConfigQuiet
  <2>2. ConfigSide'
    BY <1>1, <1>2, <1>4, <2>1 DEF ConfigSide, ConfigQuiet
  <2> QED
    BY <1>1, <1>2, <1>4, <2>2, ConfigMoves
<1>5. ASSUME NEW s \in Specs, EditCluster(s)
      PROVE  cm' = cm /\ cr' # cr /\ (cr' # None => cr = None \/ Supported(cr, cr'))
  BY <1>5 DEF EditCluster
<1>6. ASSUME DeleteCluster PROVE cm' = cm /\ cr' # cr /\ cr' = None
  BY <1>6 DEF DeleteCluster
<1>7. ASSUME NEW v \in Configs \cup {None}, EditConfig(v) PROVE cm' # cm /\ cr' = cr
  BY <1>7 DEF EditConfig
<1> QED
  BY <1>3, <1>4, <1>5, <1>6, <1>7 DEF User

LEMMA InformerCalm ==
    ASSUME Inv, Current, Calm, CassandraInformer \/ ConfigMapInformer PROVE Calm'
<1>1. /\ queue \in [Workers -> Seq(Events)]
      /\ "cluster" \in Workers /\ "config" \in Workers /\ "cluster" # "config"
  BY TypeParts, TwoWorkers DEF Inv, QueueType
<1>2. op' = op /\ known' = known /\ cr' = cr /\ cm' = cm /\ sets' = sets /\ service' = service
  BY DEF CassandraInformer, ConfigMapInformer, api
<1>3. CASE CassandraInformer
  <2> DEFINE e == IF crStore = None THEN [kind |-> "add", new |-> cr]
                  ELSE IF cr = None THEN [kind |-> "delete"]
                  ELSE [kind |-> "update", old |-> crStore, new |-> cr]
  <2>1. Dispatch("cluster", e) /\ crStore' = cr /\ cmStore' = cmStore /\ crStore # cr
    BY <1>3 DEF CassandraInformer
  <2>2. queue["cluster"] = <<>> /\ op["cluster"] = Idle /\ ConfigQuiet
    BY <2>1 DEF Current, NewsInv, Calm, ClusterQuiet
  <2>3. ClusterWaits(e, known, service, sets)
    <3>1. CASE crStore = None
      <4>1. Fits(crStore, known, service, sets) /\ e.kind = "add"
        BY <2>1, <3>1 DEF Calm, ClusterSide
      <4> QED
        BY <3>1, <4>1 DEF Fits, ClusterWaits
    <3>2. CASE crStore # None /\ cr = None
      <4>1. e.kind = "delete"
        BY <3>2
      <4> QED
        BY <4>1 DEF ClusterWaits
    <3>3. CASE crStore # None /\ cr # None
      <4>1. Fits(crStore, known, service, sets) /\ Supported(crStore, cr)
        BY <2>1, <3>3 DEF Calm, ClusterSide
      <4>2. e.kind = "update" /\ e.old = crStore /\ e.new = cr
        BY <3>3
      <4> QED
        BY <4>1, <4>2 DEF ClusterWaits
    <3> QED
      BY <3>1, <3>2, <3>3
  <2> HIDE DEF e
  <2>4. queue'["config"] = queue["config"] /\ queue'["cluster"] = Append(<<>>, e)
    BY <1>1, <2>1, <2>2 DEF Dispatch
  <2>5. queue'["cluster"] # <<>> /\ Head(queue'["cluster"]) = e /\ Tail(queue'["cluster"]) = <<>>
    BY <2>4
  <2>6. ClusterSide'
    BY <1>2, <2>1, <2>2, <2>3, <2>5, IdleBusy DEF ClusterSide, ClusterQuiet
  <2>7. Mounted(cm, sets')
    BY <1>2, <2>2 DEF Calm, ConfigSide
  <2> QED
    BY <1>2, <2>1, <2>2, <2>4, <2>6, <2>7, ClusterMoves
<1>4. CASE ConfigMapInformer
  <2>1. cmStore' = cm /\ crStore' = crStore /\ cmStore # cm
    BY <1>4 DEF ConfigMapInformer
  <2>2. queue["config"] = <<>> /\ op["config"] = Idle /\ ClusterQuiet /\ ~ConfigQuiet
    BY <2>1 DEF Current, NewsInv, Calm, ConfigQuiet
  <2>3. Fits(cr, known, service, sets) /\ Mounted(cmStore, sets)
    BY <2>1, <2>2 DEF Calm, ClusterSide, ConfigSide
  <2>4. CASE cmStore # None /\ known = None
    <3>1. queue' = queue
      BY <2>4, <1>4 DEF ConfigMapInformer
    <3>2. Mounted(cm, sets)
      BY <2>3, <2>4, FitsUnknown, GoneMounted
    <3>3. ConfigSide'
      BY <1>2, <2>1, <2>2, <3>1, <3>2 DEF ConfigSide, ConfigQuiet
    <3> QED
      BY <1>2, <2>1, <2>2, <2>3, <3>1, <3>3, ConfigMoves
  <2>5. CASE ~(cmStore # None /\ known = None)
    <3> DEFINE e == IF cmStore = None THEN [kind |-> "addConfig", cfg |-> cm]
                    ELSE IF cm = None THEN [kind |-> "deleteConfig", cfg |-> cmStore]
                                      ELSE [kind |-> "updateConfig", cfg |-> cm]
    <3>1. Dispatch("config", e)
      BY <2>5, <1>4 DEF ConfigMapInformer
    <3>2. ConfigWaits(e, sets)
      <4>1. CASE cmStore = None
        <5>1. e.kind = "addConfig"
          BY <4>1
        <5> QED
          BY <2>3, <4>1, <5>1 DEF ConfigWaits, Mounted, Mounts
      <4>2. CASE cmStore # None
        <5>1. e.kind # "addConfig"
          BY <4>2
        <5> QED
          BY <2>3, <4>2, <5>1 DEF ConfigWaits, Mounted, Mounts
      <4> QED
        BY <4>1, <4>2
    <3> HIDE DEF e
    <3>3. queue'["cluster"] = queue["cluster"] /\ queue'["config"] = Append(<<>>, e)
      BY <1>1, <2>2, <3>1 DEF Dispatch
    <3>4. queue'["config"] # <<>> /\ Head(queue'["config"]) = e /\ Tail(queue'["config"]) = <<>>
      BY <3>3
    <3>5. ConfigSide'
      BY <1>2, <2>1, <2>2, <3>2, <3>4 DEF ConfigSide, ConfigQuiet
    <3> QED
      BY <1>2, <2>1, <2>2, <2>3, <3>3, <3>5, ConfigMoves
  <2> QED
    BY <2>4, <2>5
<1> QED
  BY <1>3, <1>4

-----------------------------------------------------------------------------
(* What the StatefulSet controller does changes none of it. *)
LEMMA OpenNames ==
    ASSUME NEW o \in Operations, Ready(o)
    PROVE  /\ \A t \in Open(o) : t.rack.name \in RackNames
           /\ o.step \in TaskSteps => Head(o.todo).rack.name \in RackNames
<1>1. o.todo \in Seq(TaskRecords) /\ (o.step \in TaskSteps => o.todo # <<>>) /\ "wait" \in TaskSteps
  BY DEF Operations, Ready, TaskSteps
<1>2. \A t \in TaskRecords : t.rack.name \in RackNames
  <2>1. \A t \in TaskRecords : t.rack \in Racks
    BY DEF TaskRecords
  <2> QED
    BY <2>1, RackType
<1>3. /\ o.todo # <<>> => /\ Head(o.todo) \in Members(o.todo)
                          /\ Members(Tail(o.todo)) \subseteq Members(o.todo)
      /\ Members(o.todo) \subseteq TaskRecords
  BY <1>1, MembersOf
<1> QED
  BY <1>1, <1>2, <1>3 DEF Open

LEMMA AgreeAlike ==
    ASSUME NEW set, NEW new, Agree(set, new)
    PROVE  /\ Alike(set, new)
           /\ \A v : Mounts(set, v) => Mounts(new, v)
           /\ \A rack, s : RackFits(rack, s, set) => RackFits(rack, s, new)
           /\ \A t, s : Applies(t, s, set) => Applies(t, s, new)
BY DEF Agree, Alike, Mounts, RackFits, Applies

LEMMA BusyStays ==
    ASSUME NEW s \in Absent(Specs), NEW v, NEW map, NEW svc, NEW st, NEW tt,
           NEW o \in Operations, Ready(o), Busy(o, s, v, map, svc, st),
           \A r \in RackNames : Agree(st[r], tt[r])
    PROVE  Busy(o, s, v, map, svc, tt)
<1>1. \A r \in RackNames : (tt[r] = None <=> st[r] = None)
  BY DEF Agree
<1>2. Gone(map, svc, st) => Gone(map, svc, tt)
  BY <1>1 DEF Gone
<1>3. ASSUME Changing(o, s, v, map, svc, st) PROVE Changing(o, s, v, map, svc, tt)
  <2>1. s \in Specs
    BY <1>3 DEF Changing, Absent
  <2>2. \A rack \in RacksOf(s) : rack.name \in RackNames
    BY <2>1, SpecType
  <2>3. Owned(s, map, tt)
    BY <1>1, <1>3 DEF Changing, Owned
  <2>4. ASSUME NEW t \in Open(o) PROVE Applies(t, s, tt[t.rack.name])
    BY <1>3, OpenNames, AgreeAlike DEF Changing
  <2>5. ASSUME NEW rack \in RacksOf(s)
        PROVE  RackFits(rack, s, tt[rack.name]) \/ \E t \in Open(o) : t.rack.name = rack.name
    BY <1>3, <2>2, AgreeAlike DEF Changing
  <2>6. o.step = "wait" => tt[Head(o.todo).rack.name] # None
    BY <1>1, <1>3, OpenNames DEF Changing, TaskSteps
  <2> QED
    BY <1>3, <2>3, <2>4, <2>5, <2>6 DEF Changing
<1> QED
  BY <1>1, <1>2, <1>3 DEF Busy

LEMMA MountingStays ==
    ASSUME NEW v, NEW st, NEW tt, NEW o \in Operations, Ready(o), Mounting(o, v, st),
           \A r \in RackNames : Agree(st[r], tt[r]),
           o.step = "update" => tt[Head(o.todo).rack.name] = st[Head(o.todo).rack.name]
    PROVE  Mounting(o, v, tt)
<1>1. ASSUME NEW t \in Open(o)
      PROVE  /\ tt[t.rack.name] # None
             /\ t.type = "mount" => ~tt[t.rack.name].vol
             /\ t.type = "hash" => tt[t.rack.name].vol
  BY OpenNames DEF Mounting, Agree
<1>2. ASSUME NEW r \in RackNames PROVE Mounts(tt[r], v) \/ \E t \in Open(o) : t.rack.name = r
  BY AgreeAlike DEF Mounting
<1>3. o.step = "wait" => tt[Head(o.todo).rack.name] # None
  BY OpenNames DEF Mounting, Agree, TaskSteps
<1> QED
  BY <1>1, <1>2, <1>3 DEF Mounting

LEMMA RemovedCalm ==
    ASSUME Inv, Current, Calm, NEW n \in RackNames, Removed(n) PROVE Calm'
<1>1. /\ UNCHANGED <<cr, cm, service, crStore, cmStore, known, queue, op>>
      /\ \A r \in RackNames : Agree(sets[r], sets'[r]) \/ (sets[r].deleting /\ sets'[r] = None)
  BY ControllerDoes
<1>2. sets[n] # None /\ sets[n].deleting /\ cr = None
  BY DEF Removed, Current, Standing
<1>3. ConfigQuiet
  <2> SUFFICES ASSUME ~ConfigQuiet PROVE FALSE
    OBVIOUS
  <2>1. Gone(known, service, sets)
    BY <1>2 DEF Calm, ClusterSide, Fits
  <2> QED
    BY <1>2, <2>1 DEF Gone
<1>4. Mounted(cm, sets')
  <2>1. Mounted(cm, sets)
    BY <1>3 DEF Calm, ConfigSide
  <2>2. Mounts(None, cm)
    BY DEF Mounts
  <2>3. ASSUME NEW r \in RackNames PROVE Mounts(sets'[r], cm)
    BY <1>1, <2>1, <2>2, AgreeAlike DEF Mounted
  <2> QED
    BY <2>3 DEF Mounted
<1>5. ASSUME queue["cluster"] # <<>>
      PROVE  ClusterWaits(Head(queue["cluster"]), known, service, sets')
  <2> DEFINE e == Head(queue["cluster"])
  <2>1. queue["cluster"] \in Seq(ClusterEvents)
    BY DEF Inv, QueueInv
  <2>2. e \in ClusterEvents /\ e \in Members(queue["cluster"])
    BY <1>5, <2>1, MembersOf
  <2>3. ClusterNews(e, cr)
    BY <2>2 DEF Current, NewsInv
  <2>4. e.kind = "delete"
    BY <1>2, <2>2, <2>3, EventType, SpecType DEF ClusterNews
  <2> QED
    BY <2>4 DEF ClusterWaits
<1>6. Busy(op["cluster"], cr, cm, known, service, sets')
  <2>1. op["cluster"].def = None /\ op["cluster"].step \notin {"findExisting", "createService"}
    BY <1>2 DEF Current, ClusterWork
  <2>2. op["cluster"].step # "register"
    BY <2>1, OperationIsGood, TwoWorkers DEF GoodOperation, Ready
  <2>3. ~Changing(op["cluster"], cr, cm, known, service, sets)
    BY <1>2 DEF Changing
  <2>4. Busy(op["cluster"], cr, cm, known, service, sets)
    BY DEF Calm, ClusterSide
  <2> QED
    BY <2>1, <2>2, <2>3, <2>4 DEF Busy
<1>7. ConfigQuiet'
  BY <1>1, <1>3 DEF ConfigQuiet
<1>8. ClusterSide'
  BY <1>1, <1>2, <1>5, <1>6, <1>7 DEF Calm, ClusterSide
<1> QED
  BY <1>1, <1>3, <1>4, <1>8, ClusterMoves

LEMMA ControllerCalm ==
    ASSUME Inv, Current, Awaited, NoFailures, Calm,
           NEW n \in RackNames, Observe(n) \/ RolloutCompletes(n) \/ Removed(n)
    PROVE  Calm'
<1>1. CASE Removed(n)
  BY <1>1, RemovedCalm
<1>2. CASE ~Removed(n)
  <2>1. /\ UNCHANGED <<cr, cm, service, crStore, cmStore, known, queue, op>>
        /\ \A r \in RackNames : Agree(sets[r], sets'[r])
        /\ \A r \in RackNames : ~Unsettled(r) /\ ~(sets[r] # None /\ sets[r].deleting)
                                => sets'[r] = sets[r]
    BY <1>2, ControllerDoes
  <2>2. \A s \in Absent(Specs) : Fits(s, known, service, sets) => Fits(s, known, service, sets')
    BY <2>1, FitsStays, AgreeAlike
  <2>3. \A v : Mounted(v, sets) => Mounted(v, sets')
    BY <2>1, AgreeAlike DEF Mounted
  <2>4. cr \in Absent(Specs) /\ crStore \in Absent(Specs)
    BY TypeParts DEF Inv, ApiType, StoreType
  <2>5. op["cluster"] \in Operations /\ Ready(op["cluster"])
        /\ op["config"] \in Operations /\ Ready(op["config"])
    BY OperationIsGood, TwoWorkers DEF GoodOperation
  <2>6. Busy(op["cluster"], cr, cm, known, service, sets')
    BY <2>1, <2>4, <2>5, BusyStays DEF Calm, ClusterSide
  <2>7. ASSUME queue["cluster"] # <<>>
        PROVE  ClusterWaits(Head(queue["cluster"]), known, service, sets')
    <3> DEFINE e == Head(queue["cluster"])
    <3>1. queue["cluster"] \in Seq(ClusterEvents)
      BY DEF Inv, QueueInv
    <3>2. e \in ClusterEvents
      BY <2>7, <3>1
    <3>3. e.kind = "update" => e.old \in Absent(Specs)
      BY <3>2, EventType DEF Absent
    <3>4. ClusterWaits(e, known, service, sets)
      BY <2>7 DEF Calm, ClusterSide
    <3> QED
      BY <2>1, <2>2, <3>3, <3>4 DEF ClusterWaits, Gone, Agree
  <2>8. ClusterSide'
    BY <2>1, <2>2, <2>4, <2>6, <2>7 DEF Calm, ClusterSide, ClusterQuiet, ConfigQuiet
  <2>9. ASSUME op["config"] # Idle PROVE Mounting(op["config"], cm, sets')
    <3> DEFINE r == Head(op["config"].todo).rack.name
    <3>1. ASSUME op["config"].step = "update" PROVE sets'[r] = sets[r]
      <4>1. ClusterQuiet /\ r \in RackNames
        BY <2>5, <2>9, <3>1, OpenNames DEF Calm, ConfigQuiet, TaskSteps
      <4>2. ~Unsettled(r)
        <5>1. ~Awaits("cluster", r) /\ ~Awaits("config", r)
          BY <3>1, <4>1, IdleType DEF Awaits, At, ClusterQuiet
        <5> QED
          BY <4>1, <5>1, TwoWorkers DEF Awaited, AwaitedBy
      <4>3. ~(sets[r] # None /\ sets[r].deleting)
        <5>1. CASE cr = None
          <6>1. Gone(known, service, sets)
            BY <2>9, <4>1, <5>1 DEF Calm, ClusterSide, ConfigQuiet, Fits
          <6> QED
            BY <4>1, <6>1 DEF Gone
        <5>2. CASE cr # None
          BY <4>1, <5>2 DEF Current, Standing
        <5> QED
          BY <5>1, <5>2
      <4> QED
        BY <2>1, <4>1, <4>2, <4>3
    <3> QED
      BY <2>1, <2>5, <2>9, <3>1, MountingStays DEF Calm, ConfigSide
  <2>10. ConfigSide'
    BY <2>1, <2>3, <2>9 DEF Calm, ConfigSide, ConfigQuiet, ConfigWaits, Agree
  <2> QED
    BY <2>1, <2>8, <2>10 DEF Calm, ClusterQuiet, ConfigQuiet
<1> QED
  BY <1>1, <1>2

-----------------------------------------------------------------------------
LEMMA ReceiveConfigCalm ==
    ASSUME UniqueRacks, Inv, Current, Calm, NEW w \in Workers, w = "config", Receive(w) PROVE Calm'
<1> DEFINE e == Head(queue[w])
<1>1. /\ op[w] = Idle /\ queue[w] # <<>> /\ queue'[w] = Tail(queue[w])
      /\ \A v \in Workers : v # w => op'[v] = op[v] /\ queue'[v] = queue[v]
      /\ UNCHANGED <<cr, cm, crStore, cmStore, sets, service, budget>>
      /\ e \in ConfigEvents /\ ReceiveConfig(w) /\ e \in Members(queue[w])
  BY EventTaken
<1>2. /\ queue'["config"] = <<>> /\ cmStore = cm /\ ClusterQuiet /\ ~ConfigQuiet
      /\ ConfigWaits(e, sets)
  BY <1>1 DEF Calm, ConfigSide, ConfigQuiet
<1>3. Fits(cr, known, service, sets) /\ known' = known
  BY <1>1, <1>2 DEF Calm, ClusterSide, ReceiveConfig
<1>4. op'["cluster"] = op["cluster"] /\ queue'["cluster"] = queue["cluster"]
  BY <1>1, TwoWorkers
<1>5. ASSUME IF op'["config"] = Idle THEN Mounted(cm, sets) ELSE Mounting(op'["config"], cm, sets)
      PROVE  Calm'
  <2>1. ConfigSide'
    BY <1>1, <1>2, <1>5 DEF ConfigSide, ConfigQuiet
  <2> QED
    BY <1>1, <1>2, <1>3, <1>4, <2>1, ConfigMoves
<1>6. CASE known = None
  <2>1. op'[w] = Idle
    BY <1>1, <1>6, Begun DEF ReceiveConfig
  <2>2. Mounted(cm, sets)
    BY <1>3, <1>6, FitsUnknown, GoneMounted
  <2> QED
    BY <1>5, <2>1, <2>2
<1>7. CASE known # None
  <2>1. /\ cr # None /\ Owned(cr, known, sets)
        /\ \A rack \in RacksOf(cr) : RackFits(rack, cr, sets[rack.name])
    BY <1>3, <1>7, FitsUnknown
  <2>2. cr \in Specs /\ known.def.racks = cr.racks
    BY <2>1, TypeParts, DefinitionType DEF Inv, ApiType, Absent, Owned
  <2> DEFINE tasks == Tasks(ConfigTask[e.kind], cr.racks, None)
             o == Operation("next", tasks, e.cfg, None)
  <2>3. op'[w] = o
    BY <1>1, <1>7, <2>2, Begun DEF ReceiveConfig
  <2>4. o.step = "next" /\ o.todo = tasks
    BY DEF Operation
  <2> HIDE DEF o
  <2>5. /\ NamedOnce(tasks)
        /\ \A t \in Members(tasks) : t.type = ConfigTask[e.kind] /\ t.rack \in RacksOf(cr)
        /\ \A rack \in RacksOf(cr) : \E t \in Members(tasks) : t.rack = rack
    BY <2>2, EveryRack
  <2> HIDE DEF tasks
  <2>6. Open(o) = Members(tasks)
    BY <2>4 DEF Open
  <2>7. ASSUME NEW t \in Open(o)
        PROVE  /\ sets[t.rack.name] # None
               /\ t.type = "mount" => ~sets[t.rack.name].vol
               /\ t.type = "hash" => sets[t.rack.name].vol
    <3>1. t.rack \in RacksOf(cr) /\ t.type = ConfigTask[e.kind]
      BY <2>5, <2>6
    <3>2. sets[t.rack.name] # None /\ t.rack.name \in RackNames
      BY <2>1, <2>2, <3>1, SpecType DEF RackFits
    <3>3. e.kind \in {"addConfig", "updateConfig", "deleteConfig"}
      BY <1>1, EventType
    <3>4. (t.type = "mount" => e.kind = "addConfig") /\ (t.type = "hash" => e.kind = "updateConfig")
      BY <3>1, <3>3 DEF ConfigTask
    <3> QED
      BY <1>2, <3>2, <3>4 DEF ConfigWaits
  <2>8. ASSUME NEW r \in RackNames PROVE Mounts(sets[r], cm) \/ \E t \in Open(o) : t.rack.name = r
    <3>1. CASE sets[r] = None
      BY <3>1 DEF Mounts
    <3>2. CASE sets[r] # None
      <4>1. PICK rack \in RacksOf(cr) : rack.name = r
        BY <2>1, <2>2, <3>2, RackFound DEF Owned
      <4> QED
        BY <2>5, <2>6, <4>1
    <3> QED
      BY <3>1, <3>2
  <2>9. Mounting(o, cm, sets)
    BY <2>4, <2>5, <2>7, <2>8 DEF Mounting
  <2>10. op'["config"] # Idle
    BY <2>3, <2>4, IdleType
  <2> QED
    BY <1>5, <2>3, <2>9, <2>10
<1> QED
  BY <1>6, <1>7

LEMMA ReceiveClusterCalm ==
    ASSUME UniqueRacks, Inv, Current, Calm, NEW w \in Workers, w = "cluster", Receive(w) PROVE Calm'
<1> DEFINE e == Head(queue[w])
<1>1. /\ op[w] = Idle /\ queue[w] # <<>> /\ queue'[w] = Tail(queue[w])
      /\ \A v \in Workers : v # w => op'[v] = op[v] /\ queue'[v] = queue[v]
      /\ UNCHANGED <<cr, cm, crStore, cmStore, sets, service, budget>>
      /\ e \in ClusterEvents /\ ~ReceiveConfig(w) /\ e \in Members(queue[w])
  BY EventTaken
<1>2. /\ queue'["cluster"] = <<>> /\ crStore = cr /\ ConfigQuiet
      /\ ClusterWaits(e, known, service, sets)
  BY <1>1 DEF Calm, ClusterSide, ClusterQuiet
<1>3. op'["config"] = op["config"] /\ queue'["config"] = queue["config"] /\ Mounted(cm, sets)
  BY <1>1, <1>2, TwoWorkers DEF Calm, ConfigSide
<1>4. /\ ClusterNews(e, cr) /\ e.kind \in {"add", "delete", "update"}
      /\ e.kind \in {"add", "update"} => e.new \in Specs
      /\ e.kind = "update" => e.old \in Specs
  BY <1>1, EventType DEF Current, NewsInv
<1>5. ASSUME Busy(op'["cluster"], cr, cm, known', service, sets),
             op'["cluster"] = Idle => cr = None
      PROVE  Calm'
  <2>1. ConfigQuiet'
    BY <1>1, <1>2, <1>3 DEF ConfigQuiet
  <2>2. ClusterSide'
    BY <1>1, <1>2, <1>5, <2>1 DEF ClusterSide, ClusterQuiet
  <2> QED
    BY <1>1, <1>2, <1>3, <2>2, ClusterMoves
<1>6. ASSUME e.kind = "update"
      PROVE  /\ e.new = cr /\ cr \in Specs /\ e.old \in Specs /\ Supported(e.old, cr)
             /\ Fits(e.old, known, service, sets) /\ known # None /\ Valid(cr)
             /\ ~ChangeForbidden(e.old, cr)
  <2>1. /\ e.new = cr /\ cr \in Specs /\ e.old \in Specs /\ Supported(e.old, cr)
        /\ Fits(e.old, known, service, sets)
    BY <1>2, <1>4, <1>6 DEF ClusterNews, ClusterWaits
  <2>2. Valid(e.old) /\ Valid(cr) /\ ~ChangeForbidden(e.old, cr) /\ e.old # None
    BY <2>1, SpecType DEF Supported
  <2> QED
    BY <2>1, <2>2 DEF Fits, Owned
<1>7. CASE ReceiveAdd(w)
  <2> DEFINE o == Operation("findConfig", <<>>, None, e.new)
  <2>1. op'[w] = o /\ e.kind = "add" /\ known' = known
    BY <1>6, <1>7, Begun DEF ReceiveAdd, Takes
  <2>2. o.step = "findConfig" /\ o.def = e.new
    BY DEF Operation
  <2> HIDE DEF o
  <2>3. e.new # None /\ Gone(known, service, sets)
    BY <1>2, <1>4, <2>1, SpecType DEF ClusterWaits
  <2>4. Busy(o, cr, cm, known, service, sets)
    BY <2>2, <2>3 DEF Busy
  <2>5. o # Idle
    BY <2>2, IdleType
  <2> QED
    BY <1>5, <2>1, <2>4, <2>5
<1>8. CASE ReceiveDelete(w)
  <2>1. cr = None
    BY <1>4, <1>8 DEF ReceiveDelete, Takes, ClusterNews
  <2> DEFINE o == Operation("deleteSets", <<>>, None, None)
  <2>2. op'[w] = Idle \/ op'[w] = o
    BY <1>8, Begun DEF ReceiveDelete
  <2>3. o.step = "deleteSets"
    BY DEF Operation
  <2> HIDE DEF o
  <2>4. Busy(o, cr, cm, known', service, sets)
    BY <2>3 DEF Busy
  <2> QED
    BY <1>5, <2>1, <2>2, <2>4, IdleBusy
<1>9. CASE ReceiveUpdate(w)
  <2> DEFINE tasks == ChangesForCluster(e.old, cr)
             o == Operation("next", tasks, None, None)
  <2>1. e.kind = "update"
    BY <1>9 DEF ReceiveUpdate, Takes
  <2>2. op'[w] = o /\ known' = [known EXCEPT !.def = Definition(cr)]
    BY <1>6, <1>9, <2>1, Begun DEF ReceiveUpdate
  <2> HIDE DEF tasks
  <2>3. o.step = "next" /\ o.todo = tasks /\ o.def = None
    BY DEF Operation
  <2> HIDE DEF o
  <2>4. known' # None /\ known'.def = Definition(cr)
    <3>1. known \in Knowns /\ known # None
      BY <1>6, <2>1, TypeParts DEF Inv
    <3>2. known = [def |-> known.def, online |-> known.online] /\ known.online \in BOOLEAN
      BY <3>1, KnownType DEF Knowns, Absent
    <3>3. known' = [def |-> Definition(cr), online |-> known.online]
      BY <2>2, <3>2
    <3>4. Definition(cr) \in Defs
      BY <1>6, <2>1, DefinitionType
    <3>5. known' # None
      BY <3>1, <3>2, <3>3, <3>4, KnownType
    <3> QED
      BY <3>3, <3>5
  <2>5. Changing(o, cr, cm, known', service, sets)
    BY <1>6, <2>1, <2>3, <2>4, UpdateBegins DEF tasks
  <2>6. Busy(o, cr, cm, known', service, sets) /\ o # Idle
    BY <2>3, <2>5, IdleType DEF Busy
  <2> QED
    BY <1>5, <2>2, <2>6
<1> QED
  BY <1>1, <1>7, <1>8, <1>9 DEF Receive

-----------------------------------------------------------------------------
(* What the writes leave in a StatefulSet. *)
LEMMA ChangedFields ==
    ASSUME NEW set \in StatefulSets, NEW new \in StatefulSets, NEW written, written = Changed(set, new)
    PROVE  /\ written # None
           /\ written.replicas = new.replicas /\ written.pod = new.pod /\ written.boot = new.boot
           /\ written.fixed = new.fixed /\ written.vol = new.vol /\ written.hash = new.hash
<1> DEFINE next == [new EXCEPT !.gen = @ + 1]
<1>1. next \in StatefulSets
  BY DEF StatefulSets
<1>2. /\ next.replicas = new.replicas /\ next.pod = new.pod /\ next.boot = new.boot
      /\ next.fixed = new.fixed /\ next.vol = new.vol /\ next.hash = new.hash
  BY DEF StatefulSets
<1>3. written = set \/ written = next
  BY DEF Changed
<1>4. written = set => new = set \/ written = next
  BY DEF Changed
<1> HIDE DEF next
<1> QED
  BY <1>1, <1>2, <1>3, <1>4, SetAssumption

LEMMA PatchedFits ==
    ASSUME NEW set \in StatefulSets, NEW s, NEW rack, PatchFor(rack, s) \in Patches, set.fixed = s.fixed
    PROVE  /\ RackFits(rack, s, Patched(set, PatchFor(rack, s)))
           /\ \A v : Mounts(set, v) => Mounts(Patched(set, PatchFor(rack, s)), v)
<1> DEFINE patch == PatchFor(rack, s)
           new == [set EXCEPT !.replicas = patch.replicas, !.pod = patch.pod, !.boot = patch.boot]
           written == Patched(set, patch)
<1>1. /\ patch.replicas \in Nat /\ patch.pod \in Pods /\ patch.boot \in Images
      /\ patch.replicas = rack.replicas /\ patch.pod = s.pod /\ patch.boot = s.boot
  BY DEF Patches, PatchFor
<1> HIDE DEF patch
<1>2. /\ new \in StatefulSets
      /\ new.replicas = patch.replicas /\ new.pod = patch.pod /\ new.boot = patch.boot
      /\ new.fixed = set.fixed /\ new.vol = set.vol /\ new.hash = set.hash
  BY <1>1 DEF StatefulSets
<1>3. written = Changed(set, new)
  BY DEF Patched
<1> HIDE DEF new, written
<1>4. /\ written # None
      /\ written.replicas = new.replicas /\ written.pod = new.pod /\ written.boot = new.boot
      /\ written.fixed = new.fixed /\ written.vol = new.vol /\ written.hash = new.hash
  BY <1>2, <1>3, ChangedFields
<1>5. RackFits(rack, s, written)
  BY <1>1, <1>2, <1>4 DEF RackFits
<1>6. \A v : Mounts(set, v) => Mounts(written, v)
  BY <1>2, <1>4, SetAssumption DEF Mounts
<1> QED
  BY <1>5, <1>6 DEF written, patch

LEMMA NewFits ==
    ASSUME ImagesGiven, NEW s \in Specs, NEW rack \in Racks, NEW cfg \in Absent(Configs)
    PROVE  /\ RackFits(rack, s, NewStatefulSet(Definition(s), rack, cfg))
           /\ Mounts(NewStatefulSet(Definition(s), rack, cfg), cfg)
<1> DEFINE new == NewStatefulSet(Definition(s), rack, cfg)
<1>1. new \in StatefulSets
  BY DefinitionType, NewStatefulSetType
<1>2. new # None
  BY <1>1, SetAssumption
<1>3. /\ new.replicas = rack.replicas /\ new.pod = Definition(s).pod /\ new.boot = Definition(s).boot
      /\ new.fixed = Definition(s).fixed /\ new.vol = (cfg # None) /\ new.hash = cfg
  BY DEF NewStatefulSet
<1> HIDE DEF new
<1>4. RackFits(rack, s, new) /\ Mounts(new, cfg)
  BY <1>2, <1>3, GivenImage DEF RackFits, Mounts
<1> QED
  BY <1>4 DEF new

LEMMA MountFits ==
    ASSUME NEW set \in StatefulSets, NEW cfg \in Absent(Configs)
    PROVE  /\ Alike(set, WithHash(set, cfg)) /\ Alike(set, WithVolume(set, cfg))
           /\ Alike(set, WithoutVolume(set))
           /\ cfg # None => Mounts(WithVolume(set, cfg), cfg)
           /\ cfg # None /\ set.vol => Mounts(WithHash(set, cfg), cfg)
           /\ Mounts(WithoutVolume(set), None)
           /\ WithHash(set, cfg) # None /\ WithVolume(set, cfg) # None /\ WithoutVolume(set) # None
<1>1. set # None /\ None \in Absent(Configs)
  BY SetAssumption DEF Absent
<1>2. ASSUME NEW new \in StatefulSets, NEW written, written = Changed(set, new),
             new.replicas = set.replicas, new.pod = set.pod, new.boot = set.boot, new.fixed = set.fixed
      PROVE  Alike(set, written) /\ written # None /\ written.vol = new.vol /\ written.hash = new.hash
  <2>1. /\ written # None
        /\ written.replicas = new.replicas /\ written.pod = new.pod /\ written.boot = new.boot
        /\ written.fixed = new.fixed /\ written.vol = new.vol /\ written.hash = new.hash
    BY <1>2, ChangedFields
  <2> QED
    BY <1>1, <1>2, <2>1 DEF Alike
<1>3. /\ Alike(set, WithHash(set, cfg)) /\ WithHash(set, cfg) # None
      /\ cfg # None /\ set.vol => Mounts(WithHash(set, cfg), cfg)
  <2> DEFINE new == [set EXCEPT !.hash = cfg]
  <2>1. /\ new \in StatefulSets /\ new.replicas = set.replicas /\ new.pod = set.pod
        /\ new.boot = set.boot /\ new.fixed = set.fixed /\ new.vol = set.vol /\ new.hash = cfg
    BY DEF StatefulSets
  <2>2. WithHash(set, cfg) = Changed(set, new)
    BY DEF WithHash
  <2> HIDE DEF new
  <2> QED
    BY <1>2, <2>1, <2>2 DEF Mounts
<1>4. /\ Alike(set, WithVolume(set, cfg)) /\ WithVolume(set, cfg) # None
      /\ cfg # None => Mounts(WithVolume(set, cfg), cfg)
  <2> DEFINE new == [set EXCEPT !.vol = TRUE, !.hash = cfg]
  <2>1. /\ new \in StatefulSets /\ new.replicas = set.replicas /\ new.pod = set.pod
        /\ new.boot = set.boot /\ new.fixed = set.fixed /\ new.vol = TRUE /\ new.hash = cfg
    BY DEF StatefulSets
  <2>2. WithVolume(set, cfg) = Changed(set, new)
    BY DEF WithVolume
  <2> HIDE DEF new
  <2> QED
    BY <1>2, <2>1, <2>2 DEF Mounts
<1>5. /\ Alike(set, WithoutVolume(set)) /\ WithoutVolume(set) # None
      /\ Mounts(WithoutVolume(set), None)
  <2> DEFINE new == [set EXCEPT !.vol = FALSE, !.hash = None]
  <2>1. /\ new \in StatefulSets /\ new.replicas = set.replicas /\ new.pod = set.pod
        /\ new.boot = set.boot /\ new.fixed = set.fixed /\ new.vol = FALSE /\ new.hash = None
    BY <1>1 DEF StatefulSets
  <2>2. WithoutVolume(set) = Changed(set, new)
    BY DEF WithoutVolume
  <2> HIDE DEF new
  <2> QED
    BY <1>2, <2>1, <2>2 DEF Mounts
<1> QED
  BY <1>3, <1>4, <1>5

-----------------------------------------------------------------------------
(* The calls of the operations on the cluster. *)
LEMMA ClusterTurn ==
    ASSUME Inv, Calm, NEW w \in Workers, w = "cluster", Execute(w), op[w].step # "idle"
    PROVE  /\ op["cluster"] # Idle /\ op'["config"] = op["config"]
           /\ Mounted(cm, sets) /\ Busy(op[w], cr, cm, known, service, sets)
<1>1. op["cluster"] # Idle
  BY IdleType
<1>2. op'["config"] = op["config"]
  BY OthersKept, TwoWorkers
<1> QED
  BY <1>1, <1>2 DEF Calm, ClusterQuiet, ClusterSide, ConfigSide

LEMMA SetUpCalm ==
    ASSUME UniqueRacks, Inv, Current, Calm, NEW w \in Workers, w = "cluster",
           FindConfig(w) \/ Register(w) \/ FindExisting(w) \/ CreateService(w)
    PROVE  Calm'
<1>1. /\ op[w].step \in {"findConfig", "register", "findExisting", "createService"}
      /\ op[w].step # "idle" /\ Execute(w) /\ Silent /\ sets' = sets
  BY DEF FindConfig, Register, FindExisting, CreateService, At, Execute, Silent, api
<1>2. /\ op["cluster"] # Idle /\ op'["config"] = op["config"]
      /\ Mounted(cm, sets) /\ Busy(op[w], cr, cm, known, service, sets)
      /\ ClusterWork(op[w], known, cr)
  BY <1>1, ClusterTurn DEF Current
<1>3. ASSUME Busy(op'[w], cr, cm, known', service', sets),
             op'[w] = Idle /\ cr # None => Fits(cr, known', service', sets)
      PROVE  Calm'
  BY <1>1, <1>2, <1>3, ClusterCall
<1>4. CASE FindConfig(w)
  <2>1. op[w].step = "findConfig" /\ known' = known /\ service' = service /\ ConfigIs(w, cm)
    BY <1>4 DEF FindConfig, At, api
  <2>2. /\ op'[w].step = IF op[w].def # None THEN "register" ELSE "create"
        /\ op'[w].cfg = cm /\ op'[w].todo = op[w].todo /\ op'[w].def = op[w].def
    BY <2>1, ConfigRead
  <2>3. op'[w] # Idle
    BY <2>2, IdleType
  <2>4. CASE op[w].def # None
    <3>1. Busy(op'[w], cr, cm, known, service, sets)
      BY <1>2, <2>1, <2>2, <2>4 DEF Busy
    <3> QED
      BY <1>3, <2>1, <2>3, <3>1
  <2>5. CASE op[w].def = None
    <3>1. Changing(op[w], cr, cm, known, service, sets)
      BY <1>2, <2>1, <2>5 DEF Busy
    <3>2. Open(op'[w]) = Open(op[w]) /\ op'[w].step = "create"
      BY <2>1, <2>2, <2>5 DEF Open
    <3>3. NamedOnce(op'[w].todo)
      BY <2>2, <3>1 DEF Changing
    <3>4. Changing(op'[w], cr, cm, known, service, sets)
      BY <2>2, <3>1, <3>2, <3>3, ChangingGoesOn
    <3>5. Busy(op'[w], cr, cm, known, service, sets)
      BY <3>2, <3>4 DEF Busy
    <3> QED
      BY <1>3, <2>1, <2>3, <3>5
  <2> QED
    BY <2>4, <2>5
<1>5. CASE Register(w)
  <2>1. /\ op[w].step = "register" /\ service' = service
        /\ Gone(known, service, sets) /\ op[w].cfg = cm
    BY <1>2, <1>5 DEF Register, At, api, Busy
  <2>2. op[w].def = cr /\ cr \in Specs /\ cr # None
    BY <1>2, <2>1, OperationIsGood, TypeParts DEF GoodOperation, Ready, ClusterWork, Inv, ApiType, Absent
  <2>3. CASE ~Valid(cr)
    <3>1. op'[w] = Idle /\ known' = known
      BY <1>5, <2>2, <2>3, Ended DEF Register
    <3>2. Fits(cr, known, service, sets)
      BY <2>1, <2>3 DEF Fits
    <3> QED
      BY <1>3, <2>1, <3>1, <3>2, IdleBusy
  <2>4. CASE Valid(cr)
    <3>1. known' = [def |-> Definition(cr), online |-> FALSE] /\ Goto(w, "findExisting")
      BY <1>5, <2>2, <2>4 DEF Register
    <3>2. op'[w].step = "findExisting" /\ op'[w].cfg = cm
      BY <2>1, <3>1, WentOn DEF Same
    <3>3. known' # None
      BY <2>2, <3>1, NoneAssumption
    <3>4. Busy(op'[w], cr, cm, known', service, sets)
      BY <2>1, <2>2, <2>4, <3>2, <3>3 DEF Busy, Gone
    <3>5. op'[w] # Idle
      BY <3>2, IdleType
    <3> QED
      BY <1>3, <2>1, <3>4, <3>5
  <2> QED
    BY <2>3, <2>4
<1>6. CASE FindExisting(w)
  <2>1. op[w].step = "findExisting" /\ service' = service
    BY <1>6 DEF FindExisting, At, api
  <2>2. /\ cr # None /\ Valid(cr) /\ op[w].cfg = cm /\ known # None
        /\ ~service /\ \A r \in RackNames : sets[r] = None
    BY <1>2, <2>1 DEF Busy
  <2>3. Goto(w, "createService") /\ known' = known
    BY <1>6, <2>2 DEF FindExisting
  <2>4. op'[w].step = "createService" /\ op'[w].cfg = cm
    BY <2>2, <2>3, WentOn DEF Same
  <2>5. Busy(op'[w], cr, cm, known, service, sets) /\ op'[w] # Idle
    BY <2>2, <2>4, IdleType DEF Busy
  <2> QED
    BY <1>3, <2>1, <2>3, <2>5
<1>7. CASE CreateService(w)
  <2>1. op[w].step = "createService" /\ service' = TRUE /\ known' = known
    BY <1>7 DEF CreateService, At
  <2>2. /\ cr # None /\ Valid(cr) /\ op[w].cfg = cm /\ known # None
        /\ ~service /\ \A r \in RackNames : sets[r] = None
    BY <1>2, <2>1 DEF Busy
  <2>3. op[w].def # None /\ known.def = Definition(cr) /\ cr \in Specs
    BY <1>2, <2>1, <2>2, TypeParts DEF ClusterWork, Inv, ApiType, Absent
  <2>4. known.def.racks = cr.racks
    BY <2>3, DefinitionType
  <2> DEFINE tasks == Tasks("create rack", cr.racks, None)
             o == [op[w] EXCEPT !.step = "next", !.todo = tasks]
  <2>5. op[w] \in Operations /\ OpType
    BY OperationIsGood, TypeParts DEF Inv
  <2>6. op' = [op EXCEPT ![w] = o]
    BY <1>7, <2>2, <2>4, <2>5 DEF CreateService, OpType
  <2>7. o.step = "next" /\ o.todo = tasks /\ o.def = op[w].def /\ o.cfg = op[w].cfg
    BY <2>5 DEF Operations
  <2> HIDE DEF o
  <2>8. op'[w] = o
    BY <2>5, <2>6 DEF OpType
  <2>9. PICK type : type = "create rack"
    OBVIOUS
  <2>10. /\ NamedOnce(tasks)
         /\ \A t \in Members(tasks) : t.type = "create rack" /\ t.rack \in RacksOf(cr)
         /\ \A rack \in RacksOf(cr) : \E t \in Members(tasks) : t.rack = rack
    <3>1. LET all == Tasks(type, cr.racks, None)
          IN  /\ NamedOnce(all)
              /\ \A t \in Members(all) : t.type = type /\ t.rack \in RacksOf(cr)
              /\ \A rack \in RacksOf(cr) : \E t \in Members(all) : t.rack = rack
      BY <2>3, EveryRack
    <3> QED
      BY <2>9, <3>1
  <2> HIDE DEF tasks
  <2>11. Open(o) = Members(tasks)
    BY <2>7 DEF Open
  <2>12. Owned(cr, known, sets)
    BY <2>2, <2>3 DEF Owned
  <2>13. \A t \in Open(o) : Applies(t, cr, sets[t.rack.name])
    <3>1. \A rack \in RacksOf(cr) : rack.name \in RackNames
      BY <2>3, SpecType
    <3> QED
      BY <2>2, <2>10, <2>11, <3>1 DEF Applies
  <2>14. Changing(o, cr, cm, known, TRUE, sets)
    BY <2>2, <2>3, <2>7, <2>10, <2>11, <2>12, <2>13 DEF Changing
  <2>15. Busy(o, cr, cm, known, TRUE, sets) /\ o # Idle
    BY <2>7, <2>14, IdleType DEF Busy
  <2> QED
    BY <1>3, <2>1, <2>8, <2>15
<1> QED
  BY <1>4, <1>5, <1>6, <1>7

(* The tasks of an operation on the cluster. *)
LEMMA RacksChanging ==
    ASSUME Inv, Calm, NEW w \in Workers, w = "cluster", op[w].step \in {"next", "create", "patch", "wait"}
    PROVE  /\ Changing(op[w], cr, cm, known, service, sets)
           /\ cr \in Specs /\ op[w].todo \in Seq(TaskRecords)
           /\ NamedOnce(op[w].todo)
           /\ op[w].step # "wait" => Open(op[w]) = Members(op[w].todo)
           /\ op[w].step \in {"create", "patch", "wait"} => op[w].todo # <<>>
           /\ op[w].todo # <<>> => /\ Head(op[w].todo) \in Members(op[w].todo)
                                   /\ Task(w) = Head(op[w].todo)
<1>1. Changing(op[w], cr, cm, known, service, sets)
  BY DEF Calm, ClusterSide, Busy
<1>2. cr \in Specs /\ NamedOnce(op[w].todo)
  BY <1>1, TypeParts DEF Changing, Inv, ApiType, Absent
<1>3. op[w].todo \in Seq(TaskRecords) /\ (op[w].step \in {"create", "patch", "wait"} => op[w].todo # <<>>)
  BY OperationIsGood DEF Operations, GoodOperation, Ready, TaskSteps
<1> QED
  BY <1>1, <1>2, <1>3, MembersOf DEF Open, Task

LEMMA NextRackCalm ==
    ASSUME Inv, Current, Calm, NEW w \in Workers, w = "cluster",
           NextTask(w) \/ Finished(w) \/ WaitSucceeds(w) \/ WaitFails(w)
    PROVE  Calm'
<1>1. /\ op[w].step \in {"next", "wait"}
      /\ op[w].step # "idle" /\ Execute(w) /\ Silent /\ sets' = sets /\ service' = service
  BY DEF NextTask, Finished, WaitSucceeds, WaitFails, At, Execute, Silent, api
<1>2. /\ op["cluster"] # Idle /\ op'["config"] = op["config"]
      /\ Mounted(cm, sets) /\ ClusterWork(op[w], known, cr)
  BY <1>1, ClusterTurn DEF Current
<1>3. /\ Changing(op[w], cr, cm, known, service, sets)
      /\ cr \in Specs /\ op[w].todo \in Seq(TaskRecords)
      /\ NamedOnce(op[w].todo)
      /\ op[w].step # "wait" => Open(op[w]) = Members(op[w].todo)
      /\ op[w].step \in {"create", "patch", "wait"} => op[w].todo # <<>>
      /\ op[w].todo # <<>> => /\ Head(op[w].todo) \in Members(op[w].todo)
                              /\ Task(w) = Head(op[w].todo)
  BY <1>1, RacksChanging
<1>4. ASSUME Changing(op'[w], cr, cm, known, service, sets), known' = known,
             op'[w].step \in {"next", "create", "patch", "wait"}
                \/ (op'[w].step = "findConfig" /\ op'[w].def = None)
      PROVE  Calm'
  <2>1. Busy(op'[w], cr, cm, known, service, sets) /\ op'[w] # Idle
    BY <1>4, IdleType DEF Busy
  <2> QED
    BY <1>1, <1>2, <1>4, <2>1, ClusterCall
<1>5. CASE NextTask(w)
  <2>1. op[w].step = "next" /\ op[w].todo # <<>> /\ known' = known
    BY <1>5 DEF NextTask, At
  <2>2. ClusterTask(Task(w), op[w], cr) /\ Applies(Task(w), cr, sets[Task(w).rack.name])
    BY <1>2, <1>3, <2>1 DEF ClusterWork, Changing
  <2>3. ASSUME NEW step \in {"create", "findConfig", "patch"}, Goto(w, step),
               step = "create" => op[w].def # None, step = "findConfig" => op[w].def = None
        PROVE  Calm'
    <3>1. /\ op'[w].step = step /\ op'[w].todo = op[w].todo /\ op'[w].cfg = op[w].cfg
          /\ op'[w].def = op[w].def
      BY <2>3, WentOn DEF Same
    <3>2. Open(op'[w]) = Open(op[w]) /\ op'[w].step # "wait"
      BY <2>1, <2>3, <3>1 DEF Open
    <3>3. op[w].def # None => op[w].cfg = cm
      BY <1>3 DEF Changing
    <3>4. Changing(op'[w], cr, cm, known, service, sets)
      BY <1>3, <2>3, <3>1, <3>2, <3>3, ChangingGoesOn
    <3> QED
      BY <1>4, <2>1, <2>3, <3>1, <3>4
  <2>4. CASE Task(w).type = "create rack" /\ Goto(w, "create")
    BY <2>2, <2>3, <2>4 DEF ClusterTask
  <2>5. CASE Task(w).type = "add rack" /\ Goto(w, "findConfig")
    <3>1. op[w].def = None
      BY <2>2, <2>5 DEF ClusterTask
    <3> QED
      BY <2>3, <2>5, <3>1
  <2>6. CASE Goto(w, "patch")
    BY <2>3, <2>6
  <2>7. Task(w).type \in {"update rack", "create rack", "add rack"}
    BY <2>2 DEF Applies
  <2> QED
    BY <1>5, <2>4, <2>5, <2>6, <2>7 DEF NextTask
<1>6. CASE Finished(w)
  <2>1. op[w].step = "next" /\ op[w].todo = <<>> /\ op'[w] = Idle
    BY <1>6, Ended DEF Finished, At
  <2>2. Open(op[w]) = {}
    BY <1>3, <2>1, NoMembers
  <2>3. known' # None /\ known'.def = known.def
    <3>1. known \in Knowns /\ known # None
      BY <1>3, TypeParts DEF Inv, Changing, Owned
    <3>2. known = [def |-> known.def, online |-> known.online]
      BY <3>1, KnownType
    <3> DEFINE new == [known EXCEPT !.online = TRUE]
    <3>3. new # None
      BY <3>1, OnlineType
    <3>4. new.def = known.def
      BY <3>2
    <3>5. known' = new \/ known' = known
      BY <1>6 DEF Finished
    <3> HIDE DEF new
    <3> QED
      BY <3>1, <3>3, <3>4, <3>5
  <2>4. Fits(cr, known', service, sets)
    BY <1>3, <2>2, <2>3 DEF Changing, Fits, Owned
  <2> QED
    BY <1>1, <1>2, <2>1, <2>4, IdleBusy, ClusterCall
<1>7. CASE WaitSucceeds(w) \/ WaitFails(w)
  <2>1. op[w].step = "wait" /\ op[w].todo # <<>> /\ known' = known
    BY <1>3, <1>7 DEF WaitSucceeds, WaitFails, At
  <2>2. sets[Task(w).rack.name] # None
    BY <1>3, <2>1 DEF Changing
  <2>3. TaskDone(w)
    BY <1>7, <2>2 DEF WaitSucceeds, WaitFails
  <2>4. /\ op'[w].step = "next" /\ op'[w].todo = Tail(op[w].todo)
        /\ op'[w].cfg = op[w].cfg /\ op'[w].def = op[w].def
    BY <2>3, DoneWith
  <2>5. Open(op'[w]) = Open(op[w]) /\ op'[w].step # "wait"
    BY <2>1, <2>4 DEF Open
  <2>6. NamedOnce(op'[w].todo)
    BY <1>3, <2>1, <2>4, OtherRacks
  <2>7. op[w].def # None => op[w].cfg = cm
    BY <1>3 DEF Changing
  <2>8. Changing(op'[w], cr, cm, known, service, sets)
    BY <1>3, <2>4, <2>5, <2>6, <2>7, ChangingGoesOn
  <2> QED
    BY <1>4, <2>1, <2>4, <2>8
<1> QED
  BY <1>5, <1>6, <1>7

LEMMA RackWriteCalm ==
    ASSUME ImagesGiven, UniqueRacks, Inv, Current, Calm, NEW w \in Workers, w = "cluster",
           CreateSet(w) \/ PatchSet(w)
    PROVE  Calm'
<1> DEFINE n == Task(w).rack.name
<1>1. /\ op[w].step \in {"create", "patch"} /\ op[w].step # "idle" /\ Execute(w)
      /\ UNCHANGED <<cr, cm, service, crStore, cmStore, known, queue>>
  BY DEF CreateSet, PatchSet, At, Execute
<1>2. /\ op["cluster"] # Idle /\ op'["config"] = op["config"] /\ Silent
      /\ Mounted(cm, sets) /\ ClusterWork(op[w], known, cr)
  BY <1>1, ClusterTurn DEF Current, Silent
<1>3. /\ Changing(op[w], cr, cm, known, service, sets)
      /\ cr \in Specs /\ op[w].todo \in Seq(TaskRecords)
      /\ Open(op[w]) = Members(op[w].todo)
      /\ op[w].todo # <<>> /\ Head(op[w].todo) \in Members(op[w].todo)
      /\ Task(w) = Head(op[w].todo)
  BY <1>1, RacksChanging
<1>4. ClusterTask(Task(w), op[w], cr) /\ Applies(Task(w), cr, sets[n])
  BY <1>2, <1>3 DEF ClusterWork, Changing
<1>5. /\ n \in RackNames /\ Task(w).rack \in Racks /\ sets \in [RackNames -> Absent(StatefulSets)]
      /\ Task(w).type = "update rack" => Task(w).patch \in Patches
  BY <1>3, TasksAtHand, TypeParts DEF Inv, ApiType
<1>6. ASSUME NEW set, WriteAndWait(w, set), Task(w).rack \in RacksOf(cr),
             RackFits(Task(w).rack, cr, set), Mounts(set, cm)
      PROVE  Calm'
  <2>1. op'[w].step = "wait" /\ Same(op[w], op'[w]) /\ sets' = [sets EXCEPT ![n] = set]
    BY <1>6, Written DEF WriteAndWait
  <2>2. Changing(op'[w], cr, cm, known, service, sets')
    BY <1>1, <1>3, <1>5, <1>6, <2>1, RackChanged
  <2>3. Busy(op'[w], cr, cm, known, service, sets') /\ op'[w] # Idle
    BY <2>1, <2>2, IdleType DEF Busy
  <2>4. ASSUME NEW r \in RackNames PROVE Mounts(sets'[r], cm)
    <3>1. CASE r = n
      BY <1>5, <1>6, <2>1, <3>1
    <3>2. CASE r # n
      BY <1>2, <1>5, <2>1, <3>2 DEF Mounted
    <3> QED
      BY <3>1, <3>2
  <2>5. Mounted(cm, sets')
    BY <2>4 DEF Mounted
  <2> QED
    BY <1>1, <1>2, <2>3, <2>5, ClusterCall
<1>7. CASE CreateSet(w)
  <2>1. op[w].step = "create"
    BY <1>7 DEF CreateSet, At
  <2>2. Task(w).type \in {"create rack", "add rack"} /\ op[w].cfg = cm
    BY <1>2, <1>3, <2>1 DEF ClusterWork, Changing
  <2>3. sets[n] = None /\ Task(w).rack \in RacksOf(cr)
    BY <1>4, <2>2 DEF Applies, ClusterTask
  <2> DEFINE new == NewStatefulSet(known.def, Task(w).rack, cm)
  <2>4. WriteAndWait(w, new)
    BY <1>7, <2>2, <2>3 DEF CreateSet
  <2>5. known.def = Definition(cr) /\ cm \in Absent(Configs)
    BY <1>3, TypeParts DEF Changing, Owned, Inv, ApiType
  <2>6. RackFits(Task(w).rack, cr, new) /\ Mounts(new, cm)
    BY <1>3, <1>5, <2>5, NewFits
  <2> QED
    BY <1>6, <2>3, <2>4, <2>6
<1>8. CASE PatchSet(w)
  <2>1. Task(w).type \in {"update rack", "hash"}
    BY <1>3, <1>8, OperationIsGood DEF PatchSet, At, GoodOperation, Ready
  <2>2. Task(w).type = "update rack"
    BY <1>4, <2>1 DEF Applies
  <2>3. /\ sets[n] # None /\ sets[n].fixed = cr.fixed
        /\ Task(w).rack \in RacksOf(cr) /\ Task(w).patch = PatchFor(Task(w).rack, cr)
    BY <1>4, <2>2 DEF Applies, ClusterTask
  <2> DEFINE new == Patched(sets[n], Task(w).patch)
  <2>4. WriteAndWait(w, new)
    BY <1>8, <2>2, <2>3 DEF PatchSet
  <2>5. sets[n] \in StatefulSets
    BY <1>5, <2>3, SetType
  <2>6. Mounts(sets[n], cm)
    BY <1>2, <1>5 DEF Mounted
  <2>7. RackFits(Task(w).rack, cr, new) /\ Mounts(new, cm)
    BY <1>5, <2>2, <2>3, <2>5, <2>6, PatchedFits
  <2> QED
    BY <1>6, <2>3, <2>4, <2>7
<1> QED
  BY <1>7, <1>8

LEMMA DeleteCalm ==
    ASSUME Inv, Current, Calm, NEW w \in Workers, w = "cluster", DeleteSets(w) \/ DeleteService(w)
    PROVE  Calm'
<1>1. /\ op[w].step \in {"deleteSets", "deleteService"} /\ op[w].step # "idle" /\ Execute(w)
      /\ UNCHANGED <<cr, cm, crStore, cmStore, known, queue>>
  BY DEF DeleteSets, DeleteService, At, Execute
<1>2. /\ op["cluster"] # Idle /\ op'["config"] = op["config"] /\ Silent
      /\ Mounted(cm, sets) /\ cr = None
  BY <1>1, ClusterTurn DEF Current, Silent, ClusterWork
<1>3. CASE DeleteSets(w)
  <2>1. op'[w].step = "deleteService"
    BY <1>3, WentOn DEF DeleteSets
  <2>2. ASSUME NEW r \in RackNames PROVE Mounts(sets'[r], cm)
    <3>1. CASE sets[r] = None
      BY <1>3, <3>1 DEF DeleteSets, Mounts
    <3>2. CASE sets[r] # None
      <4>1. sets[r] \in StatefulSets /\ sets'[r] = [sets[r] EXCEPT !.deleting = TRUE]
        BY <1>3, <3>2, SetType DEF DeleteSets
      <4>2. sets'[r].vol = sets[r].vol /\ sets'[r].hash = sets[r].hash
        BY <4>1 DEF StatefulSets
      <4> QED
        BY <1>2, <3>2, <4>2 DEF Mounted, Mounts
    <3> QED
      BY <3>1, <3>2
  <2>3. Mounted(cm, sets')
    BY <2>2 DEF Mounted
  <2>4. Busy(op'[w], cr, cm, known', service', sets')
    BY <2>1 DEF Busy
  <2> QED
    BY <1>2, <2>3, <2>4, ClusterCall
<1>4. CASE DeleteService(w)
  <2>1. op'[w] = Idle /\ sets' = sets
    BY <1>4, Ended DEF DeleteService
  <2> QED
    BY <1>2, <2>1, IdleBusy, ClusterCall
<1> QED
  BY <1>3, <1>4

LEMMA ExecuteClusterCalm ==
    ASSUME ImagesGiven, UniqueRacks, Inv, Current, Calm, NEW w \in Workers, w = "cluster", Execute(w)
    PROVE  Calm'
<1>1. op[w].step \notin {"get", "update"}
  BY DEF Current, ClusterWork
<1>2. ~GetSet(w) /\ ~UpdateSet(w)
  BY <1>1 DEF GetSet, UpdateSet, At
<1> QED
  BY <1>2, SetUpCalm, NextRackCalm, RackWriteCalm, DeleteCalm DEF Execute

-----------------------------------------------------------------------------
(* The calls of the operations on the ConfigMap. *)
LEMMA ExecuteConfigCalm ==
    ASSUME Inv, Current, Calm, NEW w \in Workers, w = "config", Execute(w)
    PROVE  Calm'
<1> DEFINE n == Task(w).rack.name
<1>1. /\ op[w].step \in ConfigSteps /\ op[w].def = None /\ op[w].todo \in Seq(TaskRecords)
      /\ op[w].step \in TaskSteps => op[w].todo # <<>>
      /\ op'["cluster"] = op["cluster"]
  BY OperationIsGood, OthersKept, TwoWorkers DEF Inv, ConfigInv, Operations, GoodOperation, Ready
<1>2. ASSUME op[w].step # "idle" PROVE op["config"] # Idle /\ Mounting(op[w], cm, sets)
  BY <1>2, IdleType DEF Calm, ConfigSide
<1>3. ASSUME op[w].todo # <<>>
      PROVE  /\ Task(w) = Head(op[w].todo) /\ n \in RackNames
             /\ ConfigTaskFor(Task(w), op[w], cm) /\ Task(w).type \in ConfigTaskTypes
             /\ Task(w) \in Members(op[w].todo)
  BY <1>1, <1>3, MembersOf, TaskCurrent DEF Task
<1>4. ASSUME op[w].step # "idle", Silent, known' = known, service' = service, sets' = sets,
             IF op'[w] = Idle THEN Mounted(cm, sets) ELSE Mounting(op'[w], cm, sets)
      PROVE  Calm'
  <2>1. \A r \in RackNames : Alike(sets[r], sets'[r])
    BY <1>4 DEF Alike
  <2> QED
    BY <1>1, <1>2, <1>4, <2>1, ConfigCall
<1>5. ASSUME NEW set, op[w].step \in {"patch", "update"}, WriteAndWait(w, set), sets[n] # None,
             Alike(sets[n], set), Mounts(set, cm), set # None,
             Silent, known' = known, service' = service
      PROVE  Calm'
  <2>1. op[w].step # "idle" /\ op[w].step # "wait" /\ op[w].todo # <<>>
    BY <1>1, <1>5 DEF TaskSteps
  <2>2. op'[w].step = "wait" /\ Same(op[w], op'[w]) /\ sets' = [sets EXCEPT ![n] = set]
        /\ sets \in [RackNames -> Absent(StatefulSets)]
    BY <1>5, Written, TypeParts DEF WriteAndWait, Inv, ApiType
  <2>3. Mounting(op'[w], cm, sets')
    BY <1>1, <1>2, <1>3, <1>5, <2>1, <2>2, RackMounted
  <2>4. ASSUME NEW r \in RackNames PROVE Alike(sets[r], sets'[r])
    <3>1. CASE r = n
      BY <1>5, <2>2, <3>1
    <3>2. CASE r # n
      BY <2>2, <3>2 DEF Alike
    <3> QED
      BY <3>1, <3>2
  <2>5. op'[w] # Idle
    BY <2>2, IdleType
  <2> QED
    BY <1>1, <1>2, <1>5, <2>1, <2>3, <2>4, <2>5, ConfigCall
<1>6. CASE NextTask(w)
  <2>1. /\ op[w].step = "next" /\ op[w].todo # <<>> /\ op[w].step # "idle"
        /\ Silent /\ known' = known /\ service' = service /\ sets' = sets
    BY <1>6 DEF NextTask, At, Silent, api
  <2>2. PICK step \in {"patch", "get"} : Goto(w, step)
    BY <1>3, <1>6, <2>1 DEF NextTask, ConfigTaskTypes
  <2>3. op'[w].step = step /\ op'[w].todo = op[w].todo
    BY <2>2, WentOn DEF Same
  <2>4. Open(op'[w]) = Open(op[w]) /\ op'[w].step \notin {"wait", "update", "idle"}
    BY <2>1, <2>3 DEF Open
  <2>5. NamedOnce(op'[w].todo)
    BY <1>2, <2>1, <2>3 DEF Mounting
  <2>6. Mounting(op'[w], cm, sets) /\ op'[w] # Idle
    BY <1>2, <2>1, <2>4, <2>5, MountingGoesOn, IdleType
  <2> QED
    BY <1>4, <2>1, <2>6
<1>7. CASE Finished(w)
  <2>1. /\ op[w].step = "next" /\ op[w].todo = <<>> /\ op[w].step # "idle" /\ op'[w] = Idle
        /\ Silent /\ service' = service /\ sets' = sets
    BY <1>7, Ended DEF Finished, At, Silent, api
  <2>2. known' = known
    BY <1>1, <1>7 DEF Finished
  <2>3. Open(op[w]) = {}
    BY <2>1, NoMembers DEF Open
  <2>4. Mounted(cm, sets)
    BY <1>2, <2>1, <2>3 DEF Mounting, Mounted
  <2> QED
    BY <1>4, <2>1, <2>2, <2>4
<1>8. CASE GetSet(w)
  <2>1. /\ op[w].step = "get" /\ op[w].todo # <<>> /\ op[w].step # "idle"
        /\ Silent /\ known' = known /\ service' = service /\ sets' = sets
    BY <1>1, <1>8 DEF GetSet, At, Silent, api, TaskSteps
  <2>2. sets[n] # None
    BY <1>2, <1>3, <2>1 DEF Mounting, Open
  <2>3. op' = [op EXCEPT ![w].step = "update", ![w].copy = sets[n]]
    BY <1>8, <2>2 DEF GetSet
  <2>4. op'[w].step = "update" /\ op'[w].copy = sets[n] /\ op'[w].todo = op[w].todo
    BY <2>3, CopyRead DEF Same
  <2>5. Open(op'[w]) = Open(op[w]) /\ op'[w].step # "wait"
    BY <2>1, <2>4 DEF Open
  <2>6. NamedOnce(op'[w].todo) /\ op'[w].copy = sets[Head(op'[w].todo).rack.name]
    BY <1>2, <1>3, <2>1, <2>4 DEF Mounting
  <2>7. Mounting(op'[w], cm, sets) /\ op'[w] # Idle
    BY <1>2, <2>1, <2>4, <2>5, <2>6, MountingGoesOn, IdleType
  <2> QED
    BY <1>4, <2>1, <2>7
<1>9. CASE PatchSet(w)
  <2>1. /\ op[w].step = "patch" /\ op[w].todo # <<>> /\ op[w].step # "idle"
        /\ Silent /\ known' = known /\ service' = service
    BY <1>1, <1>9 DEF PatchSet, At, Silent, TaskSteps
  <2>2. Task(w).type \in {"update rack", "hash"}
    BY <1>3, <2>1, OperationIsGood DEF GoodOperation, Ready
  <2>3. Task(w).type = "hash" /\ cm # None /\ op[w].cfg = cm
    BY <1>3, <2>1, <2>2 DEF ConfigTaskTypes, ConfigTaskFor
  <2>4. sets[n] # None /\ sets[n].vol
    BY <1>2, <1>3, <2>1, <2>3 DEF Mounting, Open
  <2>5. sets[n] \in StatefulSets /\ cm \in Absent(Configs)
    BY <1>3, <2>1, <2>4, SetType, TypeParts DEF Inv, ApiType
  <2>6. WriteAndWait(w, WithHash(sets[n], cm))
    BY <1>9, <2>3, <2>4 DEF PatchSet
  <2>7. /\ Alike(sets[n], WithHash(sets[n], cm)) /\ Mounts(WithHash(sets[n], cm), cm)
        /\ WithHash(sets[n], cm) # None
    BY <2>3, <2>4, <2>5, MountFits
  <2> QED
    BY <1>5, <2>1, <2>4, <2>6, <2>7
<1>10. CASE UpdateSet(w)
  <2>1. /\ op[w].step = "update" /\ op[w].todo # <<>> /\ op[w].step # "idle"
        /\ Silent /\ known' = known /\ service' = service
    BY <1>1, <1>10 DEF UpdateSet, At, Silent, TaskSteps
  <2>2. Task(w).type \in {"mount", "unmount"}
    BY <1>3, <2>1 DEF Current, ConfigWork
  <2>3. sets[n] # None /\ (Task(w).type = "mount" => ~sets[n].vol) /\ op[w].copy = sets[n]
    BY <1>2, <1>3, <2>1 DEF Mounting, Open
  <2>4. sets[n] \in StatefulSets /\ cm \in Absent(Configs)
    BY <1>3, <2>1, <2>3, SetType, TypeParts DEF Inv, ApiType
  <2>5. CASE Task(w).type = "mount"
    <3>1. cm # None /\ op[w].cfg = cm
      BY <1>3, <2>1, <2>5 DEF ConfigTaskFor
    <3>2. WriteAndWait(w, WithVolume(sets[n], cm))
      BY <1>10, <2>3, <2>5, <3>1 DEF UpdateSet
    <3>3. /\ Alike(sets[n], WithVolume(sets[n], cm)) /\ Mounts(WithVolume(sets[n], cm), cm)
          /\ WithVolume(sets[n], cm) # None
      BY <2>4, <3>1, MountFits
    <3> QED
      BY <1>5, <2>1, <2>3, <3>2, <3>3
  <2>6. CASE Task(w).type = "unmount"
    <3>1. cm = None
      BY <1>3, <2>1, <2>6 DEF ConfigTaskFor
    <3>2. WriteAndWait(w, WithoutVolume(sets[n]))
      BY <1>10, <2>3, <2>6 DEF UpdateSet
    <3>3. /\ Alike(sets[n], WithoutVolume(sets[n])) /\ Mounts(WithoutVolume(sets[n]), cm)
          /\ WithoutVolume(sets[n]) # None
      BY <2>4, <3>1, MountFits
    <3> QED
      BY <1>5, <2>1, <2>3, <3>2, <3>3
  <2> QED
    BY <2>2, <2>5, <2>6
<1>11. CASE WaitSucceeds(w) \/ WaitFails(w)
  <2>1. /\ op[w].step = "wait" /\ op[w].todo # <<>> /\ op[w].step # "idle"
        /\ Silent /\ known' = known /\ service' = service /\ sets' = sets
    BY <1>1, <1>11 DEF WaitSucceeds, WaitFails, At, Silent, api, TaskSteps
  <2>2. sets[n] # None
    BY <1>2, <1>3, <2>1 DEF Mounting
  <2>3. TaskDone(w)
    BY <1>11, <2>2 DEF WaitSucceeds, WaitFails
  <2>4. op'[w].step = "next" /\ op'[w].todo = Tail(op[w].todo)
    BY <2>3, DoneWith
  <2>5. Open(op'[w]) = Open(op[w]) /\ op'[w].step \notin {"wait", "update", "idle"}
    BY <2>1, <2>4 DEF Open
  <2>6. NamedOnce(op'[w].todo)
    BY <1>1, <1>2, <2>1, <2>4, OtherRacks DEF Mounting
  <2>7. Mounting(op'[w], cm, sets) /\ op'[w] # Idle
    BY <1>2, <2>1, <2>5, <2>6, MountingGoesOn, IdleType
  <2> QED
    BY <1>4, <2>1, <2>7
<1>12. op[w].step \notin {"findConfig", "register", "findExisting", "createService", "create",
                          "deleteSets", "deleteService"}
  BY <1>1 DEF ConfigSteps
<1> QED
  BY <1>6, <1>7, <1>8, <1>9, <1>10, <1>11, <1>12
     DEF Execute, FindConfig, Register, FindExisting, CreateService, CreateSet, DeleteSets,
         DeleteService, At

-----------------------------------------------------------------------------
LEMMA DeployedStep ==
    ASSUME CalmUsers, SupportedOnly, UniqueRacks, ImagesGiven,
           Inv, Current, Awaited, Deletions, Deployed, [Next]_vars
    PROVE  Deployed'
<1> SUFFICES ASSUME NoFailures' PROVE Calm'
  BY DEF Deployed
<1>1. ~CrashRestart /\ \A w \in Workers : ~CallFails(w)
  BY FailureEndsIt, TwoWorkers
<1>2. NoFailures
  <2>1. CASE UNCHANGED budget
    BY <2>1 DEF NoFailures
  <2>2. CASE User
    <3>1. budget \in Budgets /\ budget' = [budget EXCEPT !.edits = @ - 1]
      BY <2>2, TypeParts DEF Inv, User, EditCluster, DeleteCluster, EditConfig, UserMay
    <3>2. budget'.crashes = budget.crashes /\ budget'.errors = budget.errors
      BY <3>1 DEF Budgets
    <3> QED
      BY <3>2 DEF NoFailures
  <2>3. ASSUME NEW w \in Workers, Receive(w) \/ Execute(w) PROVE UNCHANGED budget
    BY <2>3 DEF Receive, ReceiveAdd, ReceiveDelete, ReceiveUpdate, ReceiveConfig, Takes,
                Execute, FindConfig, Register, FindExisting, CreateService, NextTask, Finished,
                CreateSet, PatchSet, GetSet, UpdateSet, WaitSucceeds, WaitFails, DeleteSets,
                DeleteService
  <2>4. ASSUME NEW r \in RackNames, Observe(r) \/ RolloutCompletes(r) \/ Removed(r)
        PROVE  UNCHANGED budget
    BY <2>4 DEF Observe, RolloutCompletes, Removed
  <2>5. ASSUME CassandraInformer \/ ConfigMapInformer PROVE UNCHANGED budget
    BY <2>5 DEF CassandraInformer, ConfigMapInformer
  <2> QED
    BY <1>1, <2>1, <2>2, <2>3, <2>4, <2>5 DEF Next, vars
<1>3. Calm
  BY <1>2 DEF Deployed
<1>4. CASE UNCHANGED vars
  BY <1>3, <1>4 DEF vars, Calm, ClusterSide, ConfigSide, ClusterQuiet, ConfigQuiet
<1>5. ASSUME NEW w \in Workers, Receive(w) \/ Execute(w) PROVE Calm'
  BY <1>3, <1>5, TwoWorkers, ReceiveConfigCalm, ReceiveClusterCalm, ExecuteClusterCalm,
     ExecuteConfigCalm
<1> QED
  BY <1>1, <1>2, <1>3, <1>4, <1>5, UserCalm, ControllerCalm, InformerCalm DEF Next

LEMMA DeployedHolds ==
    ASSUME CalmUsers, SupportedOnly, UniqueRacks, ImagesGiven
    PROVE  Spec => [](Inv /\ Deployed)
<1> DEFINE All == Inv /\ Current /\ Awaited /\ Deletions /\ Deployed
<1>1. Init => All
  BY InitInv, InitCurrent, InitAwaited, InitDeletions, InitCalm DEF Deployed
<1>2. All /\ [Next]_vars => All'
  BY InvStep, CurrentStep, AwaitedStep, DeletionsStep, DeployedStep
<1>3. All => Inv /\ Deployed
  OBVIOUS
<1> QED
  BY <1>1, <1>2, <1>3, PTL DEF Spec

LEMMA DeployedSpec ==
    ASSUME ImagesGiven, Inv, Deployed PROVE SpecDeployed
<1> SUFFICES ASSUME Quiescent, NoFailures, cr # None, Valid(cr) PROVE ClusterDeployed(cr)
  BY DEF SpecDeployed
<1>1. cr \in Specs
  BY TypeParts DEF Inv, ApiType, Absent
<1>2. Fits(cr, known, service, sets)
  BY TwoWorkers DEF Deployed, Calm, ClusterSide, ClusterQuiet, Quiescent
<1>3. service /\ \A rack \in RacksOf(cr) : RackFits(rack, cr, sets[rack.name])
  BY <1>2 DEF Fits
<1>4. ASSUME NEW i \in DOMAIN cr.racks PROVE RackDeployed(cr, i)
  <2>1. cr.racks[i] \in RacksOf(cr) /\ cr.racks[i].name \in RackNames
    BY <1>1, SpecType DEF RacksOf
  <2>2. RackFits(cr.racks[i], cr, sets[cr.racks[i].name])
    BY <1>3, <2>1
  <2>3. sets[cr.racks[i].name] # None /\ ~sets[cr.racks[i].name].deleting
    BY <2>1, <2>2 DEF RackFits, Quiescent
  <2> QED
    BY <1>1, <2>2, <2>3, GivenImage DEF RackFits, RackDeployed
<1> QED
  BY <1>3, <1>4 DEF ClusterDeployed

LEMMA DeployedConfig ==
    ASSUME Deployed PROVE ConfigMounted
<1> SUFFICES ASSUME Quiescent, NoFailures PROVE ConfigDeployed
  BY DEF ConfigMounted
<1>1. Mounted(cm, sets)
  BY TwoWorkers DEF Deployed, Calm, ConfigSide, ConfigQuiet, Quiescent
<1> QED
  BY <1>1 DEF Mounted, Mounts, ConfigDeployed

(* Whenever the operator has nothing left to do, and no call has failed,   *)
(* the racks of a valid specification run as it says: for users who change *)
(* the resources only at such a moment and in ways that the operator       *)
(* supports, who name no two racks alike and name the bootstrapper's image. *)
THEOREM SpecReached ==
    ASSUME CalmUsers, SupportedOnly, UniqueRacks, ImagesGiven
    PROVE  Spec => []SpecDeployed
<1>1. Spec => [](Inv /\ Deployed)
  BY DeployedHolds
<1>2. Inv /\ Deployed => SpecDeployed
  BY DeployedSpec
<1> QED
  BY <1>1, <1>2, PTL

(* For the same users every rack mounts the ConfigMap, and was restarted   *)
(* with its last contents, exactly if there is one, whenever the operator  *)
(* has nothing left to do.                                                 *)
THEOREM ConfigReached ==
    ASSUME CalmUsers, SupportedOnly, UniqueRacks, ImagesGiven
    PROVE  Spec => []ConfigMounted
<1>1. Spec => [](Inv /\ Deployed)
  BY DeployedHolds
<1>2. Inv /\ Deployed => ConfigMounted
  BY DeployedConfig
<1> QED
  BY <1>1, <1>2, PTL
=============================================================================
