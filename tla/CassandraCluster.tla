-------------------------- MODULE CassandraCluster --------------------------
(***************************************************************************)
(* The operator's handling of one Cassandra cluster: the informers of      *)
(* operator.go, the Receiver and the cluster and custom-config operations  *)
(* of pkg/operator/operations, and the calls that cluster/accessor.go      *)
(* makes to the Kubernetes API server.                                     *)
(*                                                                         *)
(* Dispatched events wait in one queue per dispatcher key and one worker   *)
(* per key handles them in order: what KeyedQueues promises and Dispatcher *)
(* implements.  A cluster ns.x has TWO keys: "ns.x" for the events of its  *)
(* Cassandra resource, "ns.x-config" for those of its ConfigMap            *)
(* (operator.go:120, 129, 144), hence two workers.                         *)
(*                                                                         *)
(* Every call to the API server is a step of its own, so the two workers,  *)
(* the informers, the StatefulSet controller and the users interleave      *)
(* between any two calls.  The API server, its controllers and the users   *)
(* are external: they are modelled by what the operator relies on.         *)
(*                                                                         *)
(* Left out: the operations on snapshot jobs that the Receiver runs after  *)
(* those on the cluster (they share no state with them), metrics, events   *)
(* recorded on the Cassandra resource, and pods that outlive their         *)
(* StatefulSet.                                                            *)
(***************************************************************************)
EXTENDS Adjuster

CONSTANTS
    Specs,          \* specifications users may write
    RackNames,
    Configs,        \* contents of the ConfigMap x-config
    None,           \* absent
    DefaultImage,   \* DefaultCassandraBootstrapperImage
    MaxEdits,       \* bound: changes users make
    MaxCrashes,     \* bound: operator crashes
    MaxErrors,      \* bound: API calls that fail
    Patient,        \* kinds of change for which users wait until the operator
                    \* has nothing left to do
    SupportedOnly   \* users only make changes that the operator supports

ASSUME CassandraClusterAssumption ==
    /\ MaxEdits \in Nat /\ MaxCrashes \in Nat /\ MaxErrors \in Nat
    /\ Patient \subseteq {"create", "update", "delete", "config"}
    /\ SupportedOnly \in BOOLEAN
    /\ None \notin Specs /\ None \notin Configs
    /\ NoImage # DefaultImage
    /\ \A s \in Specs :
           IsSpec(s) /\ \A i \in DOMAIN s.racks : s.racks[i].name \in RackNames

Workers == {"cluster", "config"}

VARIABLES
    cr,         \* the Cassandra resource: its spec, or None
    cm,         \* the ConfigMap: its data, or None
    sets,       \* [RackNames -> StatefulSet or None]
    service,    \* does the headless service exist?
    crStore,    \* the Cassandra informer's copy of cr
    cmStore,    \* the ConfigMap informer's copy of cm
    known,      \* clusters[x]: None or [def, online]
    queue,      \* [Workers -> Seq(event)]: dispatched, not yet handled
    op,         \* [Workers -> operation]: what each worker is executing
    budget      \* what is left of the bounds

api == <<cr, cm, sets, service>>
operator == <<crStore, cmStore, known, queue, op>>
vars == <<cr, cm, sets, service, crStore, cmStore, known, queue, op, budget>>

(***************************************************************************)
(* An operation: the API call it makes next (step), the per-rack tasks     *)
(* left, the ConfigMap it was given or has read (cfg), the generation of   *)
(* the StatefulSet it waits for (gen), the StatefulSet it read before an   *)
(* update (copy) and the specification it was created with (def).          *)
(***************************************************************************)
Operation(step, todo, cfg, def) ==
    [step |-> step, todo |-> todo, cfg |-> cfg, gen |-> 0, copy |-> None, def |-> def]
Idle == Operation("idle", <<>>, None, None)

Init ==
    /\ cr = None /\ cm = None
    /\ sets = [r \in RackNames |-> None]
    /\ service = FALSE
    /\ crStore = None /\ cmStore = None
    /\ known = None
    /\ queue = [w \in Workers |-> <<>>]
    /\ op = [w \in Workers |-> Idle]
    /\ budget = [edits |-> MaxEdits, crashes |-> MaxCrashes, errors |-> MaxErrors]

-----------------------------------------------------------------------------
(* cluster.CopyInto: validation, and the definition kept for the cluster.  *)

Valid(spec) ==
    /\ spec.racks # <<>>
    /\ \A i \in DOMAIN spec.racks : spec.racks[i].replicas >= 1

Definition(spec) ==
    [spec EXCEPT !.boot = IF @ = NoImage THEN DefaultImage ELSE @]

(* An entry of the clusters map is told from a missing one. *)
ASSUME NoneAssumption ==
    \A s \in Specs, online \in BOOLEAN : [def |-> Definition(s), online |-> online] # None

(* createStatefulSetForRack *)
NewStatefulSet(def, rack, cfg) ==
    [replicas |-> rack.replicas, pod |-> def.pod, boot |-> def.boot,
     fixed |-> def.fixed, vol |-> cfg # None, hash |-> cfg,
     gen |-> 1, obs |-> 0, rolled |-> FALSE, deleting |-> FALSE]

(* The API server numbers the generations of a changed specification.      *)
Changed(set, new) == IF new = set THEN set ELSE [new EXCEPT !.gen = @ + 1]

(* patchForRack applied, and the patch of CreateConfigMapHashPatchForRack  *)
Patched(set, patch) ==
    Changed(set, [set EXCEPT !.replicas = patch.replicas, !.pod = patch.pod,
                             !.boot = patch.boot])
WithHash(set, cfg) == Changed(set, [set EXCEPT !.hash = cfg])

(* Mutant: the hash of the ConfigMap is not recorded. *)
WithVolumeOnly(set, cfg) == Changed(set, [set EXCEPT !.vol = TRUE])

(* AddCustomConfigVolumeToStatefulSet, RemoveCustomConfigVolumeFromStatefulSet *)
WithVolume(set, cfg) == Changed(set, [set EXCEPT !.vol = TRUE, !.hash = cfg])
WithoutVolume(set) == Changed(set, [set EXCEPT !.vol = FALSE, !.hash = None])

-----------------------------------------------------------------------------
(* The users: they create, change and delete the two resources. *)

Quiescent ==
    /\ crStore = cr /\ cmStore = cm
    /\ \A w \in Workers : queue[w] = <<>> /\ op[w] = Idle
    /\ \A r \in RackNames : sets[r] # None => ~sets[r].deleting /\ sets[r].rolled

(* No forbidden change, no rack taken away or made smaller. *)
Supported(old, new) ==
    /\ Valid(old) /\ Valid(new)
    /\ ~ChangeForbidden(old, new)
    /\ RacksNotIn(old.racks, new.racks) = <<>>
    /\ ScaledDown(Matched(old, new)) = <<>>

UserMay(kind) ==
    /\ budget.edits > 0
    /\ kind \in Patient => Quiescent
    /\ budget' = [budget EXCEPT !.edits = @ - 1]

EditCluster(s) ==
    /\ UserMay(IF cr = None THEN "create" ELSE "update")
    /\ s # cr
    /\ SupportedOnly /\ cr # None => Supported(cr, s)
    /\ cr' = s
    /\ UNCHANGED <<cm, sets, service, operator>>

DeleteCluster ==
    /\ UserMay("delete")
    /\ cr # None
    /\ cr' = None
    /\ UNCHANGED <<cm, sets, service, operator>>

EditConfig(v) ==
    /\ UserMay("config")
    /\ cm' = v
    /\ cm' # cm
    /\ UNCHANGED <<cr, sets, service, operator>>

-----------------------------------------------------------------------------
(***************************************************************************)
(* The StatefulSet controller: it observes a new generation, rolls it out, *)
(* and lets a StatefulSet go once foreground deletion has removed its      *)
(* pods.  Pods cannot start without an image for their init container, nor *)
(* while a ConfigMap they mount does not exist.                            *)
(***************************************************************************)
Observe(r) ==
    /\ sets[r] # None
    /\ ~sets[r].deleting
    /\ sets[r].obs < sets[r].gen
    /\ sets' = [sets EXCEPT ![r].obs = sets[r].gen, ![r].rolled = FALSE]
    /\ UNCHANGED <<cr, cm, service, operator, budget>>

RolloutCompletes(r) ==
    /\ sets[r] # None
    /\ ~sets[r].deleting
    /\ ~sets[r].rolled
    /\ sets[r].obs = sets[r].gen
    /\ sets[r].boot # NoImage
    /\ sets[r].vol => cm # None
    /\ sets' = [sets EXCEPT ![r].rolled = TRUE]
    /\ UNCHANGED <<cr, cm, service, operator, budget>>

Removed(r) ==
    /\ sets[r] # None
    /\ sets[r].deleting
    /\ sets' = [sets EXCEPT ![r] = None]
    /\ UNCHANGED <<cr, cm, service, operator, budget>>

-----------------------------------------------------------------------------
(***************************************************************************)
(* The informers compare what they hold with the API server's state and    *)
(* call the operator's handlers, which dispatch an event.  They may lag,   *)
(* and may see several changes as one.                                     *)
(***************************************************************************)
Dispatch(w, event) == queue' = [queue EXCEPT ![w] = Append(@, event)]

(* clusterAdded, clusterDeleted, clusterUpdated *)
CassandraInformer ==
    /\ crStore # cr
    /\ crStore' = cr
    /\ Dispatch("cluster",
           IF crStore = None THEN [kind |-> "add", new |-> cr]
           ELSE IF cr = None THEN [kind |-> "delete"]
           ELSE [kind |-> "update", old |-> crStore, new |-> cr])
    /\ UNCHANGED <<api, cmStore, known, op, budget>>

(* Mutant: the event of a deletion carries what is there now. *)
ConfigMapInformerCurrent ==
    /\ cmStore # cm
    /\ cmStore' = cm
    /\ IF known = None /\ cmStore # None
       THEN UNCHANGED queue
       ELSE Dispatch("config",
                [kind |-> IF cmStore = None THEN "addConfig"
                          ELSE IF cm = None THEN "deleteConfig" ELSE "updateConfig",
                 cfg |-> cm])
    /\ UNCHANGED <<api, crStore, known, op, budget>>

(* configMapAdded dispatches for any name that looks right, configMapUpdated *)
(* and configMapDeleted only if the cluster is already in the map.           *)
ConfigMapInformer ==
    /\ cmStore # cm
    /\ cmStore' = cm
    /\ IF cmStore = None
       THEN Dispatch("config", [kind |-> "addConfig", cfg |-> cm])
       ELSE IF known = None
       THEN UNCHANGED queue
       ELSE Dispatch("config",
                IF cm = None THEN [kind |-> "deleteConfig", cfg |-> cmStore]
                             ELSE [kind |-> "updateConfig", cfg |-> cm])
    /\ UNCHANGED <<api, crStore, known, op, budget>>

-----------------------------------------------------------------------------
(* Receive: a worker takes the next event and starts what it calls for. *)

Tasks(type, racks, patch) ==
    [i \in DOMAIN racks |-> [type |-> type, rack |-> racks[i], patch |-> patch]]

Start(w, o) == op' = [op EXCEPT ![w] = o]

(* A worker that is idle takes an event of the given kinds. *)
Takes(w, kinds) ==
    /\ op[w] = Idle
    /\ queue[w] # <<>>
    /\ Head(queue[w]).kind \in kinds
    /\ queue' = [queue EXCEPT ![w] = Tail(@)]
    /\ UNCHANGED <<api, crStore, cmStore, budget>>

(* AddClusterOperation, also for an update of a cluster that is not known *)
ReceiveAdd(w) ==
    /\ Takes(w, {"add", "update"})
    /\ Head(queue[w]).kind = "update" => known = None
    /\ Start(w, Operation("findConfig", <<>>, None, Head(queue[w]).new))
    /\ UNCHANGED known

(* Mutant: the cluster stays in the map. *)
ReceiveDeleteKeepingCluster(w) ==
    /\ Takes(w, {"delete"})
    /\ Start(w, IF known = None THEN Idle ELSE Operation("deleteSets", <<>>, None, None))
    /\ UNCHANGED known

(* DeleteClusterOperation *)
ReceiveDelete(w) ==
    /\ Takes(w, {"delete"})
    /\ known' = None
    /\ Start(w, IF known = None THEN Idle ELSE Operation("deleteSets", <<>>, None, None))

(* UpdateClusterOperation: the definition is replaced before the change is *)
(* looked at; an invalid definition or a forbidden change ends it.         *)
ReceiveUpdate(w) ==
    /\ Takes(w, {"update"})
    /\ known # None
    /\ LET old == Head(queue[w]).old
           new == Head(queue[w]).new
       IN  IF ~Valid(new)
           THEN UNCHANGED <<known, op>>
           ELSE /\ known' = [known EXCEPT !.def = Definition(new)]
                /\ Start(w, IF ChangeForbidden(old, new)
                            THEN Idle
                            ELSE Operation("next", ChangesForCluster(old, new), None, None))

(* Mutant: the operations for an added and a deleted ConfigMap swapped. *)
ConfigTaskSwapped == [addConfig |-> "unmount", updateConfig |-> "hash", deleteConfig |-> "mount"]

(* Add-, Update- and DeleteCustomConfigOperation: one task for each rack   *)
(* that the cluster has at this moment.                                    *)
ConfigTask == [addConfig |-> "mount", updateConfig |-> "hash", deleteConfig |-> "unmount"]

ReceiveConfig(w) ==
    /\ Takes(w, {"addConfig", "updateConfig", "deleteConfig"})
    /\ LET e == Head(queue[w])
       IN  Start(w, IF known = None
                    THEN Idle
                    ELSE Operation("next", Tasks(ConfigTask[e.kind], known.def.racks, None),
                                   e.cfg, None))
    /\ UNCHANGED known

Receive(w) ==
    ReceiveAdd(w) \/ ReceiveDelete(w) \/ ReceiveUpdate(w) \/ ReceiveConfig(w)

-----------------------------------------------------------------------------
(* AddClusterOperation.Execute, call by call. *)

At(w, step) == op[w].step = step
Goto(w, step) == op' = [op EXCEPT ![w].step = step]
End(w) == op' = [op EXCEPT ![w] = Idle]
Task(w) == Head(op[w].todo)

(* FindCustomConfigMap, for a new cluster or an added rack *)
ConfigIs(w, cfg) ==
    op' = [op EXCEPT ![w].cfg = cfg,
                     ![w].step = IF op[w].def # None THEN "register" ELSE "create"]

FindConfig(w) ==
    /\ At(w, "findConfig")
    /\ ConfigIs(w, cm)
    /\ UNCHANGED <<api, crStore, cmStore, known, queue, budget>>

(* cluster.New and the entry in the clusters map *)
Register(w) ==
    /\ At(w, "register")
    /\ IF Valid(op[w].def)
       THEN /\ known' = [def |-> Definition(op[w].def), online |-> FALSE]
            /\ Goto(w, "findExisting")
       ELSE /\ End(w)
            /\ UNCHANGED known
    /\ UNCHANGED <<api, crStore, cmStore, queue, budget>>

(* FindExistingResourcesFor: a cluster of which anything exists is not     *)
(* created again.                                                          *)
FindExisting(w) ==
    /\ At(w, "findExisting")
    /\ IF service \/ \E r \in RackNames : sets[r] # None
       THEN /\ known' = [known EXCEPT !.online = TRUE]
            /\ End(w)
       ELSE /\ Goto(w, "createService")
            /\ UNCHANGED known
    /\ UNCHANGED <<api, crStore, cmStore, queue, budget>>

CreateService(w) ==
    /\ At(w, "createService")
    /\ service' = TRUE
    /\ IF service
       THEN End(w)
       ELSE op' = [op EXCEPT ![w].step = "next",
                             ![w].todo = Tasks("create rack", known.def.racks, None)]
    /\ UNCHANGED <<cr, cm, sets, crStore, cmStore, known, queue, budget>>

-----------------------------------------------------------------------------
(* The tasks of an operation, rack by rack. *)

(* The call that a task begins with; what is not supported is skipped.     *)
NextTask(w) ==
    /\ At(w, "next")
    /\ op[w].todo # <<>>
    /\ \/ Task(w).type = "create rack" /\ Goto(w, "create")
       \/ Task(w).type = "add rack" /\ Goto(w, "findConfig")
       \/ Task(w).type \in {"update rack", "hash"} /\ Goto(w, "patch")
       \/ Task(w).type \in {"mount", "unmount"} /\ Goto(w, "get")
       \/ /\ Task(w).type \in {"delete rack", "scale down rack"}
          /\ op' = [op EXCEPT ![w].todo = Tail(@)]
    /\ UNCHANGED <<api, crStore, cmStore, known, queue, budget>>

(* The operation has gone through its racks; a new cluster is online. *)
Finished(w) ==
    /\ At(w, "next")
    /\ op[w].todo = <<>>
    /\ End(w)
    /\ known' = IF op[w].def # None THEN [known EXCEPT !.online = TRUE] ELSE known
    /\ UNCHANGED <<api, crStore, cmStore, queue, budget>>

(* The written StatefulSet is waited for. *)
WriteAndWait(w, set) ==
    /\ sets' = [sets EXCEPT ![Task(w).rack.name] = set]
    /\ op' = [op EXCEPT ![w].step = "wait", ![w].gen = set.gen, ![w].copy = None]

(* CreateStatefulSetForRack *)
CreateSet(w) ==
    /\ At(w, "create")
    /\ IF sets[Task(w).rack.name] = None
       THEN WriteAndWait(w, NewStatefulSet(known.def, Task(w).rack, op[w].cfg))
       ELSE End(w) /\ UNCHANGED sets
    /\ UNCHANGED <<cr, cm, service, crStore, cmStore, known, queue, budget>>

(* patchStatefulSet *)
PatchSet(w) ==
    /\ At(w, "patch")
    /\ LET set == sets[Task(w).rack.name]
       IN  IF set # None
           THEN WriteAndWait(w, IF Task(w).type = "hash"
                                THEN WithHash(set, op[w].cfg)
                                ELSE Patched(set, Task(w).patch))
           ELSE End(w) /\ UNCHANGED sets
    /\ UNCHANGED <<cr, cm, service, crStore, cmStore, known, queue, budget>>

(* updateStatefulSet reads the StatefulSet ... *)
GetSet(w) ==
    /\ At(w, "get")
    /\ IF sets[Task(w).rack.name] # None
       THEN op' = [op EXCEPT ![w].step = "update", ![w].copy = sets[Task(w).rack.name]]
       ELSE End(w)
    /\ UNCHANGED <<api, crStore, cmStore, known, queue, budget>>

(* ... and writes it back.  The API server refuses an update of anything   *)
(* but the version that was read, and a second volume of the same name.    *)
UpdateSet(w) ==
    /\ At(w, "update")
    /\ LET set == sets[Task(w).rack.name]
       IN  IF set = op[w].copy /\ ~(Task(w).type = "mount" /\ set.vol)
           THEN WriteAndWait(w, IF Task(w).type = "mount"
                                THEN WithVolume(set, op[w].cfg)
                                ELSE WithoutVolume(set))
           ELSE End(w) /\ UNCHANGED sets
    /\ UNCHANGED <<cr, cm, service, crStore, cmStore, known, queue, budget>>

(* The rack is done with: on to the next one. *)
TaskDone(w) == op' = [op EXCEPT ![w].step = "next", ![w].todo = Tail(@), ![w].gen = 0]

(* Mutants: what was observed is not compared with what was written, or    *)
(* must be later.                                                          *)
ChangeAppliedReadyOnly(w, set) == set.rolled
ChangeAppliedLater(w, set) == set.obs > op[w].gen /\ set.rolled

(* statefulSetChangeApplied *)
ChangeApplied(w, set) == set.obs >= op[w].gen /\ set.rolled

(* WaitUntilRackChangeApplied succeeds ... *)
WaitSucceeds(w) ==
    /\ At(w, "wait")
    /\ sets[Task(w).rack.name] # None
    /\ ChangeApplied(w, sets[Task(w).rack.name])
    /\ TaskDone(w)
    /\ UNCHANGED <<api, crStore, cmStore, known, queue, budget>>

(* ... or cannot read the StatefulSet: ignored when it was being created,  *)
(* the end of the operation otherwise.                                     *)
WaitAborted(w) ==
    IF Task(w).type \in {"create rack", "add rack"} THEN TaskDone(w) ELSE End(w)

WaitFails(w) ==
    /\ At(w, "wait")
    /\ sets[Task(w).rack.name] = None
    /\ WaitAborted(w)
    /\ UNCHANGED <<api, crStore, cmStore, known, queue, budget>>

-----------------------------------------------------------------------------
(* DeleteClusterOperation.Execute *)

DeleteSets(w) ==
    /\ At(w, "deleteSets")
    /\ sets' = [r \in RackNames |-> IF sets[r] = None THEN None
                                    ELSE [sets[r] EXCEPT !.deleting = TRUE]]
    /\ Goto(w, "deleteService")
    /\ UNCHANGED <<cr, cm, service, crStore, cmStore, known, queue, budget>>

DeleteService(w) ==
    /\ At(w, "deleteService")
    /\ service' = FALSE
    /\ End(w)
    /\ UNCHANGED <<cr, cm, sets, crStore, cmStore, known, queue, budget>>

-----------------------------------------------------------------------------
(* An API call fails.  Reads that fail count as "nothing found", failed    *)
(* deletions are logged, any other failure ends the operation.             *)
CallFails(w) ==
    /\ budget.errors > 0
    /\ budget' = [budget EXCEPT !.errors = @ - 1]
    /\ \/ At(w, "findConfig") /\ ConfigIs(w, None)
       \/ At(w, "findExisting") /\ Goto(w, "createService")
       \/ At(w, "deleteSets") /\ Goto(w, "deleteService")
       \/ At(w, "wait") /\ WaitAborted(w)
       \/ /\ op[w].step \in {"createService", "create", "patch", "get", "update",
                              "deleteService"}
          /\ End(w)
    /\ UNCHANGED <<api, crStore, cmStore, known, queue>>

(* The operator dies and is started again with nothing but what the API    *)
(* server holds.                                                           *)
CrashRestart ==
    /\ budget.crashes > 0
    /\ budget' = [budget EXCEPT !.crashes = @ - 1]
    /\ crStore' = None /\ cmStore' = None
    /\ known' = None
    /\ queue' = [w \in Workers |-> <<>>]
    /\ op' = [w \in Workers |-> Idle]
    /\ UNCHANGED api

-----------------------------------------------------------------------------
Execute(w) ==
    \/ FindConfig(w) \/ Register(w) \/ FindExisting(w) \/ CreateService(w)
    \/ NextTask(w) \/ Finished(w)
    \/ CreateSet(w) \/ PatchSet(w) \/ GetSet(w) \/ UpdateSet(w)
    \/ WaitSucceeds(w) \/ WaitFails(w)
    \/ DeleteSets(w) \/ DeleteService(w)

User == (\E s \in Specs : EditCluster(s)) \/ DeleteCluster
        \/ \E v \in Configs \cup {None} : EditConfig(v)

Next ==
    \/ User
    \/ \E r \in RackNames : Observe(r) \/ RolloutCompletes(r) \/ Removed(r)
    \/ CassandraInformer \/ ConfigMapInformer
    \/ \E w \in Workers : Receive(w) \/ Execute(w) \/ CallFails(w)
    \/ CrashRestart

Spec == Init /\ [][Next]_vars

(* The operator's goroutines run, informers catch up, and Kubernetes rolls *)
(* out what can be rolled out.  Users, failures and crashes are not fair.  *)
Fairness ==
    /\ WF_vars(CassandraInformer) /\ WF_vars(ConfigMapInformer)
    /\ \A w \in Workers : WF_vars(Receive(w)) /\ WF_vars(Execute(w))
    /\ \A r \in RackNames :
           WF_vars(Observe(r)) /\ WF_vars(RolloutCompletes(r)) /\ WF_vars(Removed(r))

FairSpec == Spec /\ Fairness

-----------------------------------------------------------------------------
(* Properties. *)

Absent(S) == S \cup {None}
Pods == {s.pod : s \in Specs}
Images == {s.boot : s \in Specs} \cup {DefaultImage}
Racks == UNION {{s.racks[i] : i \in DOMAIN s.racks} : s \in Specs}
Defs == {Definition(s) : s \in Specs}

StatefulSets ==
    [replicas : Nat, pod : Pods, boot : Images, fixed : {s.fixed : s \in Specs},
     vol : BOOLEAN, hash : Absent(Configs), gen : Nat \ {0}, obs : Nat,
     rolled : BOOLEAN, deleting : BOOLEAN]

(* A StatefulSet is told from a missing one. *)
ASSUME SetAssumption == None \notin StatefulSets

Patches == [replicas : Nat, pod : Pods, boot : Images]
ConfigTaskTypes == {"mount", "hash", "unmount"}
TaskRecords ==
    [type : ChangeTypes, rack : Racks, patch : Patches]
      \cup [type : {"create rack"} \cup ConfigTaskTypes, rack : Racks, patch : {None}]
OpSteps == {"idle", "findConfig", "register", "findExisting", "createService",
            "next", "create", "patch", "get", "update", "wait", "deleteSets",
            "deleteService"}
Operations ==
    [step : OpSteps, todo : Seq(TaskRecords), cfg : Absent(Configs), gen : Nat,
     copy : Absent(StatefulSets), def : Absent(Specs)]

ClusterEvents ==
    [kind : {"add"}, new : Specs] \cup [kind : {"delete"}]
      \cup [kind : {"update"}, old : Specs, new : Specs]
ConfigEvents ==
    [kind : {"addConfig", "updateConfig", "deleteConfig"}, cfg : Configs]

TypeOK ==
    /\ cr \in Absent(Specs) /\ crStore \in Absent(Specs)
    /\ cm \in Absent(Configs) /\ cmStore \in Absent(Configs)
    /\ sets \in [RackNames -> Absent(StatefulSets)]
    /\ service \in BOOLEAN
    /\ known \in Absent([def : Defs, online : BOOLEAN])
    /\ queue \in [Workers -> Seq(ClusterEvents \cup ConfigEvents)]
    /\ op \in [Workers -> Operations]
    /\ budget \in [edits : 0..MaxEdits, crashes : 0..MaxCrashes, errors : 0..MaxErrors]

NoFailures == budget.crashes = MaxCrashes /\ budget.errors = MaxErrors

(* A rack whose last change is not rolled out. *)
Unsettled(r) ==
    sets[r] # None /\ ~sets[r].deleting /\ (sets[r].obs < sets[r].gen \/ ~sets[r].rolled)

Awaits(w, r) == At(w, "wait") /\ Task(w).rack.name = r

(* The operator never turns to another rack while one it has written is    *)
(* still rolling out ("will avoid creating the next zone until the zone    *)
(* being deployed is fully ready", design document): without failures,     *)
(* every rack being rolled out is one that some worker waits for, however  *)
(* updates, config changes, deletions and re-creations overlap.            *)
RolloutsAwaited ==
    NoFailures => \A r \in RackNames : Unsettled(r) => \E w \in Workers : Awaits(w, r)

(* "only one instance at a time will be rolled out by the operator         *)
(* including across multiple racks" (cassandra-operator-design.md:67-68).  *)
OneInstanceAtATime == Cardinality({r \in RackNames : Unsettled(r)}) <= 1

(* Rack i of a specification is deployed as specified. *)
RackDeployed(spec, i) ==
    LET set == sets[spec.racks[i].name]
    IN  /\ set # None
        /\ ~set.deleting
        /\ set.replicas = spec.racks[i].replicas
        /\ set.pod = spec.pod
        /\ set.boot = Definition(spec).boot
        /\ set.fixed = spec.fixed

ClusterDeployed(spec) == service /\ \A i \in DOMAIN spec.racks : RackDeployed(spec, i)

ConfigDeployed ==
    \A r \in RackNames :
        sets[r] # None => (sets[r].vol <=> cm # None) /\ sets[r].hash = cm

(* When the operator has nothing left to do, the racks of a valid          *)
(* specification run as specified, whatever changes led to it.  Each event *)
(* carries the difference of two specifications only, and none is repeated. *)
SpecDeployed ==
    Quiescent /\ NoFailures /\ cr # None /\ Valid(cr) => ClusterDeployed(cr)

(* When the operator has nothing left to do, every rack mounts the         *)
(* ConfigMap, and was restarted with its last contents, exactly if there   *)
(* is one: "If a ConfigMap matching this naming convention is found, it    *)
(* will be mounted" (cassandra-operator-design.md:141).                    *)
ConfigMounted == Quiescent /\ NoFailures /\ cr # None => ConfigDeployed

(* Nothing is left behind by a cluster that was deleted: no stateful set,  *)
(* no service, no entry in the clusters map, even if it was deleted while  *)
(* being created or changed.                                               *)
DeletedLeavesNothing ==
    Quiescent /\ NoFailures /\ cr = None =>
        /\ \A r \in RackNames : sets[r] = None
        /\ ~service
        /\ known = None

(* Racks that are as they should be are left alone, also by an operator    *)
(* that has just been restarted and is told again of all that exists: no   *)
(* rolling restart without a reason.                                       *)
WrittenPart(set) == IF set = None THEN None ELSE <<set.gen, set.deleting>>
StableWhenDeployed ==
    [][cr # None /\ cr' = cr /\ cm' = cm /\ ClusterDeployed(cr) /\ ConfigDeployed
         => \A r \in RackNames : WrittenPart(sets[r])' = WrittenPart(sets[r])]_vars

(* Every operation comes to an end and every dispatched event is handled.  *)
(* Only a call that failed or a crash can leave a worker waiting for ever,  *)
(* and only behind a rack that still mounts a ConfigMap that is gone.       *)
Settled ==
    /\ crStore = cr /\ cmStore = cm
    /\ \A w \in Workers : queue[w] = <<>> /\ op[w] = Idle
MountsMissing == \E r \in RackNames : sets[r] # None /\ sets[r].vol /\ cm = None
WorkersSettle == <>[]Settled \/ <>[](~NoFailures /\ MountsMissing)
=============================================================================
