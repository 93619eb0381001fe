---------------------------------- MODULE Seeds ----------------------------------
(***************************************************************************)
(* How the nodes of one cluster find each other.  When Cassandra starts in *)
(* a pod it asks the KubernetesSeedProvider for its seeds, which are       *)
(* worked out from the racks in the resource as it is at that moment;      *)
(* those whose names cannot be resolved are left out.  Meanwhile users     *)
(* edit the racks, the operator creates and scales the stateful sets, one  *)
(* after the other, unless one of its calls fails or it crashes, the       *)
(* StatefulSet controller creates the pods, and pods fail.                 *)
(*                                                                         *)
(* A node that holds data is a member of the ring it got the data from.    *)
(* Other nodes join the ring of a seed, or, when the only seed they find   *)
(* is themselves, found a ring.                                            *)
(*                                                                         *)
(* Left out: the deletion of the resource and a cluster domain that cannot *)
(* be looked up, with which no node starts; users who remove racks or      *)
(* replicas, which the operator does not support; a restart of the rack    *)
(* for any other change, or by the worker of the ConfigMap.                *)
(***************************************************************************)
EXTENDS JavaMath, FiniteSets

CONSTANTS
    RackNames,
    Replicas,       \* numbers of replicas that users give to a rack
    MaxReplicas,    \* the largest of them
    MaxEdits,       \* bound: edits of the racks
    MaxTroubles,    \* bound: pods that fail, calls of the operator that fail, crashes
    None            \* no data, no rack

Pods == RackNames \X (0..MaxReplicas-1)

ASSUME SeedsAssumption ==
    /\ RackNames # {}
    /\ None \notin RackNames /\ None \notin Pods
    /\ MaxReplicas \in Nat \ {0} /\ Replicas \subseteq 1..MaxReplicas
    /\ MaxEdits \in Nat /\ MaxTroubles \in Nat

Specs == UNION {[names -> Replicas] : names \in (SUBSET RackNames) \ {{}}}
Nobody == [r \in {} |-> 0]
Nothing == [add |-> {}, update |-> {}]

VARIABLES
    racks,          \* the racks of the resource: from names to replicas
    useEmptyDir,    \* of the resource: is data lost with the pod?
    known,          \* the racks the operator has been told of
    service,        \* has the cluster's service been created?
    sets,           \* the stateful sets: from racks to replicas
    todo,           \* the racks its operation has yet to add and to update
    rolling,        \* the one of them that it waits for, or None
    unattended,     \* history: it left a rack that was not ready
    pod,            \* "absent", "starting" or "ready"
    seeds,          \* the seeds that a starting node was given, or None
    ring,           \* the founder of the ring whose data a pod holds, or None
    edits, failures, errors

operator == <<known, service, sets, todo, rolling, unattended, errors>>
vars == <<racks, useEmptyDir, pod, seeds, ring, edits, failures, operator>>

Init ==
    /\ racks \in Specs
    /\ useEmptyDir \in BOOLEAN
    /\ known = Nobody /\ service = FALSE /\ sets = Nobody
    /\ todo = Nothing /\ rolling = None /\ unattended = FALSE
    /\ pod = [p \in Pods |-> "absent"]
    /\ seeds = [p \in Pods |-> None]
    /\ ring = [p \in Pods |-> None]
    /\ edits = 0 /\ failures = 0 /\ errors = 0

PodsOf(spec) == {p \in Pods : p[1] \in DOMAIN spec /\ p[2] < spec[p[1]]}
Ready(r) == \A p \in PodsOf(sets) : p[1] = r => pod[p] = "ready"

-----------------------------------------------------------------------------
(* The seed provider. *)

(* Mutant: the formula of the design document. *)
MaxSeedsOfOneRackAsDocumented(replicas) == Smaller(replicas \div 2, 3)

MaxSeedsOfOneRack(replicas) == Larger(Smaller(replicas \div 2, 3), 1)

(* Mutant: one pod too many. *)
DesignatedAndNext(spec) ==
    IF Cardinality(DOMAIN spec) > 1 THEN (DOMAIN spec) \X {0}
    ELSE UNION {{r} \X (0..MaxSeedsOfOneRack(spec[r])) : r \in DOMAIN spec}

(* Mutant: the newest pods of a rack. *)
DesignatedNewest(spec) ==
    IF Cardinality(DOMAIN spec) > 1 THEN (DOMAIN spec) \X {0}
    ELSE UNION {{r} \X (spec[r]-MaxSeedsOfOneRack(spec[r])..spec[r]-1) : r \in DOMAIN spec}

(* Pod 0 of each rack, or, of a single rack, the first few.                *)
Designated(spec) ==
    IF Cardinality(DOMAIN spec) > 1 THEN (DOMAIN spec) \X {0}
    ELSE UNION {{r} \X (0..MaxSeedsOfOneRack(spec[r])-1) : r \in DOMAIN spec}

(* A pod's name is resolved when it is ready, and always by itself.        *)
Resolves(p) == {q \in Pods : pod[q] = "ready" \/ q = p}

GetSeeds(p) ==
    /\ pod[p] = "starting" /\ seeds[p] = None
    /\ seeds' = [seeds EXCEPT ![p] = Designated(racks) \cap Resolves(p)]
    /\ UNCHANGED <<racks, useEmptyDir, operator, pod, ring, edits, failures>>

(* Cassandra in a pod goes on with the seeds it was given. *)
Start(p) ==
    /\ pod[p] = "starting" /\ seeds[p] # None
    /\ pod' = [pod EXCEPT ![p] = "ready"]
    /\ seeds' = [seeds EXCEPT ![p] = None]
    /\ UNCHANGED <<racks, useEmptyDir, operator, edits, failures>>

Reached(p) == {q \in seeds[p] \ {p} : pod[q] = "ready"}

Rejoin(p) == Start(p) /\ ring[p] # None /\ seeds[p] # {} /\ UNCHANGED ring

Found(p) == Start(p) /\ ring[p] = None /\ p \in seeds[p] /\ Reached(p) = {} /\ ring' = [ring EXCEPT ![p] = p]

Join(p) == Start(p) /\ ring[p] = None /\ \E s \in Reached(p) : ring' = [ring EXCEPT ![p] = ring[s]]

(* A node that was given no seed at all ends, and is started again; so     *)
(* does a new one that is no seed and reaches none.                        *)
NoSeed(p) ==
    /\ pod[p] = "starting" /\ seeds[p] # None
    /\ seeds[p] = {} \/ (ring[p] = None /\ p \notin seeds[p] /\ Reached(p) = {})
    /\ seeds' = [seeds EXCEPT ![p] = None]
    /\ UNCHANGED <<racks, useEmptyDir, operator, pod, ring, edits, failures>>

-----------------------------------------------------------------------------
(* Users, operator, StatefulSet controller. *)

EditRacks ==
    /\ edits < MaxEdits /\ edits' = edits + 1
    /\ racks' \in {spec \in Specs : DOMAIN racks \subseteq DOMAIN spec
                                    /\ \A r \in DOMAIN racks : racks[r] <= spec[r]}
    /\ racks' # racks
    /\ UNCHANGED <<useEmptyDir, operator, pod, seeds, ring, failures>>

cluster == <<racks, useEmptyDir, pod, seeds, ring, edits, failures>>

(* AddClusterOperation: racks are created unless something of the cluster  *)
(* is there already, as it is for an operator that was restarted.          *)
AddCluster ==
    /\ known = Nobody
    /\ known' = racks
    /\ service' = TRUE
    /\ todo' = IF service THEN Nothing ELSE [add |-> DOMAIN racks, update |-> {}]
    /\ UNCHANGED <<cluster, sets, rolling, unattended, errors>>

(* The next update, which may be of several edits.                         *)
UpdateCluster ==
    /\ known # Nobody /\ known # racks
    /\ todo = Nothing
    /\ known' = racks
    /\ todo' = [add |-> DOMAIN racks \ DOMAIN known,
                update |-> {r \in DOMAIN known : racks[r] # known[r]}]
    /\ UNCHANGED <<cluster, service, sets, rolling, unattended, errors>>

(* Each change of a rack is awaited before the next.                       *)
Deploy(r) ==
    /\ rolling = None
    /\ sets' = [s \in DOMAIN sets \cup {r} |-> IF s = r THEN known[s] ELSE sets[s]]
    /\ rolling' = r
    /\ UNCHANGED <<cluster, known, service, todo, unattended, errors>>

CreateRack(r) == r \in todo.add /\ Deploy(r)

(* Racks are added before others are changed.                              *)
PatchRack(r) == todo.add = {} /\ r \in todo.update \cap DOMAIN sets /\ Deploy(r)

(* A rack whose creation had failed cannot be patched, which ends the      *)
(* operation.                                                              *)
PatchMissingRack(r) ==
    /\ todo.add = {} /\ r \in todo.update \ DOMAIN sets
    /\ rolling = None
    /\ todo' = Nothing
    /\ UNCHANGED <<cluster, known, service, sets, rolling, unattended, errors>>

(* Mutant: the wait ends at once. *)
RolledOutAtOnce ==
    /\ rolling # None
    /\ rolling' = None
    /\ todo' = [add |-> todo.add \ {rolling}, update |-> todo.update \ {rolling}]
    /\ UNCHANGED <<cluster, known, service, sets, unattended, errors>>

RolledOut ==
    /\ rolling # None /\ Ready(rolling)
    /\ rolling' = None
    /\ todo' = [add |-> todo.add \ {rolling}, update |-> todo.update \ {rolling}]
    /\ UNCHANGED <<cluster, known, service, sets, unattended, errors>>

(* What goes wrong for the operator.  The rack it waits for is left as it  *)
(* is.                                                                     *)
Fails ==
    /\ failures + errors < MaxTroubles /\ errors' = errors + 1
    /\ rolling' = None
    /\ unattended' = (unattended \/ (rolling # None /\ ~Ready(rolling)))

(* A call that looks at the stateful set fails: the operation goes on with *)
(* "subsequent stateful sets" if the rack was new, and ends otherwise.     *)
WaitFails ==
    /\ rolling # None
    /\ Fails
    /\ todo' = IF rolling \in todo.add THEN [add |-> todo.add \ {rolling}, update |-> todo.update] ELSE Nothing
    /\ UNCHANGED <<cluster, known, service, sets>>

(* The call that creates the service, or a stateful set, or patches one,   *)
(* fails, which ends the operation.                                        *)
CallFails ==
    /\ rolling = None
    /\ \/ known = Nobody /\ ~service /\ known' = racks
       \/ todo # Nothing /\ UNCHANGED known
    /\ Fails
    /\ todo' = Nothing
    /\ UNCHANGED <<cluster, service, sets>>

(* The operator starts again, and is told of the cluster as if it was new. *)
CrashRestart ==
    /\ known # Nobody
    /\ Fails
    /\ known' = Nobody /\ todo' = Nothing
    /\ UNCHANGED <<cluster, service, sets>>

(* Pods of a set are created in order, each when those before it are ready. *)
CreatePod(p) ==
    /\ p \in PodsOf(sets) /\ pod[p] = "absent"
    /\ \A i \in 0..p[2]-1 : pod[<<p[1], i>>] = "ready"
    /\ pod' = [pod EXCEPT ![p] = "starting"]
    /\ UNCHANGED <<racks, useEmptyDir, operator, seeds, ring, edits, failures>>

(* The container fails, or the pod is deleted, and with it an EmptyDir.    *)
PodFails(p) ==
    /\ failures + errors < MaxTroubles /\ failures' = failures + 1
    /\ pod[p] # "absent"
    /\ \E now \in {"starting", "absent"} :
         /\ pod' = [pod EXCEPT ![p] = now]
         /\ ring' = IF now = "absent" /\ useEmptyDir THEN [ring EXCEPT ![p] = None] ELSE ring
    /\ seeds' = [seeds EXCEPT ![p] = None]
    /\ UNCHANGED <<racks, useEmptyDir, operator, edits>>

Node(p) == GetSeeds(p) \/ Rejoin(p) \/ Found(p) \/ Join(p) \/ NoSeed(p)
Kubernetes == \E p \in Pods : CreatePod(p)
Operator ==
    \/ AddCluster \/ UpdateCluster \/ RolledOut
    \/ \E r \in RackNames : CreateRack(r) \/ PatchRack(r) \/ PatchMissingRack(r)

Next ==
    \/ \E p \in Pods : Node(p) \/ PodFails(p)
    \/ Kubernetes \/ EditRacks
    \/ Operator \/ WaitFails \/ CallFails \/ CrashRestart

Spec ==
    /\ Init /\ [][Next]_vars
    /\ \A p \in Pods : WF_vars(Node(p))
    /\ WF_vars(Kubernetes) /\ WF_vars(Operator)

-----------------------------------------------------------------------------
(* Properties. *)

(* Every seed is a pod the resource asks for. *)
TypeOK ==
    /\ racks \in Specs /\ Designated(racks) \subseteq PodsOf(racks)
    /\ known \in Specs \cup {Nobody} /\ PodsOf(known) \subseteq PodsOf(racks)
    /\ sets \in Specs \cup {Nobody} /\ PodsOf(sets) \subseteq PodsOf(racks)
    /\ useEmptyDir \in BOOLEAN /\ service \in BOOLEAN /\ unattended \in BOOLEAN
    /\ todo \in [add : SUBSET DOMAIN known, update : SUBSET DOMAIN known]
    /\ rolling \in ((todo.add \cup todo.update) \cap DOMAIN sets) \cup {None}
    /\ pod \in [Pods -> {"absent", "starting", "ready"}]
    /\ seeds \in [Pods -> (SUBSET Pods) \cup {None}]
    /\ \A p \in Pods : seeds[p] # None => pod[p] = "starting"
    /\ ring \in [Pods -> Pods \cup {None}]
    /\ \A p \in Pods \ PodsOf(sets) : pod[p] = "absent" /\ ring[p] = None
    /\ \A p \in Pods : pod[p] = "ready" => ring[p] # None
    /\ edits \in 0..MaxEdits /\ failures \in 0..MaxTroubles /\ errors \in 0..MaxTroubles

Members == {p \in Pods : ring[p] # None}

(* However the racks are edited while the cluster grows, one of the seeds  *)
(* that the next node gets is a member of the cluster, if the members      *)
(* keep their data: the seeds before and after an edit have a member in    *)
(* common.  With an EmptyDir the only seed may come back empty.            *)
SeedIsMember ==
    ~useEmptyDir /\ Members # {} => Designated(racks) \cap Members # {}

(* All nodes are in one ring, whatever is added and scaled, as long as     *)
(* - no pod failed: then a new node that is a seed may find no other, and  *)
(*   founds a second ring;                                                 *)
(* - the operator awaited each rack.  When a call that looks at the rack   *)
(*   fails, "subsequent stateful sets will still be created"               *)
(*   (statefulset_accessor.go:35), and a restarted operator awaits         *)
(*   nothing: the next rack may found a ring of its own.                   *)
OneRing ==
    failures = 0 /\ ~unattended => \A p, q \in Members : ring[p] = ring[q]

(* Every node that is deployed gets to start and joins, the first one      *)
(* included, which can only be its own seed; and every rack is deployed as *)
(* the resource asks for, as long as no call of the operator fails and it  *)
(* does not crash: nothing repeats an operation that has ended early.      *)
EverybodyJoins ==
    <>[](/\ PodsOf(sets) = Members
         /\ \A p \in PodsOf(sets) : pod[p] = "ready"
         /\ errors = 0 => PodsOf(sets) = PodsOf(racks))

=============================================================================
