---------------------------- MODULE ClusterUpdate ----------------------------
(***************************************************************************)
(* UpdateClusterOperation alone: a long series of edits of the Cassandra   *)
(* resource of a running cluster, each turned by the adjuster into changes *)
(* that are applied to the racks one after the other.  Calls to the API    *)
(* server succeed here and nobody interferes: CassandraCluster has the     *)
(* failures and the interleavings, this module has many more               *)
(* specifications.                                                         *)
(***************************************************************************)
EXTENDS Adjuster

CONSTANTS
    Specs,          \* specifications users may write
    RackNames,
    None            \* no stateful set

(* validateRacks does not compare the names of racks.  A specification     *)
(* that uses one twice is left out.                                        *)
ASSUME ClusterUpdateAssumption ==
    \A s \in Specs :
        /\ IsSpec(s)
        /\ \A i \in DOMAIN s.racks : s.racks[i].name \in RackNames
        /\ UniqueNames(s.racks)
        /\ \A rack \in RacksOf(s) : PatchFor(rack, s) # None
        /\ s.boot # NoImage     \* for the default image see CassandraCluster

VARIABLES
    current,    \* the specification that was written last
    running,    \* [RackNames -> stateful set or None]
    todo,       \* changes of the update that are not yet applied
    supported   \* history: only supported edits so far

vars == <<current, running, todo, supported>>

(* createStatefulSetForRack, as far as updates can tell stateful sets apart *)
StatefulSetFor(rack, spec) ==
    [replicas |-> rack.replicas, pod |-> spec.pod, boot |-> spec.boot]

Deployment(spec) ==
    [r \in RackNames |-> IF FoundIn(r, spec.racks)
                         THEN StatefulSetFor(FindRack(r, spec.racks), spec)
                         ELSE None]

Init ==
    /\ current \in Specs
    /\ running = Deployment(current)
    /\ todo = <<>>
    /\ supported = TRUE

(* No forbidden change, no rack taken away or made smaller. *)
Supported(old, new) ==
    /\ ~ChangeForbidden(old, new)
    /\ RacksNotIn(old.racks, new.racks) = <<>>
    /\ ScaledDown(Matched(old, new)) = <<>>

(* The next update begins: the worker has finished the previous one. *)
Update(new) ==
    /\ todo = <<>>
    /\ new # current
    /\ current' = new
    /\ todo' = IF ChangeForbidden(current, new) THEN <<>>
               ELSE ChangesForCluster(current, new)
    /\ supported' = (supported /\ Supported(current, new))
    /\ UNCHANGED running

Applies(type) == todo # <<>> /\ Head(todo).type = type
Name == Head(todo).rack.name

(* registerStatefulSet: a rack that exists ends the update. *)
AddRack ==
    /\ Applies("add rack")
    /\ IF running[Name] = None
       THEN /\ running' = [running EXCEPT ![Name] = StatefulSetFor(Head(todo).rack, current)]
            /\ todo' = Tail(todo)
       ELSE /\ todo' = <<>>
            /\ UNCHANGED running
    /\ UNCHANGED <<current, supported>>

(* patchStatefulSet: so does one that does not exist. *)
UpdateRack ==
    /\ Applies("update rack")
    /\ IF running[Name] # None
       THEN /\ running' = [running EXCEPT ![Name] = Head(todo).patch]
            /\ todo' = Tail(todo)
       ELSE /\ todo' = <<>>
            /\ UNCHANGED running
    /\ UNCHANGED <<current, supported>>

(* A change that is not supported is reported and skipped. *)
SkipChange ==
    /\ Applies("delete rack") \/ Applies("scale down rack")
    /\ todo' = Tail(todo)
    /\ UNCHANGED <<current, running, supported>>

Next == (\E s \in Specs : Update(s)) \/ AddRack \/ UpdateRack \/ SkipChange

Spec == Init /\ [][Next]_vars

-----------------------------------------------------------------------------
(* "should perform adds before delete, scale down and update operations"   *)
(* (adjuster_test.go:407, and :343, :356 for the others): a cluster grows  *)
(* before the racks it already had are restarted.                          *)
ChangesOrdered ==
    \A i, j \in DOMAIN todo : i < j => Rank[todo[i].type] <= Rank[todo[j].type]

(* An update restarts no rack twice: at most one change that is applied    *)
(* concerns a rack, be it new, scaled or patched, or several of these.     *)
EachRackOnce ==
    \A i, j \in DOMAIN todo :
        /\ {todo[i].type, todo[j].type} \subseteq {"add rack", "update rack"}
        /\ todo[i].rack.name = todo[j].rack.name
        => i = j

(* The changes "need to be applied in order for the running cluster to be  *)
(* in the state matching newCluster" (adjuster.go:116-117): after any      *)
(* series of supported edits every rack runs what was written last.        *)
UpdateReachesSpec ==
    supported /\ todo = <<>> => running = Deployment(current)
=============================================================================
