-------------------------------- MODULE Metrics --------------------------------
(***************************************************************************)
(* The gauges the operator exposes about one cluster.  The metric poller   *)
(* dispatches a poll for every cluster that is online; the worker of the   *)
(* cluster's key handles polls between the additions and deletions of the  *)
(* cluster (see Dispatcher).  A poll lists the pods, then asks Cassandra,  *)
(* through the Jolokia endpoint of one of the pods, for five lists of      *)
(* nodes and for the rack of each node, one request each.  The ring and    *)
(* the pods may change between any two of these requests.  A deletion      *)
(* takes the series of the nodes away one by one.                          *)
(*                                                                         *)
(* Cassandra knows nodes by address, the gauges know them by pod name and  *)
(* rack.  All pods give the same answers at the same time: two pods that   *)
(* disagree look like a ring that changes between two requests.  A scrape  *)
(* of the gauges may come after any step.                                  *)
(*                                                                         *)
(* Left out: other clusters, whose gauges have other labels, and the       *)
(* operator's restart, which starts with no gauges at all.                 *)
(***************************************************************************)
EXTENDS Integers, Sequences, FiniteSets

CONSTANTS
    Pods,           \* pod names
    Nodes,          \* addresses pods can have
    RackOf,         \* [Pods -> racks]: the rack in a pod's name
    Unknown,        \* the rack label of a node whose rack was not asked for
    None,           \* absent
    FirstNode,      \* [Pods -> Nodes]: the addresses in the beginning
    Capacity,       \* bound: events the channel of the cluster holds
    MaxEdits,       \* bound: deletions and additions of the cluster
    MaxChanges,     \* bound: changes of pods and ring
    MaxErrors       \* bound: requests that fail for no other reason

Racks == {RackOf[p] : p \in Pods} \cup {Unknown}
Liveness == {"up", "down"}
States == {"normal", "joining", "leaving", "moving"}
SeriesType == Racks \X Pods \X Liveness \X States
PartialFunctions(D, S) == UNION {[d -> S] : d \in SUBSET D}
LabelPairs == <<
    <<"up", "normal">>, <<"up", "joining">>, <<"up", "leaving">>, <<"up", "moving">>,
    <<"down", "normal">>, <<"down", "joining">>, <<"down", "leaving">>, <<"down", "moving">> >>
Mbeans == {"LiveNodes", "UnreachableNodes", "JoiningNodes", "LeavingNodes", "MovingNodes"}

ASSUME MetricsAssumption ==
    /\ FirstNode \in [Pods -> Nodes] /\ \A p, q \in Pods : FirstNode[p] = FirstNode[q] => p = q
    /\ RackOf \in [Pods -> {RackOf[p] : p \in Pods}] /\ \A p \in Pods : RackOf[p] # Unknown
    /\ IsFiniteSet(Pods)
    /\ None \notin Nodes \cup Nat \cup SeriesType \cup PartialFunctions(Pods, Racks)
    /\ Capacity \in Nat \ {0}
    /\ MaxEdits \in Nat /\ MaxChanges \in Nat /\ MaxErrors \in Nat

VARIABLES
    ip,         \* the address of each pod, or None
    ring,       \* what Cassandra knows of each address: [pod, live, state], or None
    online,     \* is the cluster in the clusters map, and Online?
    queue,      \* events of the cluster's key: "add", "delete", "poll"
    op,         \* the poll or the deletion being handled
    gauge,      \* cassandra_node_status: from series to 0 or 1
    size,       \* cassandra_cluster_size, or None
    topology,   \* last known topology: from pods to racks, or None
    dropped,    \* history: nodes that have left a topology, as <<rack, pod>>
    late,       \* history: has a poll been handled after the deletion?
    budget      \* what is left of the bounds

ringVars == <<ip, ring>>
gauges == <<gauge, size, topology>>
history == <<dropped, late>>
vars == <<ringVars, online, queue, op, gauges, history, budget>>

Empty == [x \in {} |-> x]
Put(f, keys, value) == [x \in DOMAIN f \cup keys |-> IF x \in keys THEN value ELSE f[x]]

(* The fields hold, in the order a poll fills them: the pods by address,   *)
(* the endpoint, the lists of nodes, the racks, the new topology, the      *)
(* series that are left to set (or, in a deletion, to remove), and the one *)
(* just set.                                                               *)
Polling(step, names, left) ==
    [step |-> step, names |-> names, url |-> None, got |-> Empty, racks |-> Empty,
     seen |-> Empty, left |-> left, node |-> None]
Idle == Polling("idle", Empty, {})

Init ==
    /\ ip = FirstNode
    /\ ring = [n \in Nodes |->
                 IF \E p \in Pods : FirstNode[p] = n
                 THEN [pod |-> CHOOSE p \in Pods : FirstNode[p] = n, live |-> TRUE, state |-> "normal"]
                 ELSE None]
    /\ online = TRUE /\ queue = <<>> /\ op = Idle
    /\ gauge = Empty /\ size = None /\ topology = None
    /\ dropped = {} /\ late = FALSE
    /\ budget = [edits |-> MaxEdits, changes |-> MaxChanges, errors |-> MaxErrors]

Spend(what) == budget[what] > 0 /\ budget' = [budget EXCEPT ![what] = @ - 1]

-----------------------------------------------------------------------------
(* Pods and ring. *)

PodStops(p) ==
    /\ Spend("changes")
    /\ ip[p] # None
    /\ ip' = [ip EXCEPT ![p] = None]
    /\ UNCHANGED <<ring, online, queue, op, gauges, history>>

(* A pod that starts gets an address no pod has and no other node had.     *)
PodStarts(p) ==
    /\ ip[p] = None
    /\ \E n \in Nodes :
         /\ \A q \in Pods : ip[q] # n
         /\ ring[n] # None => ring[n].pod = p
         /\ ip' = [ip EXCEPT ![p] = n]
    /\ UNCHANGED <<ring, online, queue, op, gauges, history, budget>>

NodeJoins(p) ==
    /\ ip[p] # None /\ ring[ip[p]] = None
    /\ \E s \in {"normal", "joining"} :
         ring' = [ring EXCEPT ![ip[p]] = [pod |-> p, live |-> TRUE, state |-> s]]
    /\ UNCHANGED <<ip, online, queue, op, gauges, history, budget>>

NodeChanges(n) ==
    /\ Spend("changes")
    /\ ring[n] # None
    /\ \E l \in BOOLEAN, s \in States :
         /\ ring' = [ring EXCEPT ![n].live = l, ![n].state = s]
         /\ ring' # ring
    /\ UNCHANGED <<ip, online, queue, op, gauges, history>>

NodeLeaves(n) ==
    /\ Spend("changes")
    /\ ring[n] # None
    /\ ring' = [ring EXCEPT ![n] = None]
    /\ UNCHANGED <<ip, online, queue, op, gauges, history>>

(* What an mbean of Cassandra answers. *)
Value(mbean) ==
    {n \in Nodes : /\ ring[n] # None
                   /\ \/ mbean = "LiveNodes" /\ ring[n].live
                      \/ mbean = "UnreachableNodes" /\ ~ring[n].live
                      \/ mbean = "JoiningNodes" /\ ring[n].state = "joining"
                      \/ mbean = "LeavingNodes" /\ ring[n].state = "leaving"
                      \/ mbean = "MovingNodes" /\ ring[n].state = "moving"}

(* An endpoint answers if its pod still exists; the service, if any does.  *)
Service == "service"
Addresses == {ip[p] : p \in Pods} \ {None}
Answers(url) == IF url = Service THEN Addresses # {} ELSE url \in Addresses

-----------------------------------------------------------------------------
(* The events of the cluster's key. *)

Dispatch(event) ==
    /\ Len(queue) < Capacity
    /\ queue' = Append(queue, event)
    /\ UNCHANGED <<ringVars, online, op, gauges, history>>

(* startMetricPolling reads the map and Online without synchronisation.    *)
Poll == online /\ Dispatch("poll") /\ UNCHANGED budget

(* Does the cluster's resource exist?  The events about it that wait in    *)
(* the channel are ahead of what the operator knows.                       *)
Edits == {i \in DOMAIN queue : queue[i] # "poll"}
Present ==
    IF Edits = {} THEN online
    ELSE \E i \in Edits : queue[i] = "add" /\ \A j \in Edits : j <= i

DeleteCluster == Spend("edits") /\ Present /\ Dispatch("delete")

AddCluster == Spend("edits") /\ ~Present /\ Dispatch("add")

Takes(event) ==
    /\ op.step = "idle" /\ queue # <<>> /\ Head(queue) = event
    /\ queue' = Tail(queue)
    /\ UNCHANGED ringVars

AddClusterOperation ==
    /\ Takes("add")
    /\ online' = TRUE /\ late' = FALSE
    /\ UNCHANGED <<op, gauges, dropped, budget>>

SeriesOf(rack, pod) == {<<rack, pod, l, t>> : l \in Liveness, t \in States}

(* Mutant: only the label pair that applies is removed. *)
ApplicableSeries(t) == UNION {{s \in SeriesOf(t[p], p) \cap DOMAIN gauge : gauge[s] = 1} : p \in DOMAIN t}

(* The nodes that DeleteMetrics removes, with all their label pairs. *)
SeriesToRemove(t) == UNION {SeriesOf(t[p], p) : p \in DOMAIN t}

(* DeleteMetrics, up to the loop over the nodes of the topology. *)
DeleteMetrics ==
    /\ size' = None
    /\ op' = IF topology = None THEN op ELSE Polling("remove", Empty, SeriesToRemove(topology))
    /\ UNCHANGED <<gauge, topology>>

DeleteClusterOperation ==
    /\ Takes("delete")
    /\ IF online THEN online' = FALSE /\ DeleteMetrics ELSE UNCHANGED <<online, op, gauges>>
    /\ UNCHANGED <<history, budget>>

(* One node is removed after the other, in the random order of a Go map,   *)
(* and the series of a node in the order of the label pairs.               *)
Rank(s) == CHOOSE i \in DOMAIN LabelPairs : LabelPairs[i] = <<s[3], s[4]>>
NextToRemove(s) ==
    \A t \in op.left : IF t[2] = s[2] THEN Rank(s) <= Rank(t)
                       ELSE SeriesOf(t[1], t[2]) \subseteq op.left

(* RemoveNodeFromMetrics, one series at a time.  A scrape may come between *)
(* any two of them.                                                        *)
RemoveSeries(s) ==
    /\ op.step = "remove" /\ s \in op.left /\ NextToRemove(s)
    /\ gauge' = [t \in DOMAIN gauge \ {s} |-> gauge[t]]
    /\ op' = [op EXCEPT !.left = @ \ {s}]
    /\ UNCHANGED <<ringVars, online, queue, size, topology, history, budget>>

(* Mutant: the topology is kept. *)
SeriesRemovedOnly ==
    /\ op.step = "remove" /\ op.left = {}
    /\ op' = Idle
    /\ UNCHANGED <<ringVars, online, queue, gauges, history, budget>>

(* The end of DeleteMetrics. *)
SeriesRemoved ==
    /\ op.step = "remove" /\ op.left = {}
    /\ topology' = None /\ op' = Idle
    /\ UNCHANGED <<ringVars, online, queue, gauge, size, history, budget>>

-----------------------------------------------------------------------------
(* GatherMetricsOperation: UpdateMetrics, request by request. *)

Poller(step, next) ==
    /\ op.step = step
    /\ op' = next
    /\ UNCHANGED <<ringVars, online, queue, dropped>>

(* podsInCluster, after which the gatherer takes its first step, unless    *)
(* the pods cannot be listed.                                              *)
UpdateMetrics ==
    /\ Takes("poll")
    /\ \/ /\ op' = Polling("url", [n \in Addresses |-> CHOOSE p \in Pods : ip[p] = n], {})
          /\ UNCHANGED budget
       \/ op' = op /\ Spend("errors")
    /\ late' = (late \/ ~online)
    /\ UNCHANGED <<online, gauges, dropped>>

(* urlFor: any pod with an address; the service, if there is none or they  *)
(* cannot be listed.  It is called for the mbeans and again for the racks. *)
UrlFor(step, next) ==
    /\ \E url \in Addresses \cup {Service} :
         /\ IF url = Service /\ Addresses # {} THEN Spend("errors") ELSE UNCHANGED budget
         /\ Poller(step, [op EXCEPT !.step = next, !.url = url])
    /\ UNCHANGED <<gauges, late>>

UrlForMbeans == UrlFor("url", "mbeans")
UrlForRacks == UrlFor("rackurl", "racks")

(* collectMbeanStatusValuesFor, in the random order of a Go map. *)
ReadMbean(mbean) ==
    /\ op.step = "mbeans" /\ Answers(op.url)
    /\ mbean \notin DOMAIN op.got
    /\ LET got == Put(op.got, {mbean}, Value(mbean)) IN
         Poller("mbeans", IF DOMAIN got = Mbeans THEN [op EXCEPT !.got = got, !.step = "rackurl", !.url = None]
                         ELSE [op EXCEPT !.got = got])
    /\ UNCHANGED <<gauges, late, budget>>

(* Mutant: the racks of live nodes are not asked for. *)
RacksAskedOfUnreachable(got) == got["UnreachableNodes"]

RacksAsked(got) == got["LiveNodes"] \cup got["UnreachableNodes"]

Listed(got) == UNION {got[m] : m \in Mbeans}

(* transformClusterStatus with livenessLabel and stateLabel: what is known *)
(* of a node if the lists contradict each other.                           *)
LivenessLabel(got, n) == IF n \in got["LiveNodes"] \ got["UnreachableNodes"] THEN "up" ELSE "down"

(* Mutant: a node that moves is taken for normal. *)
StateLabelNotMoving(got, n) ==
    CASE n \in got["JoiningNodes"] -> "joining"
      [] n \in got["LeavingNodes"] -> "leaving"
      [] OTHER -> "normal"

StateLabel(got, n) ==
    CASE n \in got["JoiningNodes"] -> "joining"
      [] n \in got["MovingNodes"] \ got["JoiningNodes"] -> "moving"
      [] n \in got["LeavingNodes"] \ (got["JoiningNodes"] \cup got["MovingNodes"]) -> "leaving"
      [] OTHER -> "normal"

(* A listed node that has a pod's name, as the series that applies to it.  *)
NodeStatus(n) ==
    <<IF n \in DOMAIN op.racks THEN op.racks[n] ELSE Unknown,
      op.names[n], LivenessLabel(op.got, n), StateLabel(op.got, n)>>

(* collectRackInfoFor, request by request.  A node that has left the ring  *)
(* meanwhile has no rack any more, and the request fails.                  *)
RacksToAsk == RacksAsked(op.got) \ DOMAIN op.racks

ReadRack(n) ==
    /\ op.step = "racks" /\ Answers(op.url)
    /\ n \in RacksToAsk /\ ring[n] # None
    /\ Poller("racks", [op EXCEPT !.racks = Put(@, {n}, RackOf[ring[n].pod])])
    /\ UNCHANGED <<gauges, late, budget>>

TransformClusterStatus ==
    /\ op.step = "racks" /\ RacksToAsk = {}
    /\ Poller("racks",
              Polling("update", Empty, {NodeStatus(n) : n \in Listed(op.got) \cap DOMAIN op.names}))
    /\ UNCHANGED <<gauges, late, budget>>

(* A request fails: it must when nobody answers it, and always can.        *)
MustFail ==
    \/ ~Answers(op.url)
    \/ op.step = "racks" /\ (\E n \in RacksToAsk : ring[n] = None)

GatherFails ==
    /\ op.step = "mbeans" \/ (op.step = "racks" /\ RacksToAsk # {})
    /\ IF MustFail THEN UNCHANGED budget ELSE Spend("errors")
    /\ Poller(op.step, Idle)
    /\ UNCHANGED <<gauges, late>>

(* Mutant: pairs that differ in one of the two labels are forgotten. *)
BothDiffer(s) == {t \in SeriesOf(s[1], s[2]) : t[3] # s[3] /\ t[4] # s[4]}

UnapplicableLabelPairs(s) == SeriesOf(s[1], s[2]) \ {s}

(* updateNodeStatus: first the pair that applies is set, then the others   *)
(* are cleared.  A scrape may come in between.                             *)
SetStatus(s) ==
    /\ s \in op.left /\ op.node = None
    /\ Poller("update", [op EXCEPT !.node = s, !.seen = Put(@, {s[2]}, s[1])])
    /\ gauge' = Put(gauge, {s}, 1)
    /\ UNCHANGED <<size, topology, late, budget>>

ClearOthers ==
    /\ op.node # None
    /\ Poller("update", [op EXCEPT !.node = None, !.left = @ \ {op.node}])
    /\ gauge' = Put(gauge, UnapplicableLabelPairs(op.node), 0)
    /\ UNCHANGED <<size, topology, late, budget>>

Entries(t) == IF t = None THEN {} ELSE {<<t[p], p>> : p \in DOMAIN t}

(* The new topology takes the place of the old one. *)
UpdateDone ==
    /\ op.step = "update" /\ op.left = {}
    /\ topology' = op.seen
    /\ size' = Cardinality(DOMAIN op.seen)
    /\ dropped' = (dropped \cup Entries(topology)) \ Entries(op.seen)
    /\ op' = Idle
    /\ UNCHANGED <<ringVars, online, queue, gauge, late, budget>>

-----------------------------------------------------------------------------
Environment ==
    \/ \E p \in Pods : PodStops(p) \/ PodStarts(p) \/ NodeJoins(p)
    \/ \E n \in Nodes : NodeChanges(n) \/ NodeLeaves(n)
    \/ DeleteCluster \/ AddCluster

Gather ==
    \/ UpdateMetrics \/ UrlForMbeans \/ (\E m \in Mbeans : ReadMbean(m))
    \/ UrlForRacks \/ (\E n \in Nodes : ReadRack(n)) \/ TransformClusterStatus \/ GatherFails
    \/ (\E s \in op.left : SetStatus(s)) \/ ClearOthers \/ UpdateDone

Worker ==
    \/ AddClusterOperation \/ DeleteClusterOperation
    \/ (\E s \in op.left : RemoveSeries(s)) \/ SeriesRemoved
    \/ Gather

Next == Environment \/ Poll \/ Worker

(* The poller polls again and again, the worker works, and a node whose    *)
(* pod runs joins the ring.                                                *)
Fairness ==
    /\ WF_vars(Poll) /\ WF_vars(Worker)
    /\ \A p \in Pods : WF_vars(NodeJoins(p))

Spec == Init /\ [][Next]_vars /\ Fairness

-----------------------------------------------------------------------------
(* Properties. *)

(* Every variable has its type, and the rack of a node is unknown only if  *)
(* the node is not among the live ones.                                    *)
TypeOK ==
    /\ ip \in [Pods -> Nodes \cup {None}]
    /\ ring \in [Nodes -> [pod : Pods, live : BOOLEAN, state : States] \cup {None}]
    /\ online \in BOOLEAN /\ late \in BOOLEAN
    /\ queue \in Seq({"add", "delete", "poll"}) /\ Len(queue) <= Capacity
    /\ DOMAIN op.names \subseteq Nodes /\ DOMAIN op.got \subseteq Mbeans
    /\ DOMAIN op.racks \subseteq Nodes /\ op.left \subseteq SeriesType
    /\ op.step = "update" => \A s \in op.left : s[1] = Unknown => s[3] = "down"
    /\ op.node \in op.left \cup {None}
    /\ DOMAIN gauge \subseteq SeriesType /\ \A s \in DOMAIN gauge : gauge[s] \in {0, 1}
    /\ size \in 0..Cardinality(Pods) \cup {None}
    /\ topology = None \/ topology \in PartialFunctions(Pods, Racks)
    /\ dropped \subseteq Racks \X Pods
    /\ budget \in [edits : 0..MaxEdits, changes : 0..MaxChanges, errors : 0..MaxErrors]

Reported == {<<s[1], s[2]>> : s \in DOMAIN gauge}
Statuses(rack, pod) ==
    {s \in SeriesOf(rack, pod) \cap DOMAIN gauge : gauge[s] = 1}

(* The nodes whose series are being set, and those whose series are gone   *)
(* in part.                                                                *)
BeingUpdated(rack, pod) == op.node # None /\ rack = op.node[1] /\ pod = op.node[2]
BeingRemoved(rack, pod) ==
    /\ op.step = "remove" /\ <<rack, pod>> \in Entries(topology)
    /\ ~(SeriesOf(rack, pod) \subseteq op.left)

(* Whenever the gauges are scraped, a node that is reported at all is in   *)
(* exactly one status.  Only between the two halves of its own update may  *)
(* it be in two, and only while its own series are removed one by one may  *)
(* it be in none.                                                          *)
OneStatus ==
    \A r \in Reported :
      Cardinality(Statuses(r[1], r[2])) \in
        {1} \cup (IF BeingUpdated(r[1], r[2]) THEN {2} ELSE {})
            \cup (IF BeingRemoved(r[1], r[2]) THEN {0} ELSE {})

(* The size gauge and the last known topology exist together and agree,    *)
(* and every node of the topology is reported, whatever requests failed    *)
(* and whenever the cluster was deleted: DeleteMetrics relies on it.  Only *)
(* while DeleteMetrics runs is the one gone and not yet the other.         *)
TopologyReported ==
    op.step # "remove" =>
      /\ size = None <=> topology = None
      /\ topology # None => size = Cardinality(DOMAIN topology)
      /\ Entries(topology) \subseteq Reported

(* When the deletion of a cluster is done, it is reported no more, except  *)
(* for the nodes that an earlier poll had dropped from the topology, and   *)
(* unless a poll was queued behind the deletion.                           *)
DeletedIsForgotten ==
    ~online /\ ~late /\ op.step # "remove" => /\ Reported \subseteq dropped
                                              /\ size = None

(* What the gauges should say of a running cluster. *)
Actual == [p \in {q \in Pods : ip[q] # None /\ ring[ip[q]] # None} |-> RackOf[p]]
StatusOf(node) ==
    <<RackOf[node.pod], node.pod, IF node.live THEN "up" ELSE "down", node.state>>

Accurate ==
    /\ topology = Actual /\ size = Cardinality(DOMAIN Actual)
    /\ \A p \in DOMAIN Actual : Statuses(RackOf[p], p) = {StatusOf(ring[ip[p]])}

(* When failures and changes end, the gauges come to say what Cassandra    *)
(* says of every pod that runs, and keep saying it.                        *)
ReportsCatchUp == <>[](online /\ Addresses # {} => Accurate)
=============================================================================
