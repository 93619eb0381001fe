----------------------------- MODULE MetricsProofs -----------------------------
(***************************************************************************)
(* Theorems about Metrics, for any pods, racks, addresses and any number   *)
(* of polls, deletions, changes of the ring and failed requests.           *)
(***************************************************************************)
EXTENDS Metrics, FiniteSetTheorems, TLAPS

Steps == {"idle", "url", "mbeans", "rackurl", "racks", "update", "remove"}
Polls == [step : Steps, names : PartialFunctions(Nodes, Pods), url : Nodes \cup {None, Service},
          got : PartialFunctions(Mbeans, SUBSET Nodes), racks : PartialFunctions(Nodes, Racks \ {Unknown}),
          seen : PartialFunctions(Pods, Racks),
          left : SUBSET SeriesType, node : SeriesType \cup {None}]
Budgets == [edits : 0..MaxEdits, changes : 0..MaxChanges, errors : 0..MaxErrors]

(* The parts of the type invariant that steps change together. *)
RingType ==
    /\ ip \in [Pods -> Nodes \cup {None}]
    /\ ring \in [Nodes -> [pod : Pods, live : BOOLEAN, state : States] \cup {None}]
QueueType ==
    /\ online \in BOOLEAN /\ late \in BOOLEAN
    /\ queue \in Seq({"add", "delete", "poll"}) /\ Len(queue) <= Capacity
OpType ==
    /\ op \in Polls
    /\ op.step = "update" => \A s \in op.left : s[1] = Unknown => s[3] = "down"
    /\ op.node \in op.left \cup {None} /\ (op.step = "remove" => op.node = None)
GaugeType == gauge \in PartialFunctions(SeriesType, {0, 1})
TopologyType ==
    /\ size \in 0..Cardinality(Pods) \cup {None}
    /\ topology \in PartialFunctions(Pods, Racks) \cup {None}
    /\ dropped \subseteq Racks \X Pods

(* TypeOK, and the fields of the poll that is being handled. *)
Types == RingType /\ QueueType /\ OpType /\ GaugeType /\ TopologyType /\ budget \in Budgets

-----------------------------------------------------------------------------
(* Operators of the model. *)

(* A partial function is a function on a part of the domain. *)
LEMMA Partial ==
    ASSUME NEW D, NEW S, NEW f
    PROVE  f \in PartialFunctions(D, S) <=>
             /\ f = [x \in DOMAIN f |-> f[x]] /\ DOMAIN f \subseteq D
             /\ \A x \in DOMAIN f : f[x] \in S
<1>1. ASSUME f \in PartialFunctions(D, S)
      PROVE  f = [x \in DOMAIN f |-> f[x]] /\ DOMAIN f \subseteq D /\ \A x \in DOMAIN f : f[x] \in S
  <2>1. PICK d \in SUBSET D : f \in [d -> S]
    BY <1>1 DEF PartialFunctions
  <2> QED
    BY <2>1
<1>2. ASSUME f = [x \in DOMAIN f |-> f[x]], DOMAIN f \subseteq D, \A x \in DOMAIN f : f[x] \in S
      PROVE  f \in PartialFunctions(D, S)
  <2>1. f \in [DOMAIN f -> S]
    BY <1>2
  <2> QED
    BY <1>2, <2>1 DEF PartialFunctions
<1> QED
  BY <1>1, <1>2

(* Putting values in. *)
LEMMA PutPartial ==
    ASSUME NEW D, NEW S, NEW f \in PartialFunctions(D, S), NEW keys \in SUBSET D, NEW value \in S
    PROVE  /\ Put(f, keys, value) \in PartialFunctions(D, S)
           /\ DOMAIN Put(f, keys, value) = DOMAIN f \cup keys
           /\ \A x \in keys : Put(f, keys, value)[x] = value
           /\ \A x \in DOMAIN f \ keys : Put(f, keys, value)[x] = f[x]
<1>1. DOMAIN f \subseteq D /\ \A x \in DOMAIN f : f[x] \in S
  BY Partial
<1>2. Put(f, keys, value) \in [DOMAIN f \cup keys -> S]
  BY <1>1 DEF Put
<1>3. Put(f, keys, value) \in PartialFunctions(D, S)
  BY <1>1, <1>2 DEF PartialFunctions
<1> QED
  BY <1>3 DEF Put

LEMMA PutOne ==
    ASSUME NEW D, NEW S, NEW f \in PartialFunctions(D, S), NEW x \in D, NEW value \in S
    PROVE  /\ Put(f, {x}, value) \in PartialFunctions(D, S)
           /\ DOMAIN Put(f, {x}, value) = DOMAIN f \cup {x}
           /\ Put(f, {x}, value)[x] = value
           /\ \A y \in DOMAIN f : y # x => Put(f, {x}, value)[y] = f[y]
<1>1. DOMAIN f \subseteq D /\ \A y \in DOMAIN f : f[y] \in S
  BY Partial
<1>2. Put(f, {x}, value) \in [DOMAIN f \cup {x} -> S]
  BY <1>1 DEF Put
<1>3. Put(f, {x}, value) \in PartialFunctions(D, S)
  BY <1>1, <1>2 DEF PartialFunctions
<1> QED
  BY <1>3 DEF Put

(* The empty function. *)
LEMMA EmptyPartial ==
    ASSUME NEW D, NEW S
    PROVE  Empty \in PartialFunctions(D, S) /\ DOMAIN Empty = {}
<1>1. Empty \in [{} -> S] /\ DOMAIN Empty = {}
  BY DEF Empty
<1> QED
  BY <1>1 DEF PartialFunctions

(* A part of a bound is spent. *)
LEMMA SpendType ==
    ASSUME budget \in Budgets, NEW what \in {"edits", "changes", "errors"}, Spend(what)
    PROVE  budget' \in Budgets
<1>1. MaxEdits \in Nat /\ MaxChanges \in Nat /\ MaxErrors \in Nat
  BY MetricsAssumption
<1>2. CASE what = "edits"
  BY <1>1, <1>2 DEF Spend, Budgets
<1>3. CASE what = "changes"
  BY <1>1, <1>3 DEF Spend, Budgets
<1>4. CASE what = "errors"
  BY <1>1, <1>4 DEF Spend, Budgets
<1> QED
  BY <1>2, <1>3, <1>4

(* What a deletion removes. *)
LEMMA SeriesRemovedOf ==
    ASSUME NEW t \in PartialFunctions(Pods, Racks)
    PROVE  /\ SeriesToRemove(t) \in SUBSET SeriesType
           /\ \A s \in SeriesType : s \in SeriesToRemove(t) <=> s[2] \in DOMAIN t /\ t[s[2]] = s[1]
<1>1. DOMAIN t \subseteq Pods /\ \A p \in DOMAIN t : t[p] \in Racks
  BY Partial
<1>2. SeriesToRemove(t) \in SUBSET SeriesType
  BY <1>1 DEF SeriesToRemove, SeriesOf, SeriesType
<1>3. ASSUME NEW s \in SeriesToRemove(t)
      PROVE  s[2] \in DOMAIN t /\ t[s[2]] = s[1]
  BY <1>3 DEF SeriesToRemove, SeriesOf
<1>4. ASSUME NEW s \in SeriesType, s[2] \in DOMAIN t, t[s[2]] = s[1]
      PROVE  s \in SeriesToRemove(t)
  <2>1. s = <<s[1], s[2], s[3], s[4]>> /\ s[3] \in Liveness /\ s[4] \in States
    BY DEF SeriesType
  <2>2. s \in SeriesOf(t[s[2]], s[2])
    BY <1>4, <2>1 DEF SeriesOf
  <2> QED
    BY <1>4, <2>2 DEF SeriesToRemove
<1> QED
  BY <1>2, <1>3, <1>4

(* The gauges when a series has been removed. *)
LEMMA RemovePartial ==
    ASSUME GaugeType, NEW s, RemoveSeries(s)
    PROVE  /\ GaugeType'
           /\ DOMAIN gauge' = DOMAIN gauge \ {s}
           /\ \A r \in DOMAIN gauge' : gauge'[r] = gauge[r]
<1>1. DOMAIN gauge \subseteq SeriesType /\ \A x \in DOMAIN gauge : gauge[x] \in {0, 1}
  BY Partial DEF GaugeType
<1>2. gauge' = [t \in DOMAIN gauge \ {s} |-> gauge[t]]
  BY DEF RemoveSeries
<1>3. gauge' \in [DOMAIN gauge \ {s} -> {0, 1}]
  BY <1>1, <1>2
<1>4. GaugeType'
  BY <1>1, <1>3 DEF PartialFunctions, GaugeType
<1> QED
  BY <1>2, <1>4

(* A poll that has just begun, or has just collected what it reports. *)
LEMMA PollingType ==
    ASSUME NEW step \in Steps, NEW names \in PartialFunctions(Nodes, Pods), NEW left \in SUBSET SeriesType
    PROVE  Polling(step, names, left) \in Polls
  BY EmptyPartial DEF Polling, Polls

LEMMA IdleType == Idle \in Polls /\ Idle.left = {} /\ Idle.node = None
<1>1. Idle \in Polls
  BY PollingType, EmptyPartial DEF Idle, Steps
<1> QED
  BY <1>1 DEF Idle, Polling

(* The type invariant is what the parts say. *)
LEMMA TypesSuffice == Types => TypeOK
<1> SUFFICES ASSUME Types
             PROVE  TypeOK
  OBVIOUS
<1>1. /\ op.names \in PartialFunctions(Nodes, Pods) /\ op.got \in PartialFunctions(Mbeans, SUBSET Nodes)
      /\ op.left \subseteq SeriesType /\ op.racks \in PartialFunctions(Nodes, Racks \ {Unknown})
  BY DEF Types, OpType, Polls
<1>2. DOMAIN op.names \subseteq Nodes /\ DOMAIN op.got \subseteq Mbeans /\ DOMAIN op.racks \subseteq Nodes
  BY <1>1, Partial
<1>3. DOMAIN gauge \subseteq SeriesType /\ \A s \in DOMAIN gauge : gauge[s] \in {0, 1}
  BY Partial DEF Types, GaugeType
<1> QED
  BY <1>1, <1>2, <1>3 DEF Types, TypeOK, RingType, QueueType, OpType, TopologyType, Budgets

(* Initially every pod is a node of the ring, and nothing is reported. *)
LEMMA TypesInit == Init => Types
<1> SUFFICES ASSUME Init
             PROVE  Types
  OBVIOUS
<1>1. RingType
  <2>1. ip \in [Pods -> Nodes \cup {None}]
    BY MetricsAssumption DEF Init
  <2>2. ASSUME NEW n \in Nodes
        PROVE  ring[n] \in [pod : Pods, live : BOOLEAN, state : States] \cup {None}
    <3>1. CASE \E p \in Pods : FirstNode[p] = n
      <4>1. (CHOOSE p \in Pods : FirstNode[p] = n) \in Pods
        BY <3>1
      <4>2. ring[n] = [pod |-> CHOOSE p \in Pods : FirstNode[p] = n, live |-> TRUE, state |-> "normal"]
        BY <3>1 DEF Init
      <4> QED
        BY <4>1, <4>2 DEF States
    <3> QED
      BY <3>1 DEF Init
  <2>3. ring = [n \in Nodes |-> ring[n]]
    BY DEF Init
  <2> QED
    BY <2>1, <2>2, <2>3 DEF RingType
<1>2. QueueType
  <2>1. Capacity \in Nat /\ queue = <<>> /\ online \in BOOLEAN /\ late \in BOOLEAN
    BY MetricsAssumption DEF Init
  <2> QED
    BY <2>1 DEF QueueType
<1>3. OpType
  <2>1. op \in Polls
    BY PollingType, EmptyPartial DEF Init, Idle, Steps
  <2> QED
    BY <2>1 DEF Init, Idle, Polling, OpType
<1>4. GaugeType
  BY EmptyPartial DEF Init, GaugeType
<1>5. TopologyType
  BY DEF Init, TopologyType
<1>6. budget \in Budgets
  BY MetricsAssumption DEF Init, Budgets
<1> QED
  BY <1>1, <1>2, <1>3, <1>4, <1>5, <1>6 DEF Types

(* The status of a listed node names a pod, and its rack is unknown only   *)
(* if it is not among the live nodes.                                      *)
LEMMA StatusType ==
    ASSUME op \in Polls, RacksToAsk = {}, NEW n \in DOMAIN op.names
    PROVE  /\ NodeStatus(n) \in SeriesType
           /\ NodeStatus(n)[2] = op.names[n]
           /\ NodeStatus(n)[1] = Unknown => NodeStatus(n)[3] = "down"
<1> DEFINE rack == IF n \in DOMAIN op.racks THEN op.racks[n] ELSE Unknown
<1>1. op.names \in PartialFunctions(Nodes, Pods)
  BY DEF Polls
<1>2. n \in Nodes /\ op.names[n] \in Pods
  BY <1>1, Partial
<1>3. \A m \in DOMAIN op.racks : op.racks[m] \in Racks /\ op.racks[m] # Unknown
  BY Partial DEF Polls
<1>4. rack \in Racks /\ (rack = Unknown => n \notin RacksAsked(op.got))
  BY <1>3 DEF Racks, RacksToAsk
<1>5. rack = Unknown => LivenessLabel(op.got, n) = "down"
  BY <1>4 DEF LivenessLabel, RacksAsked
<1>6. LivenessLabel(op.got, n) \in Liveness
  BY DEF LivenessLabel, Liveness
<1>7. StateLabel(op.got, n) \in States
  BY DEF StateLabel, States
<1>8. NodeStatus(n) = <<rack, op.names[n], LivenessLabel(op.got, n), StateLabel(op.got, n)>>
  BY DEF NodeStatus
<1> HIDE DEF rack
<1> QED
  BY <1>2, <1>4, <1>5, <1>6, <1>7, <1>8 DEF SeriesType

(* The steps of the environment. *)
LEMMA RingNext ==
    ASSUME Types,
           \/ \E p \in Pods : PodStops(p) \/ PodStarts(p) \/ NodeJoins(p)
           \/ \E n \in Nodes : NodeChanges(n) \/ NodeLeaves(n)
    PROVE  Types'
<1>0. RingType
  BY DEF Types
<1>1. ASSUME NEW p \in Pods, PodStops(p)
      PROVE  RingType' /\ budget' \in Budgets
  BY <1>0, <1>1, SpendType DEF PodStops, RingType, Types
<1>2. ASSUME NEW p \in Pods, PodStarts(p)
      PROVE  RingType' /\ budget' \in Budgets
  BY <1>0, <1>2 DEF PodStarts, RingType, Types
<1>3. ASSUME NEW p \in Pods, NodeJoins(p)
      PROVE  RingType' /\ budget' \in Budgets
  <2>1. PICK s \in {"normal", "joining"} :
           ring' = [ring EXCEPT ![ip[p]] = [pod |-> p, live |-> TRUE, state |-> s]]
    BY <1>3 DEF NodeJoins
  <2>2. [pod |-> p, live |-> TRUE, state |-> s] \in [pod : Pods, live : BOOLEAN, state : States]
    BY DEF States
  <2> QED
    BY <1>0, <1>3, <2>1, <2>2 DEF NodeJoins, RingType, Types
<1>4. ASSUME NEW n \in Nodes, NodeChanges(n)
      PROVE  RingType' /\ budget' \in Budgets
  <2>1. PICK l \in BOOLEAN, s \in States : ring' = [ring EXCEPT ![n].live = l, ![n].state = s]
    BY <1>4 DEF NodeChanges
  <2>2. ring[n] \in [pod : Pods, live : BOOLEAN, state : States]
    BY <1>0, <1>4 DEF NodeChanges, RingType
  <2>3. ring' \in [Nodes -> [pod : Pods, live : BOOLEAN, state : States] \cup {None}]
    BY <1>0, <2>1, <2>2 DEF RingType
  <2> QED
    BY <1>0, <1>4, <2>3, SpendType DEF NodeChanges, RingType, Types
<1>5. ASSUME NEW n \in Nodes, NodeLeaves(n)
      PROVE  RingType' /\ budget' \in Budgets
  BY <1>0, <1>5, SpendType DEF NodeLeaves, RingType, Types
<1>6. RingType' /\ budget' \in Budgets
  BY <1>1, <1>2, <1>3, <1>4, <1>5
<1>7. UNCHANGED <<online, queue, op, gauges, history>>
  BY DEF PodStops, PodStarts, NodeJoins, NodeChanges, NodeLeaves
<1> QED
  BY <1>6, <1>7 DEF Types, gauges, history, QueueType, OpType, GaugeType, TopologyType

(* The events that wait, and the operations on the cluster. *)
LEMMA EventsNext ==
    ASSUME Types,
           \/ Poll \/ DeleteCluster \/ AddCluster \/ AddClusterOperation \/ DeleteClusterOperation
           \/ (\E s \in op.left : RemoveSeries(s)) \/ SeriesRemoved
    PROVE  Types'
<1>0. RingType /\ QueueType /\ OpType /\ GaugeType /\ TopologyType /\ budget \in Budgets
  BY DEF Types
<1>1. ASSUME NEW event \in {"add", "delete", "poll"}, Dispatch(event), budget' \in Budgets
      PROVE  Types'
  BY <1>0, <1>1, MetricsAssumption
     DEF Dispatch, Types, ringVars, gauges, history, RingType, QueueType, OpType, GaugeType, TopologyType
<1>2. CASE Poll
  BY <1>0, <1>1, <1>2 DEF Poll
<1>3. CASE DeleteCluster
  BY <1>0, <1>1, <1>3, SpendType DEF DeleteCluster
<1>4. CASE AddCluster
  BY <1>0, <1>1, <1>4, SpendType DEF AddCluster
<1>a. None \notin SeriesType /\ (op.step = "remove" => op.node = None)
  BY <1>0, MetricsAssumption DEF OpType
<1>5. ASSUME NEW event, Takes(event)
      PROVE  queue' \in Seq({"add", "delete", "poll"}) /\ Len(queue') <= Capacity /\ RingType'
  <2>1. queue \in Seq({"add", "delete", "poll"}) /\ queue # <<>> /\ Len(queue) <= Capacity
        /\ queue' = Tail(queue) /\ Capacity \in Nat
    BY <1>0, <1>5, MetricsAssumption DEF Takes, QueueType
  <2>2. queue' \in Seq({"add", "delete", "poll"}) /\ Len(queue') <= Capacity
    BY <2>1
  <2> QED
    BY <1>0, <1>5, <2>2 DEF Takes, ringVars, RingType
<1>6. CASE AddClusterOperation
  BY <1>0, <1>5, <1>6 DEF AddClusterOperation, Types, gauges, QueueType, OpType, GaugeType, TopologyType
<1>7. CASE DeleteClusterOperation
  <2>1. GaugeType'
    BY <1>0, <1>7 DEF DeleteClusterOperation, DeleteMetrics, gauges, GaugeType
  <2>2. TopologyType'
    BY <1>0, <1>7 DEF DeleteClusterOperation, DeleteMetrics, gauges, history, TopologyType
  <2>3. QueueType' /\ RingType'
    BY <1>0, <1>5, <1>7 DEF DeleteClusterOperation, history, QueueType
  <2>4. CASE op' = op
    BY <1>0, <1>7, <2>1, <2>2, <2>3, <2>4 DEF DeleteClusterOperation, Types, OpType
  <2>5. CASE op' # op
    <3>1. topology \in PartialFunctions(Pods, Racks) /\ op' = Polling("remove", Empty, SeriesToRemove(topology))
      BY <1>0, <1>7, <2>5 DEF DeleteClusterOperation, DeleteMetrics, TopologyType
    <3>2. op' \in Polls
      BY <3>1, SeriesRemovedOf, PollingType, EmptyPartial DEF Steps
    <3>3. op'.step = "remove" /\ op'.node = None
      BY <3>1 DEF Polling
    <3>4. OpType'
      BY <3>2, <3>3 DEF OpType
    <3> QED
      BY <1>0, <1>7, <2>1, <2>2, <2>3, <3>4 DEF DeleteClusterOperation, Types
  <2> QED
    BY <2>4, <2>5
<1>8. ASSUME NEW s \in op.left, RemoveSeries(s)
      PROVE  Types'
  <2>1. op' = [op EXCEPT !.left = @ \ {s}] /\ op.step = "remove"
    BY <1>8 DEF RemoveSeries
  <2>2. op.node = None
    BY <1>0, <1>a, <2>1
  <2>3. op' \in Polls /\ op'.step = "remove" /\ op'.node = None
    BY <1>0, <2>1, <2>2 DEF OpType, Polls
  <2>4. OpType'
    BY <2>3 DEF OpType
  <2>5. GaugeType'
    BY <1>0, <1>8, RemovePartial
  <2> QED
    BY <1>0, <1>8, <2>4, <2>5 DEF RemoveSeries, ringVars, history, Types, RingType, QueueType, TopologyType
<1>9. CASE SeriesRemoved
  <2>1. op' = Idle
    BY <1>9 DEF SeriesRemoved
  <2>2. OpType'
    BY <2>1, IdleType DEF OpType
  <2> QED
    BY <1>0, <1>9, <2>2 DEF SeriesRemoved, ringVars, history, Types, RingType, QueueType, GaugeType, TopologyType
<1> QED
  BY <1>2, <1>3, <1>4, <1>6, <1>7, <1>8, <1>9

(* A poll, from the list of the pods to the new topology. *)
LEMMA GatherNext ==
    ASSUME Types, Gather
    PROVE  Types'
<1>0. RingType /\ QueueType /\ OpType /\ GaugeType /\ TopologyType /\ budget \in Budgets /\ op \in Polls
  BY DEF Types, OpType
<1>a. None \notin SeriesType
  BY MetricsAssumption
<1>b. ASSUME NEW step, NEW next, Poller(step, next), UNCHANGED <<gauges, late>>, next \in Polls,
             next.step = "update" => \A s \in next.left : s[1] = Unknown => s[3] = "down",
             next.node \in next.left \cup {None}, next.step = "remove" => next.node = None,
             budget' \in Budgets
      PROVE  Types'
  BY <1>0, <1>b DEF Poller, ringVars, gauges, Types, RingType, QueueType, OpType, GaugeType, TopologyType
<1>c. Idle \in Polls /\ Idle.left = {} /\ Idle.node = None
  BY IdleType
<1>1. CASE UpdateMetrics
  <2> DEFINE names == [n \in Addresses |-> CHOOSE p \in Pods : ip[p] = n]
  <2>1. ASSUME NEW n \in Addresses
        PROVE  n \in Nodes /\ (CHOOSE p \in Pods : ip[p] = n) \in Pods
    BY <1>0 DEF Addresses, RingType
  <2>2. names \in [Addresses -> Pods] /\ Addresses \in SUBSET Nodes
    BY <2>1
  <2>3. names \in PartialFunctions(Nodes, Pods)
    BY <2>2 DEF PartialFunctions
  <2> HIDE DEF names
  <2>4. Polling("url", names, {}) \in Polls
    BY <2>3, PollingType DEF Steps
  <2>5. op' \in {op, Polling("url", names, {})} /\ budget' \in Budgets
    BY <1>0, <1>1, SpendType DEF UpdateMetrics, names
  <2>6. OpType'
    BY <1>0, <2>4, <2>5 DEF OpType, Polling
  <2>7. QueueType' /\ RingType'
    <3>1. queue \in Seq({"add", "delete", "poll"}) /\ queue # <<>> /\ Len(queue) <= Capacity
          /\ queue' = Tail(queue) /\ Capacity \in Nat
      BY <1>0, <1>1, MetricsAssumption DEF UpdateMetrics, Takes, QueueType
    <3>2. queue' \in Seq({"add", "delete", "poll"}) /\ Len(queue') <= Capacity
      BY <3>1
    <3>3. online' \in BOOLEAN /\ late' \in BOOLEAN
      BY <1>0, <1>1 DEF UpdateMetrics, QueueType
    <3> QED
      BY <1>0, <1>1, <3>2, <3>3 DEF UpdateMetrics, Takes, ringVars, RingType, QueueType
  <2> QED
    BY <1>0, <1>1, <2>5, <2>6, <2>7 DEF UpdateMetrics, Types, gauges, GaugeType, TopologyType
<1>2. ASSUME NEW step \in Steps, NEW next \in {"mbeans", "racks"}, UrlFor(step, next)
      PROVE  Types'
  <2>1. PICK url \in Addresses \cup {Service} :
           /\ IF url = Service /\ Addresses # {} THEN Spend("errors") ELSE UNCHANGED budget
           /\ Poller(step, [op EXCEPT !.step = next, !.url = url])
    BY <1>2 DEF UrlFor
  <2> DEFINE new == [op EXCEPT !.step = next, !.url = url]
  <2>2. budget' \in Budgets
    BY <1>0, <2>1, SpendType
  <2>3. url \in Nodes \cup {None, Service}
    BY <1>0 DEF Addresses, RingType
  <2>4. new \in Polls /\ new.step = next /\ new.left = op.left /\ new.node = op.node
    BY <1>0, <2>3 DEF Polls, Steps
  <2> HIDE DEF new
  <2>5. Poller(step, new) /\ UNCHANGED <<gauges, late>>
    BY <1>2, <2>1 DEF new, UrlFor
  <2> QED
    BY <1>0, <1>b, <2>2, <2>4, <2>5 DEF OpType
<1>3. ASSUME NEW mbean \in Mbeans, ReadMbean(mbean)
      PROVE  Types'
  <2> DEFINE got == Put(op.got, {mbean}, Value(mbean))
  <2>1. op.got \in PartialFunctions(Mbeans, SUBSET Nodes) /\ Value(mbean) \in SUBSET Nodes
    BY <1>0 DEF Polls, Value
  <2>2. got \in PartialFunctions(Mbeans, SUBSET Nodes)
    BY <2>1, PutOne, Zenon
  <2> DEFINE new == IF DOMAIN got = Mbeans THEN [op EXCEPT !.got = got, !.step = "rackurl", !.url = None]
                    ELSE [op EXCEPT !.got = got]
  <2>3. Poller("mbeans", new) /\ UNCHANGED <<gauges, late, budget>>
    BY <1>3 DEF ReadMbean
  <2> HIDE DEF got
  <2>4. /\ new \in Polls /\ new.step \in {"mbeans", "rackurl"}
        /\ new.left = op.left /\ new.node = op.node
    BY <1>0, <1>3, <2>2 DEF ReadMbean, Polls, Steps
  <2> HIDE DEF new
  <2> QED
    BY <1>0, <1>b, <2>3, <2>4 DEF OpType
<1>4. CASE TransformClusterStatus
  <2> DEFINE left == {NodeStatus(n) : n \in Listed(op.got) \cap DOMAIN op.names}
  <2>1. \A s \in left : s \in SeriesType /\ (s[1] = Unknown => s[3] = "down")
    BY <1>0, <1>4, StatusType DEF TransformClusterStatus
  <2>2. Poller("racks", Polling("update", Empty, left)) /\ UNCHANGED <<gauges, late, budget>>
    BY <1>4 DEF TransformClusterStatus
  <2> HIDE DEF left
  <2>3. Polling("update", Empty, left) \in Polls
    BY <2>1, PollingType, EmptyPartial DEF Steps
  <2>4. Polling("update", Empty, left).left = left /\ Polling("update", Empty, left).node = None
    BY DEF Polling
  <2> QED
    BY <1>0, <1>b, <2>1, <2>2, <2>3, <2>4
<1>9. ASSUME NEW n \in Nodes, ReadRack(n)
      PROVE  Types'
  <2>1. ring[n].pod \in Pods
    BY <1>0, <1>9 DEF ReadRack, RingType
  <2>2. RackOf[ring[n].pod] \in Racks \ {Unknown}
    BY <2>1, MetricsAssumption DEF Racks
  <2> DEFINE racks == Put(op.racks, {n}, RackOf[ring[n].pod])
  <2>3. op.racks \in PartialFunctions(Nodes, Racks \ {Unknown})
    BY <1>0 DEF Polls
  <2>4. racks \in PartialFunctions(Nodes, Racks \ {Unknown})
    BY <2>2, <2>3, PutOne, Zenon
  <2> DEFINE new == [op EXCEPT !.racks = racks]
  <2>5. Poller("racks", new) /\ op.step = "racks" /\ UNCHANGED <<gauges, late, budget>>
    BY <1>9 DEF ReadRack, Poller
  <2> HIDE DEF racks
  <2>6. new \in Polls /\ new.step = "racks" /\ new.left = op.left /\ new.node = op.node
    BY <1>0, <2>4, <2>5 DEF Polls
  <2> HIDE DEF new
  <2> QED
    BY <1>0, <1>b, <2>5, <2>6 DEF OpType
<1>5. CASE GatherFails
  <2>1. budget' \in Budgets
    BY <1>0, <1>5, SpendType DEF GatherFails
  <2> QED
    BY <1>5, <1>b, <1>c, <2>1 DEF GatherFails
<1>6. ASSUME NEW s \in op.left, SetStatus(s)
      PROVE  Types'
  <2>1. s \in SeriesType /\ op.seen \in PartialFunctions(Pods, Racks)
    BY <1>0 DEF Polls
  <2>2. s[1] \in Racks /\ s[2] \in Pods /\ 1 \in {0, 1}
    BY <2>1 DEF SeriesType
  <2>3. Put(op.seen, {s[2]}, s[1]) \in PartialFunctions(Pods, Racks)
    BY <2>1, <2>2, PutOne, Zenon
  <2>4. op' = [op EXCEPT !.node = s, !.seen = Put(@, {s[2]}, s[1])] /\ op.step = "update"
    BY <1>6 DEF SetStatus, Poller
  <2>5. op' \in Polls /\ op'.left = op.left /\ op'.node = s /\ op'.step = op.step
    BY <1>0, <2>1, <2>3, <2>4 DEF Polls
  <2>6. OpType'
    BY <1>0, <2>4, <2>5 DEF OpType
  <2>7. GaugeType'
    BY <1>0, <1>6, <2>1, <2>2, PutOne, Zenon DEF SetStatus, GaugeType
  <2> QED
    BY <1>0, <1>6, <2>6, <2>7 DEF SetStatus, Poller, ringVars, Types, RingType, QueueType, TopologyType
<1>7. CASE ClearOthers
  <2>1. op.node \in SeriesType
    BY <1>0, <1>7 DEF ClearOthers, Polls
  <2>2. UnapplicableLabelPairs(op.node) \in SUBSET SeriesType
    BY <2>1 DEF UnapplicableLabelPairs, SeriesOf, SeriesType
  <2>3. op' = [op EXCEPT !.node = None, !.left = @ \ {op.node}] /\ op.step = "update"
    BY <1>7 DEF ClearOthers, Poller
  <2>4. op' \in Polls /\ op'.left = op.left \ {op.node} /\ op'.node = None /\ op'.step = op.step
    BY <1>0, <2>3 DEF Polls
  <2>5. OpType'
    BY <1>0, <2>3, <2>4 DEF OpType
  <2>6. GaugeType'
    BY <1>0, <1>7, <2>2, PutPartial DEF ClearOthers, GaugeType
  <2> QED
    BY <1>0, <1>7, <2>5, <2>6 DEF ClearOthers, Poller, ringVars, Types, RingType, QueueType, TopologyType
<1>8. CASE UpdateDone
  <2>1. op.seen \in PartialFunctions(Pods, Racks)
    BY <1>0 DEF Polls
  <2>2. DOMAIN op.seen \in SUBSET Pods
    BY <2>1, Partial
  <2>3. Cardinality(DOMAIN op.seen) \in 0..Cardinality(Pods)
    <3>1. IsFiniteSet(Pods)
      BY MetricsAssumption
    <3>2. IsFiniteSet(DOMAIN op.seen) /\ Cardinality(DOMAIN op.seen) <= Cardinality(Pods)
      BY <2>2, <3>1, FS_Subset
    <3>3. Cardinality(DOMAIN op.seen) \in Nat /\ Cardinality(Pods) \in Nat
      BY <3>1, <3>2, FS_CardinalityType
    <3> QED
      BY <3>2, <3>3
  <2>4. \A t \in PartialFunctions(Pods, Racks) \cup {None} : Entries(t) \subseteq Racks \X Pods
    BY Partial DEF Entries
  <2>5. TopologyType'
    BY <1>0, <1>8, <2>1, <2>3, <2>4 DEF UpdateDone, TopologyType
  <2>6. OpType'
    BY <1>8, <1>c DEF UpdateDone, OpType
  <2> QED
    BY <1>0, <1>8, <2>5, <2>6 DEF UpdateDone, ringVars, Types, RingType, QueueType, GaugeType
<1> QED
  BY <1>1, <1>2, <1>3, <1>4, <1>5, <1>6, <1>7, <1>8, <1>9 DEF Gather, UrlForMbeans, UrlForRacks, Steps

LEMMA TypesNext == Types /\ [Next]_vars => Types'
<1> SUFFICES ASSUME Types, [Next]_vars
             PROVE  Types'
  OBVIOUS
<1>1. CASE UNCHANGED vars
  BY <1>1 DEF vars, ringVars, gauges, history, Types, RingType, QueueType, OpType, GaugeType, TopologyType
<1> QED
  BY <1>1, RingNext, EventsNext, GatherNext DEF Next, Environment, Worker

(* Every variable keeps its type, and the rack of a node is unknown only   *)
(* if the node is not among the live ones, whatever happens to the ring    *)
(* and the pods between the requests of a poll.                            *)
THEOREM TypeCorrect == Spec => []TypeOK
  BY TypesInit, TypesNext, TypesSuffice, PTL DEF Spec

-----------------------------------------------------------------------------
(* What a poll has gathered. *)

(* Only a poll that reports has seen nodes, and has series left to set: no *)
(* two of them, and none that has been done with, are of the same pod.     *)
PollInv ==
    /\ op.step # "update" => op.seen = Empty /\ op.node = None
    /\ op.step \notin {"update", "remove"} => op.left = {}
    /\ \A m, n \in DOMAIN op.names : op.names[m] = op.names[n] => m = n
    /\ op.step = "update" => \A s, t \in op.left : s[2] = t[2] => s = t
    /\ op.step = "update" => \A s \in op.left : s[2] \in DOMAIN op.seen => s = op.node

(* What a step does, but for the steps that matter to the gauges. *)
Quiet ==
    /\ UNCHANGED <<online, gauge, size, topology, dropped, late>>
    /\ op'.node = op.node /\ op'.seen = op.seen
    /\ op.step = "idle" => op'.step = "idle"
    /\ op.step = "remove" \/ op'.step = "remove" => op' = op

Reporting ==
    \/ AddClusterOperation \/ DeleteClusterOperation \/ UpdateMetrics
    \/ (\E s \in op.left : RemoveSeries(s)) \/ SeriesRemoved
    \/ (\E s \in op.left : SetStatus(s)) \/ ClearOthers \/ UpdateDone

(* A poll in its various steps. *)
LEMMA PollingFields ==
    ASSUME NEW step, NEW names, NEW left
    PROVE  LET new == Polling(step, names, left)
           IN  /\ new.step = step /\ new.names = names /\ new.left = left
               /\ new.seen = Empty /\ new.node = None
  BY DEF Polling

(* Polls go on from step to step, and only the last one reports. *)
LEMMA PollNext ==
    ASSUME Types, PollInv, [Next]_vars
    PROVE  PollInv' /\ (Quiet \/ Reporting)
<1>0. op \in Polls /\ RingType /\ op.node \in op.left \cup {None} /\ None \notin SeriesType
  BY MetricsAssumption DEF Types, OpType
<1>a. /\ op.step # "update" => op.seen = Empty /\ op.node = None
      /\ op.step \notin {"update", "remove"} => op.left = {}
  BY <1>0 DEF PollInv
<1>1. CASE op' = op
  <2>1. PollInv'
    BY <1>1 DEF PollInv
  <2>2. Reporting \/ UNCHANGED <<online, gauge, size, topology, dropped, late>>
    BY <1>1 DEF Next, vars, Environment, Worker, Gather, Reporting, ringVars, gauges, history, PodStops,
         PodStarts, NodeJoins, NodeChanges, NodeLeaves, DeleteCluster, AddCluster, Dispatch, Poll,
         UrlForMbeans, UrlForRacks, UrlFor, ReadMbean, ReadRack, TransformClusterStatus, GatherFails, Poller
  <2> QED
    BY <1>1, <2>1, <2>2 DEF Quiet
<1>2. CASE UpdateMetrics /\ op' # op
  <2> DEFINE names == [n \in Addresses |-> CHOOSE p \in Pods : ip[p] = n]
  <2>1. op' = Polling("url", names, {})
    BY <1>2 DEF UpdateMetrics
  <2>2. \A m, n \in DOMAIN names : names[m] = names[n] => m = n
    BY <1>0 DEF Addresses, RingType
  <2> HIDE DEF names
  <2>3. op'.step = "url" /\ op'.names = names /\ op'.left = {} /\ op'.seen = Empty /\ op'.node = None
    BY <2>1, PollingFields
  <2> QED
    BY <1>2, <2>2, <2>3 DEF PollInv, Reporting
<1>3. ASSUME NEW step \in {"url", "rackurl"}, NEW next \in {"mbeans", "racks"}, UrlFor(step, next)
      PROVE  PollInv' /\ Quiet
  <2>1. PICK url : Poller(step, [op EXCEPT !.step = next, !.url = url])
    BY <1>3 DEF UrlFor
  <2>2. op' = [op EXCEPT !.step = next, !.url = url] /\ op.step = step
        /\ UNCHANGED <<online, gauge, size, topology, dropped, late>>
    BY <1>3, <2>1 DEF UrlFor, Poller, gauges
  <2>3. /\ op'.step = next /\ op'.names = op.names /\ op'.left = op.left /\ op'.seen = op.seen
        /\ op'.node = op.node
    BY <1>0, <2>2 DEF Polls
  <2> QED
    BY <1>a, <2>2, <2>3 DEF PollInv, Quiet
<1>4. ASSUME NEW mbean \in Mbeans, ReadMbean(mbean)
      PROVE  PollInv' /\ Quiet
  <2> DEFINE got == Put(op.got, {mbean}, Value(mbean))
  <2>1. \/ op' = [op EXCEPT !.got = got, !.step = "rackurl", !.url = None]
        \/ op' = [op EXCEPT !.got = got]
    BY <1>4 DEF ReadMbean, Poller
  <2>2. op.step = "mbeans" /\ UNCHANGED <<online, gauge, size, topology, dropped, late>>
    BY <1>4 DEF ReadMbean, Poller, gauges
  <2> HIDE DEF got
  <2>3. /\ op'.step \in {"mbeans", "rackurl"} /\ op'.names = op.names /\ op'.left = op.left
        /\ op'.seen = op.seen /\ op'.node = op.node
    BY <1>0, <2>1, <2>2 DEF Polls
  <2> QED
    BY <1>a, <2>2, <2>3 DEF PollInv, Quiet
<1>5. CASE TransformClusterStatus
  <2> DEFINE left == {NodeStatus(n) : n \in Listed(op.got) \cap DOMAIN op.names}
  <2>1. op' = Polling("update", Empty, left) /\ op.step = "racks"
        /\ UNCHANGED <<online, gauge, size, topology, dropped, late>>
    BY <1>5 DEF TransformClusterStatus, Poller, gauges
  <2>2. \A n \in Listed(op.got) \cap DOMAIN op.names : NodeStatus(n)[2] = op.names[n]
    BY <1>0, <1>5, StatusType DEF TransformClusterStatus
  <2>3. \A s, t \in left : s[2] = t[2] => s = t
    BY <2>2 DEF PollInv
  <2> HIDE DEF left
  <2>4. /\ op'.step = "update" /\ op'.names = Empty /\ op'.left = left /\ op'.seen = Empty
        /\ op'.node = None
    BY <2>1, PollingFields
  <2>5. DOMAIN Empty = {}
    BY EmptyPartial
  <2> QED
    BY <1>a, <2>1, <2>3, <2>4, <2>5 DEF PollInv, Quiet
<1>6. CASE GatherFails \/ UpdateDone \/ SeriesRemoved
  <2>1. op' = Idle
    BY <1>6 DEF GatherFails, UpdateDone, SeriesRemoved, Poller
  <2>2. /\ op'.step = "idle" /\ op'.names = Empty /\ op'.left = {} /\ op'.seen = Empty
        /\ op'.node = None /\ DOMAIN Empty = {}
    BY <2>1, PollingFields, EmptyPartial DEF Idle
  <2>3. PollInv'
    BY <2>2 DEF PollInv
  <2>4. GatherFails => op.step \notin {"update", "remove"} /\ UNCHANGED <<online, gauge, size, topology, dropped, late>>
    BY DEF GatherFails, Poller, gauges
  <2> QED
    BY <1>6, <1>a, <2>2, <2>3, <2>4 DEF Quiet, Reporting
<1>7. ASSUME NEW s \in op.left, SetStatus(s)
      PROVE  PollInv'
  <2>1. op' = [op EXCEPT !.node = s, !.seen = Put(@, {s[2]}, s[1])] /\ op.node = None /\ op.step = "update"
    BY <1>7 DEF SetStatus, Poller
  <2>2. /\ op'.step = "update" /\ op'.names = op.names /\ op'.left = op.left /\ op'.node = s
        /\ op'.seen = Put(op.seen, {s[2]}, s[1])
    BY <1>0, <2>1 DEF Polls
  <2>3. DOMAIN op'.seen = DOMAIN op.seen \cup {s[2]}
    BY <2>2 DEF Put
  <2> QED
    BY <1>0, <2>1, <2>2, <2>3 DEF PollInv, Polls
<1>8. CASE ClearOthers
  <2>1. op' = [op EXCEPT !.node = None, !.left = @ \ {op.node}] /\ op.step = "update"
    BY <1>8 DEF ClearOthers, Poller
  <2>2. /\ op'.step = "update" /\ op'.names = op.names /\ op'.left = op.left \ {op.node}
        /\ op'.node = None /\ op'.seen = op.seen
    BY <1>0, <2>1 DEF Polls
  <2> QED
    BY <1>8, <2>1, <2>2 DEF PollInv, Reporting
<1>9. ASSUME NEW n \in Nodes, ReadRack(n)
      PROVE  PollInv' /\ Quiet
  <2> DEFINE racks == Put(op.racks, {n}, RackOf[ring[n].pod])
  <2>1. op' = [op EXCEPT !.racks = racks] /\ op.step = "racks"
        /\ UNCHANGED <<online, gauge, size, topology, dropped, late>>
    BY <1>9 DEF ReadRack, Poller, gauges
  <2> HIDE DEF racks
  <2>2. /\ op'.step = "racks" /\ op'.names = op.names /\ op'.left = op.left
        /\ op'.seen = op.seen /\ op'.node = op.node
    BY <1>0, <2>1 DEF Polls
  <2> QED
    BY <1>a, <2>1, <2>2 DEF PollInv, Quiet
<1>10. ASSUME NEW s \in op.left, RemoveSeries(s)
       PROVE  PollInv'
  <2>1. op' = [op EXCEPT !.left = @ \ {s}] /\ op.step = "remove"
    BY <1>10 DEF RemoveSeries
  <2>2. /\ op'.step = "remove" /\ op'.names = op.names /\ op'.seen = op.seen /\ op'.node = op.node
    BY <1>0, <2>1 DEF Polls
  <2> QED
    BY <1>a, <2>1, <2>2 DEF PollInv
<1>11. CASE DeleteClusterOperation /\ op' # op
  <2>1. op' = Polling("remove", Empty, SeriesToRemove(topology))
    BY <1>11 DEF DeleteClusterOperation, DeleteMetrics
  <2>2. op'.step = "remove" /\ op'.names = Empty /\ op'.seen = Empty /\ op'.node = None /\ DOMAIN Empty = {}
    BY <2>1, PollingFields, EmptyPartial
  <2> QED
    BY <1>11, <2>2 DEF PollInv, Reporting
<1>12. \/ op' = op \/ Gather \/ DeleteClusterOperation
       \/ (\E s \in op.left : RemoveSeries(s)) \/ SeriesRemoved
  BY DEF Next, vars, Environment, Worker, PodStops, PodStarts, NodeJoins, NodeChanges, NodeLeaves,
         DeleteCluster, AddCluster, Dispatch, Poll, AddClusterOperation
<1> QED
  BY <1>1, <1>2, <1>3, <1>4, <1>5, <1>6, <1>7, <1>8, <1>9, <1>10, <1>11, <1>12
     DEF Gather, UrlForMbeans, UrlForRacks, Reporting

-----------------------------------------------------------------------------
(* One status. *)

(* A deletion has taken the size and keeps the topology until the end, and *)
(* of the nodes of the topology only the series that are left are there.   *)
RemoveInv ==
    op.step = "remove" =>
      /\ topology # None /\ size = None
      /\ op.left \subseteq SeriesToRemove(topology)
      /\ SeriesToRemove(topology) \cap DOMAIN gauge \subseteq op.left

LEMMA RemoveNext ==
    ASSUME Types, PollInv, RemoveInv, [Next]_vars
    PROVE  RemoveInv'
<1>0. op \in Polls /\ GaugeType
  BY DEF Types, OpType
<1>1. CASE Quiet
  BY <1>1 DEF Quiet, RemoveInv, SeriesToRemove
<1>2. CASE DeleteClusterOperation /\ op' = op
  BY <1>2 DEF DeleteClusterOperation, Takes, RemoveInv
<1>3. CASE DeleteClusterOperation /\ op' # op
  <2>1. op' = Polling("remove", Empty, SeriesToRemove(topology)) /\ topology # None
        /\ size' = None /\ UNCHANGED <<gauge, topology>>
    BY <1>3 DEF DeleteClusterOperation, DeleteMetrics
  <2>2. op'.left = SeriesToRemove(topology)
    BY <2>1, PollingFields
  <2>3. SeriesToRemove(topology)' = SeriesToRemove(topology)
    BY <2>1 DEF SeriesToRemove
  <2> QED
    BY <2>1, <2>2, <2>3 DEF RemoveInv
<1>4. ASSUME NEW s \in op.left, RemoveSeries(s)
      PROVE  RemoveInv'
  <2>1. op' = [op EXCEPT !.left = @ \ {s}] /\ op.step = "remove" /\ UNCHANGED <<size, topology>>
    BY <1>4 DEF RemoveSeries
  <2>2. op'.left = op.left \ {s}
    BY <1>0, <2>1 DEF Polls
  <2>3. DOMAIN gauge' = DOMAIN gauge \ {s}
    BY <1>0, <1>4, RemovePartial
  <2>4. SeriesToRemove(topology)' = SeriesToRemove(topology)
    BY <2>1 DEF SeriesToRemove
  <2> QED
    BY <2>1, <2>2, <2>3, <2>4 DEF RemoveInv
<1>5. ASSUME op'.step # "remove"
      PROVE  RemoveInv'
  BY <1>5 DEF RemoveInv
<1>6. CASE UpdateDone \/ SeriesRemoved \/ UpdateMetrics \/ AddClusterOperation
  <2>1. op.step # "remove" /\ op' = op => RemoveInv'
    BY <1>5
  <2>2. op' \in {op, Idle} \/ op'.step = "url"
    BY <1>6, PollingFields DEF UpdateDone, SeriesRemoved, UpdateMetrics, AddClusterOperation, Takes
  <2>3. Idle.step # "remove"
    BY PollingFields DEF Idle
  <2>4. SeriesRemoved \/ UpdateDone => op' = Idle
    BY DEF SeriesRemoved, UpdateDone
  <2>5. UpdateMetrics \/ AddClusterOperation => op.step # "remove"
    BY DEF UpdateMetrics, AddClusterOperation, Takes
  <2> QED
    BY <1>5, <1>6, <2>1, <2>2, <2>3, <2>4, <2>5
<1>7. CASE ClearOthers \/ \E s \in op.left : SetStatus(s)
  <2>1. op'.step = op.step /\ op.step = "update"
    BY <1>0, <1>7 DEF ClearOthers, SetStatus, Poller, Polls
  <2> QED
    BY <1>5, <2>1
<1> QED
  BY <1>1, <1>2, <1>3, <1>4, <1>6, <1>7, PollNext DEF Reporting

(* Of the series of a reported node one is set, unless the node is being   *)
(* removed; two of them are set only during the node's update, and then    *)
(* one of the two is the new one.                                          *)
SamePod(s, t) == s[1] = t[1] /\ s[2] = t[2]
StatusInv ==
    /\ op.node # None => op.node \in DOMAIN gauge /\ gauge[op.node] = 1
    /\ \A s \in DOMAIN gauge :
         BeingRemoved(s[1], s[2]) \/ \E t \in DOMAIN gauge : SamePod(s, t) /\ gauge[t] = 1
    /\ \A s, t \in DOMAIN gauge :
         SamePod(s, t) /\ gauge[s] = 1 /\ gauge[t] = 1 => s = t \/ op.node \in {s, t}

(* The series of a node are those with its labels. *)
LEMMA SeriesOfNode ==
    ASSUME NEW s \in SeriesType, NEW rack, NEW pod
    PROVE  s \in SeriesOf(rack, pod) <=> s[1] = rack /\ s[2] = pod
<1>1. s = <<s[1], s[2], s[3], s[4]>> /\ s[3] \in Liveness /\ s[4] \in States
  BY DEF SeriesType
<1> QED
  BY <1>1 DEF SeriesOf

(* The entries of a topology. *)
LEMMA EntriesOf ==
    /\ Entries(None) = {} /\ Entries(Empty) = {}
    /\ \A t \in PartialFunctions(Pods, Racks) :
         t # None /\ \A rack, pod : <<rack, pod>> \in Entries(t) <=> pod \in DOMAIN t /\ t[pod] = rack
<1>1. \A t \in PartialFunctions(Pods, Racks) : t # None
  BY MetricsAssumption
<1>2. Empty # None /\ DOMAIN Empty = {}
  BY <1>1, EmptyPartial
<1> QED
  BY <1>1, <1>2 DEF Entries

LEMMA StatusNext ==
    ASSUME Types, PollInv, RemoveInv, StatusInv, [Next]_vars
    PROVE  StatusInv'
<1>0. /\ op \in Polls /\ gauge \in PartialFunctions(SeriesType, {0, 1}) /\ None \notin SeriesType
      /\ DOMAIN gauge \subseteq SeriesType /\ (op.step # "update" => op.node = None)
      /\ topology \in PartialFunctions(Pods, Racks) \cup {None}
  BY Partial, MetricsAssumption DEF Types, OpType, GaugeType, TopologyType, PollInv
<1>a. op.step # "remove" => \A s \in DOMAIN gauge : \E t \in DOMAIN gauge : SamePod(s, t) /\ gauge[t] = 1
  BY DEF StatusInv, BeingRemoved
<1>1. CASE gauge' = gauge /\ op'.node = op.node /\ op.step # "remove"
  BY <1>1, <1>a DEF StatusInv
<1>b. CASE Quiet /\ op.step = "remove"
  <2>1. op' = op /\ gauge' = gauge /\ topology' = topology
    BY <1>b DEF Quiet
  <2>2. \A rack, pod : BeingRemoved(rack, pod)' <=> BeingRemoved(rack, pod)
    BY <2>1 DEF BeingRemoved, Entries
  <2> QED
    BY <2>1, <2>2 DEF StatusInv
<1>2. CASE DeleteClusterOperation
  <2>1. op.step = "idle" /\ gauge' = gauge
    BY <1>2 DEF DeleteClusterOperation, DeleteMetrics, Takes, gauges
  <2>2. op'.node = None /\ op.node = None
    BY <1>0, <1>2, <2>1, PollingFields DEF DeleteClusterOperation, DeleteMetrics
  <2> QED
    BY <1>1, <2>1, <2>2
<1>6. ASSUME NEW s \in op.left, RemoveSeries(s)
      PROVE  StatusInv'
  <2>1. op' = [op EXCEPT !.left = @ \ {s}] /\ op.step = "remove" /\ topology' = topology
    BY <1>6 DEF RemoveSeries
  <2>2. op'.left = op.left \ {s} /\ op'.node = op.node /\ op'.step = op.step /\ op.node = None
    BY <1>0, <2>1 DEF Polls
  <2>3. DOMAIN gauge' = DOMAIN gauge \ {s} /\ \A t \in DOMAIN gauge' : gauge'[t] = gauge[t]
    BY <1>6, RemovePartial DEF Types
  <2>4. topology \in PartialFunctions(Pods, Racks) /\ s \in SeriesToRemove(topology) /\ s \in SeriesType
    BY <1>0, <2>1 DEF RemoveInv, Polls
  <2>5. <<s[1], s[2]>> \in Entries(topology)
    BY <2>4, SeriesRemovedOf, EntriesOf
  <2>6. s \in SeriesOf(s[1], s[2])
    BY <2>4, SeriesOfNode
  <2>7. BeingRemoved(s[1], s[2])'
    BY <2>1, <2>2, <2>5, <2>6 DEF BeingRemoved, Entries, SeriesOf
  <2>8. \A rack, pod : BeingRemoved(rack, pod) => BeingRemoved(rack, pod)'
    BY <2>1, <2>2 DEF BeingRemoved, Entries, SeriesOf
  <2>9. ASSUME NEW r \in DOMAIN gauge', ~BeingRemoved(r[1], r[2])'
        PROVE  \E t \in DOMAIN gauge' : SamePod(r, t) /\ gauge'[t] = 1
    <3>1. ~SamePod(r, s) /\ ~BeingRemoved(r[1], r[2]) /\ r \in DOMAIN gauge
      BY <2>3, <2>7, <2>8, <2>9 DEF SamePod
    <3>2. PICK t \in DOMAIN gauge : SamePod(r, t) /\ gauge[t] = 1
      BY <3>1 DEF StatusInv
    <3>3. t \in DOMAIN gauge'
      BY <2>3, <3>1, <3>2
    <3> QED
      BY <2>3, <3>2, <3>3
  <2>10. \A r, t \in DOMAIN gauge' : SamePod(r, t) /\ gauge'[r] = 1 /\ gauge'[t] = 1 => r = t
    BY <1>0, <2>2, <2>3 DEF StatusInv
  <2> QED
    BY <2>2, <2>9, <2>10 DEF StatusInv
<1>7. CASE SeriesRemoved
  <2>1. op' = Idle /\ gauge' = gauge /\ op.step = "remove" /\ op.left = {}
    BY <1>7 DEF SeriesRemoved
  <2>2. op'.node = None /\ op.node = None
    BY <1>0, <2>1, PollingFields DEF Idle
  <2>3. ASSUME NEW s \in DOMAIN gauge
        PROVE  ~BeingRemoved(s[1], s[2])
    <3>1. topology \in PartialFunctions(Pods, Racks) /\ s \notin SeriesToRemove(topology) /\ s \in SeriesType
      BY <1>0, <2>1 DEF RemoveInv
    <3>2. <<s[1], s[2]>> \notin Entries(topology)
      BY <3>1, SeriesRemovedOf, EntriesOf
    <3> QED
      BY <3>2 DEF BeingRemoved
  <2> QED
    BY <1>0, <2>1, <2>2, <2>3 DEF StatusInv
<1>3. CASE AddClusterOperation \/ UpdateMetrics \/ UpdateDone
  <2>1. gauge' = gauge
    BY <1>3 DEF AddClusterOperation, UpdateMetrics, UpdateDone, gauges
  <2>2. op.node = None
    BY <1>0, <1>3 DEF AddClusterOperation, UpdateMetrics, UpdateDone, Takes, Types, OpType
  <2>3. op' = op \/ op'.node = None
    BY <1>3, PollingFields DEF AddClusterOperation, UpdateMetrics, UpdateDone, Idle
  <2>4. op.step # "remove"
    BY <1>3 DEF AddClusterOperation, UpdateMetrics, UpdateDone, Takes
  <2> QED
    BY <1>1, <2>1, <2>2, <2>3, <2>4
<1>4. ASSUME NEW n \in op.left, SetStatus(n)
      PROVE  StatusInv'
  <2>1. op' = [op EXCEPT !.node = n, !.seen = Put(@, {n[2]}, n[1])] /\ op.node = None
        /\ gauge' = Put(gauge, {n}, 1) /\ op.step = "update"
    BY <1>4 DEF SetStatus, Poller
  <2>2. op'.node = n /\ n \in SeriesType
    BY <1>0, <2>1 DEF Polls
  <2>3. /\ DOMAIN gauge' = DOMAIN gauge \cup {n} /\ gauge'[n] = 1
        /\ \A s \in DOMAIN gauge : s # n => gauge'[s] = gauge[s]
    BY <2>1 DEF Put
  <2>4. op.node \notin DOMAIN gauge
    BY <1>0, <2>1
  <2>5. ASSUME NEW s \in DOMAIN gauge'
        PROVE  \E t \in DOMAIN gauge' : SamePod(s, t) /\ gauge'[t] = 1
    <3>1. CASE s = n
      BY <2>3, <3>1 DEF SamePod
    <3>2. CASE s # n
      <4>1. PICK t \in DOMAIN gauge : SamePod(s, t) /\ gauge[t] = 1
        BY <1>a, <2>1, <2>3, <3>2
      <4> QED
        BY <2>3, <4>1
    <3> QED
      BY <3>1, <3>2
  <2>6. ASSUME NEW s \in DOMAIN gauge', NEW t \in DOMAIN gauge', SamePod(s, t), gauge'[s] = 1, gauge'[t] = 1
        PROVE  s = t \/ op'.node \in {s, t}
    BY <2>2, <2>3, <2>4, <2>6 DEF StatusInv
  <2> QED
    BY <2>2, <2>3, <2>5, <2>6 DEF StatusInv
<1>5. CASE ClearOthers
  <2> DEFINE others == UnapplicableLabelPairs(op.node)
  <2>1. op.node # None /\ op' = [op EXCEPT !.node = None, !.left = @ \ {op.node}]
        /\ gauge' = Put(gauge, others, 0) /\ op.step = "update"
    BY <1>5 DEF ClearOthers, Poller
  <2>2. op'.node = None /\ op.node \in SeriesType
    BY <1>0, <2>1 DEF Polls
  <2>3. \A s \in SeriesType : s \in others <=> SamePod(op.node, s) /\ s # op.node
    BY SeriesOfNode DEF UnapplicableLabelPairs, SamePod
  <2>4. others \in SUBSET SeriesType
    BY <2>2 DEF UnapplicableLabelPairs, SeriesOf, SeriesType
  <2> HIDE DEF others
  <2>5. /\ DOMAIN gauge' = DOMAIN gauge \cup others
        /\ \A s \in others : gauge'[s] = 0
        /\ \A s \in DOMAIN gauge \ others : gauge'[s] = gauge[s]
    BY <2>1 DEF Put
  <2>6. op.node \in DOMAIN gauge' /\ gauge'[op.node] = 1
    BY <2>1, <2>2, <2>3, <2>5 DEF StatusInv
  <2>7. ASSUME NEW s \in DOMAIN gauge'
        PROVE  \E t \in DOMAIN gauge' : SamePod(s, t) /\ gauge'[t] = 1
    <3>1. CASE SamePod(op.node, s)
      BY <2>6, <3>1 DEF SamePod
    <3>2. CASE ~SamePod(op.node, s)
      <4>1. s \in DOMAIN gauge
        BY <2>3, <2>4, <2>5, <3>2
      <4>2. PICK t \in DOMAIN gauge : SamePod(s, t) /\ gauge[t] = 1
        BY <1>a, <2>1, <4>1
      <4>3. t \notin others
        BY <1>0, <2>3, <3>2, <4>2 DEF SamePod
      <4> QED
        BY <2>5, <4>2, <4>3
    <3> QED
      BY <3>1, <3>2
  <2>8. ASSUME NEW s \in DOMAIN gauge', NEW t \in DOMAIN gauge', SamePod(s, t), gauge'[s] = 1, gauge'[t] = 1
        PROVE  s = t
    <3>1. s \notin others /\ t \notin others
      BY <2>5, <2>8
    <3>2. s \in DOMAIN gauge /\ t \in DOMAIN gauge /\ gauge[s] = 1 /\ gauge[t] = 1
      BY <2>5, <2>8, <3>1
    <3>3. s = t \/ op.node \in {s, t}
      BY <2>8, <3>2 DEF StatusInv
    <3> QED
      BY <1>0, <2>3, <2>8, <3>1, <3>2, <3>3 DEF SamePod
  <2> QED
    BY <2>2, <2>7, <2>8 DEF StatusInv
<1> QED
  BY <1>1, <1>b, <1>2, <1>3, <1>4, <1>5, <1>6, <1>7, PollNext DEF Quiet, Reporting

LEMMA StatusSuffices ==
    ASSUME Types, PollInv, RemoveInv, StatusInv
    PROVE  OneStatus
<1>0. DOMAIN gauge \subseteq SeriesType /\ None \notin SeriesType
  BY Partial, MetricsAssumption DEF Types, GaugeType
<1> SUFFICES ASSUME NEW r \in Reported
             PROVE  Cardinality(Statuses(r[1], r[2])) \in
                      {1} \cup (IF BeingUpdated(r[1], r[2]) THEN {2} ELSE {})
                          \cup (IF BeingRemoved(r[1], r[2]) THEN {0} ELSE {})
  BY DEF OneStatus
<1> DEFINE set == Statuses(r[1], r[2])
<1>1. PICK s \in DOMAIN gauge : r = <<s[1], s[2]>>
  BY DEF Reported
<1>2. BeingRemoved(r[1], r[2]) \/ \E t \in set : TRUE
  <2>1. BeingRemoved(s[1], s[2]) \/ \E t \in DOMAIN gauge : SamePod(s, t) /\ gauge[t] = 1
    BY DEF StatusInv
  <2> QED
    BY <1>0, <1>1, <2>1, SeriesOfNode DEF Statuses, SamePod
<1>3. \A u : u \in set <=> u \in DOMAIN gauge /\ SamePod(s, u) /\ gauge[u] = 1
  BY <1>0, <1>1, SeriesOfNode DEF Statuses, SamePod
<1>a. BeingRemoved(r[1], r[2]) => ~BeingUpdated(r[1], r[2])
  BY DEF BeingRemoved, BeingUpdated, PollInv
<1> HIDE DEF set
<1>4. CASE BeingUpdated(r[1], r[2])
  <2>1. op.node \in set
    BY <1>1, <1>3, <1>4 DEF StatusInv, SamePod, BeingUpdated
  <2>2. CASE set = {op.node}
    BY <1>4, <2>2, FS_Singleton DEF set
  <2>3. CASE set # {op.node}
    <3>1. PICK u \in set : u # op.node
      BY <2>1, <2>3
    <3>2. \A x \in set : x = u \/ x = op.node
      BY <1>3, <3>1 DEF StatusInv, SamePod
    <3>3. set = {op.node} \cup {u}
      BY <2>1, <3>1, <3>2
    <3>4. Cardinality(set) = 2
      <4>1. IsFiniteSet({op.node}) /\ Cardinality({op.node}) = 1 /\ u \notin {op.node}
        BY <3>1, FS_Singleton
      <4>2. Cardinality({op.node} \cup {u}) = Cardinality({op.node}) + 1
        BY <4>1, FS_AddElement
      <4> QED
        BY <3>3, <4>1, <4>2
    <3> QED
      BY <1>4, <3>4 DEF set
  <2> QED
    BY <2>2, <2>3
<1>5. CASE ~BeingUpdated(r[1], r[2])
  <2>1. ASSUME NEW t \in set, NEW u \in set
        PROVE  u = t
    <3>1. SamePod(u, t) /\ u \in DOMAIN gauge /\ gauge[u] = 1 /\ t \in DOMAIN gauge /\ gauge[t] = 1
      BY <1>3 DEF SamePod
    <3>2. u = t \/ op.node \in {u, t}
      BY <3>1 DEF StatusInv
    <3>3. op.node \notin {u, t}
      BY <1>0, <1>1, <1>3, <1>5 DEF SamePod, BeingUpdated
    <3> QED
      BY <3>2, <3>3
  <2>2. CASE set = {}
    BY <1>2, <2>2, FS_EmptySet DEF set
  <2>3. CASE set # {}
    <3>1. PICK t \in set : TRUE
      BY <2>3
    <3>2. set = {t}
      BY <2>1, <3>1
    <3> QED
      BY <3>2, FS_Singleton DEF set
  <2> QED
    BY <2>2, <2>3
<1> QED
  BY <1>4, <1>5

-----------------------------------------------------------------------------
(* The topology and the gauges. *)

(* What a poll has seen is reported; all that is reported is in the        *)
(* topology, or a poll has dropped it or has just seen it.  A cluster that *)
(* is deleted is being removed, or has no topology, and no poll runs.      *)
ReportInv ==
    /\ TopologyReported
    /\ Entries(op.seen) \subseteq Reported
    /\ Reported \subseteq dropped \cup Entries(topology) \cup Entries(op.seen)
    /\ ~online /\ ~late => op.step = "remove" \/ (op.step = "idle" /\ topology = None)

(* The pairs that are reported, in this state and in the next. *)
LEMMA ReportedPairs ==
    /\ \A rack, pod : <<rack, pod>> \in Reported <=> \E s \in DOMAIN gauge : s[1] = rack /\ s[2] = pod
    /\ \A rack, pod : <<rack, pod>> \in Reported' <=> \E s \in DOMAIN gauge' : s[1] = rack /\ s[2] = pod
    /\ \A r \in Reported : r = <<r[1], r[2]>>
    /\ \A r \in Reported' : r = <<r[1], r[2]>>
  BY DEF Reported

LEMMA ReportNext ==
    ASSUME Types, PollInv, RemoveInv, StatusInv, ReportInv, [Next]_vars
    PROVE  ReportInv'
<1>0. /\ op \in Polls /\ op.seen \in PartialFunctions(Pods, Racks) /\ GaugeType
      /\ DOMAIN gauge \subseteq SeriesType
      /\ topology \in PartialFunctions(Pods, Racks) \cup {None}
      /\ op.step # "update" => op.seen = Empty
      /\ op.node \in op.left \cup {None}
  BY Partial DEF Types, OpType, Polls, PollInv, GaugeType, TopologyType
<1>a. Cardinality(DOMAIN op.seen) # None
  <2>1. DOMAIN op.seen \in SUBSET Pods
    BY <1>0, Partial
  <2>2. IsFiniteSet(Pods) /\ None \notin Nat
    BY MetricsAssumption
  <2> QED
    BY <2>1, <2>2, FS_Subset, FS_CardinalityType
<1>1. CASE Quiet
  <2>1. UNCHANGED <<online, gauge, size, topology, dropped, late>> /\ op'.seen = op.seen
    BY <1>1 DEF Quiet
  <2>2. ~online' /\ ~late' => op'.step = "remove" \/ (op'.step = "idle" /\ topology' = None)
    BY <1>1, <2>1 DEF ReportInv, Quiet
  <2>3. Reported' = Reported /\ Entries(topology') = Entries(topology) /\ Entries(op'.seen) = Entries(op.seen)
    BY <2>1 DEF Reported
  <2>4. TopologyReported'
    BY <1>1, <2>1, <2>3 DEF ReportInv, TopologyReported, Quiet
  <2> QED
    BY <2>1, <2>2, <2>3, <2>4 DEF ReportInv
<1>2. CASE AddClusterOperation
  <2>1. UNCHANGED <<op, gauge, size, topology, dropped>> /\ online'
    BY <1>2 DEF AddClusterOperation, gauges
  <2>2. Reported' = Reported
    BY <2>1 DEF Reported
  <2> QED
    BY <2>1, <2>2 DEF ReportInv, TopologyReported
<1>3. CASE DeleteClusterOperation
  <2>1. op.step = "idle" /\ UNCHANGED <<gauge, topology, dropped, late>> /\ op.seen = Empty
    BY <1>0, <1>3 DEF DeleteClusterOperation, DeleteMetrics, Takes, history, gauges
  <2>2. Reported' = Reported /\ Entries(topology') = Entries(topology)
    BY <2>1 DEF Reported
  <2>3. CASE op' = op
    <3>1. \/ UNCHANGED <<online, size>>
          \/ topology = None /\ size' = None
      <4>1. Polling("remove", Empty, SeriesToRemove(topology)).step = "remove"
        BY PollingFields
      <4> QED
        BY <1>3, <2>1, <2>3, <4>1 DEF DeleteClusterOperation, DeleteMetrics, gauges
    <3> QED
      BY <2>1, <2>2, <2>3, <3>1, EntriesOf DEF ReportInv, TopologyReported
  <2>5. CASE op' # op
    <3>1. op' = Polling("remove", Empty, SeriesToRemove(topology))
      BY <1>3, <2>5 DEF DeleteClusterOperation, DeleteMetrics
    <3>2. op'.step = "remove" /\ op'.seen = Empty
      BY <3>1, PollingFields
    <3> QED
      BY <2>1, <2>2, <3>2 DEF ReportInv, TopologyReported
  <2> QED
    BY <2>3, <2>5
<1>8. ASSUME NEW s \in op.left, RemoveSeries(s)
      PROVE  ReportInv'
  <2>1. op' = [op EXCEPT !.left = @ \ {s}] /\ op.step = "remove"
        /\ UNCHANGED <<online, size, topology, dropped, late>>
    BY <1>8 DEF RemoveSeries, history
  <2>2. op'.step = "remove" /\ op'.seen = op.seen /\ Entries(op.seen) = {}
    BY <1>0, <2>1, EntriesOf DEF Polls
  <2>3. Reported' \subseteq Reported
    BY <1>0, <1>8, RemovePartial DEF Reported
  <2> QED
    BY <2>1, <2>2, <2>3 DEF ReportInv, TopologyReported
<1>9. CASE SeriesRemoved
  <2>1. op' = Idle /\ topology' = None /\ op.step = "remove" /\ op.left = {}
        /\ UNCHANGED <<online, gauge, size, dropped, late>>
    BY <1>9 DEF SeriesRemoved, history
  <2>2. op'.step = "idle" /\ op'.seen = Empty
    BY <2>1, PollingFields DEF Idle
  <2>3. size = None /\ topology \in PartialFunctions(Pods, Racks) /\ Reported' = Reported
        /\ Entries(op.seen) = {} /\ Entries(topology') = {} /\ Entries(op'.seen) = {}
    BY <1>0, <2>1, <2>2, EntriesOf DEF RemoveInv, Reported
  <2>4. ASSUME NEW s \in DOMAIN gauge
        PROVE  <<s[1], s[2]>> \in dropped
    <3>1. s \notin SeriesToRemove(topology) /\ s \in SeriesType
      BY <1>0, <2>1 DEF RemoveInv
    <3>2. <<s[1], s[2]>> \notin Entries(topology)
      BY <2>3, <3>1, SeriesRemovedOf, EntriesOf
    <3>3. <<s[1], s[2]>> \in Reported
      BY DEF Reported
    <3> QED
      BY <2>3, <3>2, <3>3 DEF ReportInv
  <2>5. Reported \subseteq dropped
    BY <2>4 DEF Reported
  <2> QED
    BY <2>1, <2>2, <2>3, <2>5 DEF ReportInv, TopologyReported
<1>4. CASE UpdateMetrics
  <2>1. UNCHANGED <<online, gauge, size, topology, dropped>> /\ (~online' => late') /\ op.step = "idle"
    BY <1>4 DEF UpdateMetrics, Takes, gauges
  <2>2. Reported' = Reported
    BY <2>1 DEF Reported
  <2>3. op'.seen = Empty
    BY <1>0, <1>4, <2>1, PollingFields DEF UpdateMetrics
  <2>4. op.seen = Empty
    BY <1>0, <2>1
  <2> QED
    BY <2>1, <2>2, <2>3, <2>4 DEF ReportInv, TopologyReported
<1>5. ASSUME NEW n \in op.left, SetStatus(n)
      PROVE  ReportInv'
  <2>1. /\ op' = [op EXCEPT !.node = n, !.seen = Put(@, {n[2]}, n[1])]
        /\ gauge' = Put(gauge, {n}, 1) /\ op.node = None /\ op.step = "update"
        /\ UNCHANGED <<online, size, topology, dropped, late>>
    BY <1>5 DEF SetStatus, Poller
  <2>2. op'.seen = Put(op.seen, {n[2]}, n[1]) /\ op'.step = op.step /\ n \in SeriesType
    BY <1>0, <2>1 DEF Polls
  <2>4. op'.seen \in PartialFunctions(Pods, Racks)
    BY TypesNext DEF Types, OpType, Polls
  <2>5. /\ DOMAIN op'.seen = DOMAIN op.seen \cup {n[2]} /\ op'.seen[n[2]] = n[1]
        /\ \A p \in DOMAIN op.seen : p # n[2] => op'.seen[p] = op.seen[p]
    BY <2>2 DEF Put
  <2>6. n[2] \notin DOMAIN op.seen
    BY <1>0, <2>1, <2>2, MetricsAssumption DEF PollInv
  <2>7. DOMAIN gauge' = DOMAIN gauge \cup {n}
    BY <2>1 DEF Put
  <2>8. ASSUME NEW rack, NEW pod
        PROVE  <<rack, pod>> \in Entries(op'.seen) <=>
                 <<rack, pod>> \in Entries(op.seen) \/ (rack = n[1] /\ pod = n[2])
    <3>1. <<rack, pod>> \in Entries(op'.seen) <=> pod \in DOMAIN op'.seen /\ op'.seen[pod] = rack
      BY <2>4, EntriesOf
    <3>2. <<rack, pod>> \in Entries(op.seen) <=> pod \in DOMAIN op.seen /\ op.seen[pod] = rack
      BY <1>0, EntriesOf
    <3> QED
      BY <2>5, <2>6, <3>1, <3>2
  <2>9. ASSUME NEW rack, NEW pod
        PROVE  <<rack, pod>> \in Reported' <=> <<rack, pod>> \in Reported \/ (rack = n[1] /\ pod = n[2])
    <3>1. <<rack, pod>> \in Reported' <=> \E s \in DOMAIN gauge' : s[1] = rack /\ s[2] = pod
      BY ReportedPairs
    <3>2. <<rack, pod>> \in Reported <=> \E s \in DOMAIN gauge : s[1] = rack /\ s[2] = pod
      BY ReportedPairs
    <3> QED
      BY <2>7, <3>1, <3>2
  <2>10. \A r \in Entries(topology) \cup Entries(op.seen) \cup Entries(op'.seen) : r = <<r[1], r[2]>>
    BY DEF Entries
  <2>11. Entries(topology) \subseteq Reported' /\ Entries(op'.seen) \subseteq Reported'
    <3>1. Entries(topology) \subseteq Reported /\ Entries(op.seen) \subseteq Reported
      BY <2>1 DEF ReportInv, TopologyReported
    <3> QED
      BY <2>8, <2>9, <2>10, <3>1
  <2>12. Reported' \subseteq dropped \cup Entries(topology) \cup Entries(op'.seen)
    BY <2>8, <2>9, ReportedPairs DEF ReportInv
  <2>13. ~online /\ ~late => FALSE
    BY <2>1 DEF ReportInv
  <2>14. TopologyReported'
    BY <2>1, <2>11 DEF ReportInv, TopologyReported
  <2> QED
    BY <2>1, <2>11, <2>12, <2>13, <2>14 DEF ReportInv
<1>6. CASE ClearOthers
  <2> DEFINE others == UnapplicableLabelPairs(op.node)
  <2>1. /\ op' = [op EXCEPT !.node = None, !.left = @ \ {op.node}] /\ op.node # None
        /\ gauge' = Put(gauge, others, 0) /\ op.step = "update"
        /\ UNCHANGED <<online, size, topology, dropped, late>>
    BY <1>6 DEF ClearOthers, Poller
  <2>2. op'.seen = op.seen /\ op'.step = op.step /\ op.node \in SeriesType
    BY <1>0, <2>1 DEF Polls
  <2>3. \A s \in others : s[1] = op.node[1] /\ s[2] = op.node[2]
    BY DEF UnapplicableLabelPairs, SeriesOf
  <2> HIDE DEF others
  <2>4. DOMAIN gauge' = DOMAIN gauge \cup others
    BY <2>1 DEF Put
  <2>5. <<op.node[1], op.node[2]>> \in Reported
    BY <2>1 DEF StatusInv, Reported
  <2>6. Reported' = Reported
    BY <2>3, <2>4, <2>5 DEF Reported
  <2> QED
    BY <2>1, <2>2, <2>6 DEF ReportInv, TopologyReported
<1>7. CASE UpdateDone
  <2>1. /\ topology' = op.seen /\ size' = Cardinality(DOMAIN op.seen) /\ op' = Idle
        /\ dropped' = (dropped \cup Entries(topology)) \ Entries(op.seen)
        /\ UNCHANGED <<online, gauge, late>> /\ op.step = "update"
    BY <1>7 DEF UpdateDone
  <2>2. op'.seen = Empty /\ Entries(op'.seen) = {} /\ Reported' = Reported /\ op.seen # None
    BY <1>0, <2>1, PollingFields, EntriesOf DEF Idle, Reported
  <2>3. TopologyReported'
    BY <1>a, <2>1, <2>2 DEF ReportInv, TopologyReported
  <2>4. Reported' \subseteq dropped' \cup Entries(topology')
    BY <2>1, <2>2 DEF ReportInv
  <2>5. ~online' /\ ~late' => FALSE
    BY <2>1 DEF ReportInv
  <2> QED
    BY <2>2, <2>3, <2>4, <2>5 DEF ReportInv
<1> QED
  BY <1>1, <1>2, <1>3, <1>4, <1>5, <1>6, <1>7, <1>8, <1>9, PollNext DEF Reporting

(* The invariants together. *)
Inv == Types /\ PollInv /\ RemoveInv /\ StatusInv /\ ReportInv

LEMMA Invariant == Spec => []Inv
<1>1. Init => PollInv /\ RemoveInv /\ StatusInv
  BY PollingFields, EmptyPartial DEF Init, Idle, PollInv, RemoveInv, StatusInv
<1>2. Init => ReportInv
  BY PollingFields, EmptyPartial, EntriesOf DEF Init, Idle, ReportInv, TopologyReported, Reported
<1>3. Types /\ PollInv /\ RemoveInv /\ StatusInv /\ ReportInv /\ [Next]_vars
        => PollInv' /\ RemoveInv' /\ StatusInv' /\ ReportInv'
  BY PollNext, RemoveNext, StatusNext, ReportNext
<1>4. Init => Inv
  BY <1>1, <1>2, TypesInit DEF Inv
<1>5. Inv /\ [Next]_vars => Inv'
  BY <1>3, TypesNext DEF Inv
<1> QED
  BY <1>4, <1>5, PTL DEF Spec

(* A scrape finds every reported node in one status, or in two during the  *)
(* node's own update, or in none while the node's own series are removed   *)
(* one by one, whatever polls failed and however often the cluster was     *)
(* deleted and added.                                                      *)
THEOREM StatusUnique == Spec => []OneStatus
<1>1. Inv => OneStatus
  BY StatusSuffices DEF Inv
<1> QED
  BY <1>1, Invariant, PTL

(* Except while DeleteMetrics runs, the size gauge and the last known      *)
(* topology agree, and every node of the topology is among the gauges.     *)
THEOREM TopologyCorrect == Spec => []TopologyReported
<1>1. Inv => TopologyReported
  BY DEF Inv, ReportInv
<1> QED
  BY <1>1, Invariant, PTL

(* After the deletion of a cluster, and until a late poll is handled, only *)
(* nodes that a poll had dropped from the topology are reported.           *)
THEOREM DeletionForgets == Spec => []DeletedIsForgotten
<1>1. ASSUME Inv, ~online, ~late, op.step # "remove"
      PROVE  Reported \subseteq dropped /\ size = None
  <2>1. op.step = "idle" /\ topology = None /\ TopologyReported
    BY <1>1 DEF Inv, ReportInv
  <2>2. Entries(topology) = {} /\ Entries(op.seen) = {}
    BY <1>1, <2>1, EntriesOf DEF Inv, PollInv
  <2> QED
    BY <1>1, <2>1, <2>2 DEF Inv, ReportInv, TopologyReported
<1>2. Inv => DeletedIsForgotten
  BY <1>1 DEF DeletedIsForgotten
<1> QED
  BY <1>2, Invariant, PTL
=============================================================================
