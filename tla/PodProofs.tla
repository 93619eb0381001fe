------------------------------ MODULE PodProofs -------------------------------
(***************************************************************************)
(* Theorems about the start of a pod: the seeds its node asks for (Seeds)  *)
(* and the configuration that is made before (Bootstrapper).               *)
(*                                                                         *)
(* Those about Seeds are for any racks and any numbers of replicas, edits, *)
(* failures and errors.  TypeOK is inductive together with Growing: the operator  *)
(* only ever brings about what users wrote before.  SeedIsMember follows   *)
(* from the first pod of every rack being the oldest (FirstInv), and       *)
(* OneRing from one pod at a time being started (RolloutInv), as long as   *)
(* the operator awaits each rack: a starting node finds the members that   *)
(* were there when it asked for its seeds.                                 *)
(***************************************************************************)
EXTENDS Seeds, JvmMemory, TLAPS

Within(s, t) == DOMAIN s \subseteq DOMAIN t /\ \A r \in DOMAIN s : s[r] <= t[r]

(* What is deployed was known, and what is known was written.  An operator *)
(* that starts again knows nothing at first.                               *)
Growing ==
    /\ Within(known, racks) /\ Within(sets, racks)
    /\ known # Nobody => Within(sets, known)

(* No pod has failed, and the operator has left no rack that was not ready. *)
Undisturbed == failures = 0 /\ ~unattended

(* Pod 0 of a rack came first, and has kept its data. *)
FirstInv ==
    failures = 0 \/ ~useEmptyDir =>
      \A p \in Pods : (pod[p] # "absent" \/ ring[p] # None) /\ p[2] > 0 => ring[<<p[1], 0>>] # None

(* While undisturbed, only the rack the operator waits for is not ready,   *)
(* and of that only the newest pod is starting.                            *)
RolloutInv ==
    Undisturbed =>
      /\ \A p \in Pods : ring[p] # None => pod[p] = "ready"
      /\ \A p \in PodsOf(sets) : p[1] # rolling => pod[p] = "ready"
      /\ \A p \in Pods : pod[p] = "starting" => \A i \in 0..p[2]-1 : pod[<<p[1], i>>] = "ready"

(* While undisturbed, a node that has its seeds can reach a member, if     *)
(* there is one, and all members are in one ring.                          *)
ReachInv ==
    Undisturbed =>
      /\ \A p \in Pods : seeds[p] # None /\ Members # {} => Reached(p) # {}
      /\ OneRing

Types == TypeOK /\ Growing
Inv == Types /\ FirstInv /\ RolloutInv /\ ReachInv

-----------------------------------------------------------------------------
(* Facts about specifications and pods. *)

(* Specifications are functions from some of the racks to replicas. *)
LEMMA SpecType ==
    ASSUME NEW s
    PROVE  /\ s \in Specs => /\ s = [r \in DOMAIN s |-> s[r]]
                             /\ DOMAIN s \subseteq RackNames /\ DOMAIN s # {}
                             /\ \A r \in DOMAIN s : s[r] \in Replicas /\ s[r] \in 1..MaxReplicas
           /\ /\ s = [r \in DOMAIN s |-> s[r]]
              /\ DOMAIN s \subseteq RackNames /\ DOMAIN s # {}
              /\ \A r \in DOMAIN s : s[r] \in Replicas
              => s \in Specs
  BY SeedsAssumption DEF Specs

(* The empty specification has no racks. *)
LEMMA NobodyType == DOMAIN Nobody = {}
  BY DEF Nobody

(* The two parts of a pod's name. *)
LEMMA PodParts ==
    ASSUME NEW p \in Pods
    PROVE  p[1] \in RackNames /\ p[2] \in 0..MaxReplicas-1 /\ p = <<p[1], p[2]>>
  BY DEF Pods

(* The pods of a larger specification include those of a smaller one. *)
LEMMA PodsWithin ==
    ASSUME NEW s \in Specs \cup {Nobody}, NEW t \in Specs \cup {Nobody}, Within(s, t)
    PROVE  PodsOf(s) \subseteq PodsOf(t)
<1>1. \A r \in DOMAIN s : r \in DOMAIN t /\ s[r] \in Int /\ t[r] \in Int /\ s[r] <= t[r]
  BY SpecType, NobodyType, SeedsAssumption DEF Within
<1>2. SUFFICES ASSUME NEW p \in Pods, p[1] \in DOMAIN s, p[2] < s[p[1]]
               PROVE  p[1] \in DOMAIN t /\ p[2] < t[p[1]]
  BY DEF PodsOf
<1>3. p[2] \in Int
  BY PodParts, SeedsAssumption
<1> QED
  BY <1>1, <1>2, <1>3

(* "At least one seed": pod 0 of every rack is a seed, and every seed is a *)
(* pod of the specification.                                               *)
LEMMA DesignatedPods ==
    ASSUME NEW s \in Specs
    PROVE  /\ Designated(s) \subseteq PodsOf(s)
           /\ \A r \in DOMAIN s : <<r, 0>> \in Designated(s)
<1>1. /\ DOMAIN s \subseteq RackNames
      /\ \A r \in DOMAIN s : s[r] \in 1..MaxReplicas
  BY SpecType
<1>2. \A n \in 1..MaxReplicas : MaxSeedsOfOneRack(n) \in 1..n
  BY SeedsAssumption DEF MaxSeedsOfOneRack, Larger, Smaller
<1>3. CASE Cardinality(DOMAIN s) > 1
  BY <1>1, <1>3, SeedsAssumption DEF Designated, PodsOf, Pods
<1>4. CASE ~(Cardinality(DOMAIN s) > 1)
  <2>1. Designated(s) = UNION {{r} \X (0..MaxSeedsOfOneRack(s[r])-1) : r \in DOMAIN s}
    BY <1>4 DEF Designated
  <2>2. \A r \in DOMAIN s : <<r, 0>> \in {r} \X (0..MaxSeedsOfOneRack(s[r])-1)
    BY <1>1, <1>2
  <2>3. ASSUME NEW r \in DOMAIN s, NEW i \in 0..MaxSeedsOfOneRack(s[r])-1
        PROVE  <<r, i>> \in PodsOf(s)
    <3>1. i \in 0..MaxReplicas-1 /\ i < s[r]
      BY <1>1, <1>2, SeedsAssumption
    <3> QED
      BY <1>1, <3>1 DEF PodsOf, Pods
  <2> QED
    BY <2>1, <2>2, <2>3
<1> QED
  BY <1>3, <1>4

(* The order of specifications is a preorder, with Nobody the least. *)
LEMMA WithinOrder ==
    ASSUME NEW s \in Specs \cup {Nobody}, NEW t \in Specs \cup {Nobody}, NEW u \in Specs \cup {Nobody}
    PROVE  /\ Within(s, s) /\ Within(Nobody, s)
           /\ Within(s, t) /\ Within(t, u) => Within(s, u)
<1>1. \A v \in {s, t, u} : \A r \in DOMAIN v : v[r] \in Int
  BY SpecType, NobodyType, SeedsAssumption
<1> QED
  BY <1>1, NobodyType DEF Within

-----------------------------------------------------------------------------
(* Types. *)

(* What users write, the operator brings about and is deployed only grows. *)
LEMMA GrowingInit == Init => Types
<1> SUFFICES ASSUME Init
             PROVE  Types
  OBVIOUS
<1>1. Growing
  BY WithinOrder DEF Init, Growing
<1>2. PodsOf(sets) \subseteq PodsOf(racks) /\ PodsOf(known) \subseteq PodsOf(racks)
  BY <1>1, PodsWithin DEF Init, Growing
<1>3. Designated(racks) \subseteq PodsOf(racks)
  BY DesignatedPods DEF Init
<1>4. todo \in [add : SUBSET DOMAIN known, update : SUBSET DOMAIN known]
  BY DEF Init, Nothing
<1>5. racks \in Specs /\ known = Nobody /\ sets = Nobody /\ rolling = None
  BY DEF Init
<1>6. /\ useEmptyDir \in BOOLEAN /\ service \in BOOLEAN /\ unattended \in BOOLEAN
      /\ edits = 0 /\ failures = 0 /\ errors = 0
  BY Zenon DEF Init
<1>7. /\ pod \in [Pods -> {"absent", "starting", "ready"}]
      /\ seeds \in [Pods -> (SUBSET Pods) \cup {None}]
      /\ ring \in [Pods -> Pods \cup {None}]
      /\ \A p \in Pods : pod[p] = "absent" /\ seeds[p] = None /\ ring[p] = None
  BY DEF Init
<1> QED
  BY <1>1, <1>2, <1>3, <1>4, <1>5, <1>6, <1>7, SeedsAssumption DEF Types, TypeOK

(* No step leaves the types, or deploys more than was written. *)
LEMMA GrowingNext == Types /\ [Next]_vars => Types'
<1> SUFFICES ASSUME Types, [Next]_vars
             PROVE  Types'
  OBVIOUS
<1> USE DEF Types
<1>specs. racks \in Specs /\ known \in Specs \cup {Nobody} /\ sets \in Specs \cup {Nobody}
  BY DEF TypeOK
<1>1. ASSUME NEW p \in Pods, GetSeeds(p)
      PROVE  Types'
  <2>1. seeds' \in [Pods -> (SUBSET Pods) \cup {None}]
    BY <1>1 DEF TypeOK, GetSeeds, Resolves
  <2> QED
    BY <1>1, <2>1 DEF TypeOK, Growing, GetSeeds, Within, PodsOf, operator
<1>2. ASSUME NEW p \in Pods, Start(p), ring' \in [Pods -> Pods \cup {None}], ring'[p] # None,
             \A q \in Pods \ {p} : ring'[q] = ring[q]
      PROVE  Types'
  <2>1. p \in PodsOf(sets)
    BY <1>2 DEF TypeOK, Start
  <2> QED
    BY <1>2, <2>1 DEF TypeOK, Growing, Start, Within, PodsOf, operator
<1>3. ASSUME NEW p \in Pods, Rejoin(p)
      PROVE  Types'
  BY <1>2, <1>3 DEF Rejoin, TypeOK
<1>4. ASSUME NEW p \in Pods, Found(p)
      PROVE  Types'
  BY <1>2, <1>4, SeedsAssumption DEF Found, TypeOK
<1>5. ASSUME NEW p \in Pods, Join(p)
      PROVE  Types'
  <2>1. PICK s \in Reached(p) : ring' = [ring EXCEPT ![p] = ring[s]]
    BY <1>5 DEF Join
  <2>2. s \in Pods /\ pod[s] = "ready" /\ ring[s] # None /\ ring[s] \in Pods
    BY <1>5, <2>1 DEF Join, Start, Reached, TypeOK
  <2> QED
    BY <1>2, <1>5, <2>1, <2>2 DEF Join, TypeOK
<1>6. ASSUME NEW p \in Pods, NoSeed(p)
      PROVE  Types'
  BY <1>6 DEF TypeOK, Growing, NoSeed, Within, PodsOf, operator
<1>7. CASE EditRacks
  <2>1. racks' \in Specs /\ Within(racks, racks')
    BY <1>7 DEF EditRacks, Within
  <2>2. Within(known, racks')
    BY <1>specs, <2>1, WithinOrder DEF Growing
  <2>3. PodsOf(known) \subseteq PodsOf(racks')
    BY <1>specs, <2>1, <2>2, PodsWithin
  <2>4. Designated(racks') \subseteq PodsOf(racks')
    BY <2>1, DesignatedPods
  <2>5. (edits \in 0..MaxEdits)'
    BY <1>7, SeedsAssumption DEF EditRacks, TypeOK
  <2> QED
    <3>1. UNCHANGED <<known, service, sets, todo, rolling, unattended, errors, useEmptyDir, pod, seeds, ring, failures>>
      BY <1>7 DEF EditRacks, operator
    <3>2. Within(sets, racks') /\ PodsOf(sets) \subseteq PodsOf(racks')
      BY <1>specs, <2>1, WithinOrder, PodsWithin DEF Growing
    <3> QED
      BY <2>1, <2>2, <2>3, <2>4, <2>5, <3>1, <3>2 DEF TypeOK, Growing, Within, PodsOf, Designated
<1>8. ASSUME known' = racks, todo' \in [add : SUBSET DOMAIN racks, update : SUBSET DOMAIN racks],
             service' \in BOOLEAN, rolling = None, UNCHANGED <<cluster, sets, rolling>>,
             unattended' \in BOOLEAN, errors' \in 0..MaxTroubles
      PROVE  Types'
  <2>1. Within(known', racks)
    BY <1>8, <1>specs, WithinOrder
  <2>2. PodsOf(known') = PodsOf(racks)
    BY <1>8 DEF PodsOf
  <2> QED
    BY <1>8, <2>1, <2>2 DEF TypeOK, Growing, Within, PodsOf, cluster, Designated
<1>9. CASE AddCluster \/ UpdateCluster
  <2>1. CASE AddCluster
    <3>1. rolling = None
      BY <2>1, NobodyType DEF AddCluster, TypeOK
    <3> QED
      BY <1>8, <2>1, <3>1 DEF AddCluster, TypeOK, Nothing
  <2>2. CASE UpdateCluster
    <3>1. rolling = None
      BY <2>2 DEF UpdateCluster, TypeOK, Nothing
    <3>2. DOMAIN known \subseteq DOMAIN racks
      BY DEF Growing, Within
    <3> QED
      BY <1>8, <2>2, <3>1, <3>2 DEF UpdateCluster, TypeOK
  <2> QED
    BY <1>9, <2>1, <2>2
<1>10. ASSUME NEW r \in todo.add \cup todo.update, Deploy(r)
       PROVE  Types'
  <2>1. /\ known # Nobody /\ known \in Specs /\ r \in DOMAIN known
        /\ sets' = [s \in DOMAIN sets \cup {r} |-> IF s = r THEN known[s] ELSE sets[s]]
    BY <1>10, <1>specs, NobodyType DEF Deploy, TypeOK
  <2>2. /\ \A s \in DOMAIN sets : s \in DOMAIN known /\ sets[s] <= known[s]
        /\ \A s \in DOMAIN sets : s \in RackNames /\ sets[s] \in Replicas /\ sets[s] \in 1..MaxReplicas
        /\ known[r] \in Replicas /\ known[r] \in 1..MaxReplicas
    BY <1>specs, <2>1, SpecType, NobodyType DEF Growing, Within
  <2>3. sets' \in Specs
    <3>1. DOMAIN sets' \subseteq RackNames /\ DOMAIN sets' # {} /\ \A s \in DOMAIN sets' : sets'[s] \in Replicas
      BY <2>1, <2>2, SpecType
    <3>2. sets' = [s \in DOMAIN sets' |-> sets'[s]]
      BY <2>1
    <3> QED
      BY <3>1, <3>2, SpecType
  <2>4. Within(sets, sets') /\ Within(sets', known)
    BY <2>1, <2>2, SeedsAssumption DEF Within
  <2>5. Within(sets', racks)
    BY <1>specs, <2>3, <2>4, WithinOrder DEF Growing
  <2>6. PodsOf(sets) \subseteq PodsOf(sets') /\ PodsOf(sets') \subseteq PodsOf(racks)
    BY <1>specs, <2>3, <2>4, <2>5, PodsWithin
  <2>7. rolling' \in (todo.add \cup todo.update) \cap DOMAIN sets'
    BY <1>10, <2>1 DEF Deploy
  <2>8. UNCHANGED <<cluster, known, service, todo, unattended, errors>>
    BY <1>10 DEF Deploy
  <2>9. PodsOf(sets)' = PodsOf(sets')
    BY DEF PodsOf
  <2> QED
    BY <2>3, <2>4, <2>5, <2>6, <2>7, <2>8, <2>9 DEF TypeOK, Growing, Within, PodsOf, Designated, cluster
<1>14. ASSUME rolling' = None, todo' \in [add : SUBSET DOMAIN known, update : SUBSET DOMAIN known],
              UNCHANGED <<cluster, known, service, sets>>,
              unattended' \in BOOLEAN, errors' \in 0..MaxTroubles
       PROVE  Types'
  BY <1>14 DEF TypeOK, Growing, Within, PodsOf, Designated, cluster
<1>15. CASE RolledOut
  BY <1>14, <1>15 DEF RolledOut, TypeOK
<1>16. ASSUME NEW r \in RackNames, PatchMissingRack(r)
       PROVE  Types'
  BY <1>14, <1>16 DEF PatchMissingRack, TypeOK, Nothing
<1>17. ASSUME Fails
       PROVE  rolling' = None /\ unattended' \in BOOLEAN /\ errors' \in 0..MaxTroubles
  BY <1>17, SeedsAssumption DEF Fails, TypeOK
<1>18. CASE WaitFails
  <2>1. todo' \in [add : SUBSET DOMAIN known, update : SUBSET DOMAIN known]
    BY <1>18 DEF WaitFails, TypeOK, Nothing
  <2> QED
    BY <1>14, <1>17, <1>18, <2>1 DEF WaitFails
<1>19. CASE CallFails
  <2>1. CASE UNCHANGED known
    BY <1>14, <1>17, <1>19, <2>1 DEF CallFails, Nothing
  <2>2. CASE known' = racks
    BY <1>8, <1>17, <1>19, <2>2 DEF CallFails, Nothing, TypeOK
  <2> QED
    BY <1>19, <2>1, <2>2 DEF CallFails
<1>20. CASE CrashRestart
  <2>1. known' = Nobody /\ todo' = Nothing /\ UNCHANGED <<cluster, service, sets>>
    BY <1>20 DEF CrashRestart
  <2>2. Within(known', racks) /\ PodsOf(known') \subseteq PodsOf(racks)
    BY <1>specs, <2>1, WithinOrder, PodsWithin
  <2> QED
    BY <1>17, <1>20, <2>1, <2>2 DEF CrashRestart, TypeOK, Growing, Within, PodsOf, Designated, cluster, Nothing
<1>11. ASSUME NEW p \in Pods, CreatePod(p)
       PROVE  Types'
  BY <1>11 DEF CreatePod, TypeOK, Growing, Within, PodsOf, operator
<1>12. ASSUME NEW p \in Pods, PodFails(p)
       PROVE  Types'
  <2>1. p \in PodsOf(sets)
    BY <1>12 DEF PodFails, TypeOK
  <2>2. /\ pod' \in [Pods -> {"absent", "starting", "ready"}]
        /\ \A q \in Pods \ {p} : pod'[q] = pod[q] /\ ring'[q] = ring[q]
        /\ ring' \in [Pods -> Pods \cup {None}]
        /\ pod'[p] # "ready"
    BY <1>12 DEF PodFails, TypeOK
  <2>3. (failures \in 0..MaxTroubles)'
    BY <1>12, SeedsAssumption DEF PodFails, TypeOK
  <2> QED
    BY <1>12, <2>1, <2>2, <2>3 DEF PodFails, TypeOK, Growing, Within, PodsOf, operator
<1>13. CASE UNCHANGED vars
  BY <1>13 DEF vars, operator,  TypeOK, Growing, Within, PodsOf
<1> QED
  BY <1>1, <1>3, <1>4, <1>5, <1>6, <1>7, <1>9, <1>10, <1>11, <1>12, <1>13, <1>15, <1>16, <1>18, <1>19, <1>20
     DEF Next, Node, Kubernetes, Operator, CreateRack, PatchRack

(* The state of nodes, racks and rollouts has its types; every seed is a   *)
(* pod that the resource asks for.                                         *)
THEOREM TypeCorrect == Spec => []TypeOK
<1>1. Spec => []Types
  BY GrowingInit, GrowingNext, PTL DEF Spec
<1> QED
  BY <1>1, PTL DEF Types

-----------------------------------------------------------------------------
(* What the operator does, and what goes wrong for it. *)
OperatorStep == Operator \/ WaitFails \/ CallFails \/ CrashRestart

(* The operator has no direct part in pods, their data and the resource. *)
LEMMA OperatorFrame == OperatorStep => UNCHANGED cluster
<1>1. AddCluster \/ UpdateCluster \/ RolledOut => UNCHANGED cluster
  BY DEF AddCluster, UpdateCluster, RolledOut
<1>2. \A r \in RackNames : CreateRack(r) \/ PatchRack(r) \/ PatchMissingRack(r) => UNCHANGED cluster
  BY DEF CreateRack, PatchRack, PatchMissingRack, Deploy
<1>3. WaitFails \/ CallFails \/ CrashRestart => UNCHANGED cluster
  BY DEF WaitFails, CallFails, CrashRestart
<1> QED
  BY <1>1, <1>2, <1>3 DEF OperatorStep, Operator

-----------------------------------------------------------------------------
(* A seed is a member. *)

(* Pods of a rack are created after its pod 0, which keeps its data. *)
LEMMA FirstNext == Types /\ FirstInv /\ [Next]_vars => FirstInv'
<1> SUFFICES ASSUME Types, FirstInv, [Next]_vars, (failures = 0 \/ ~useEmptyDir)',
                    NEW p \in Pods, (pod[p] # "absent" \/ ring[p] # None)', p[2] > 0
             PROVE  ring'[<<p[1], 0>>] # None
  BY DEF FirstInv
<1> DEFINE first == <<p[1], 0>>
<1>1. first \in Pods
  BY PodParts, SeedsAssumption DEF Pods
<1>2. /\ useEmptyDir' = useEmptyDir
      /\ failures = 0 \/ ~useEmptyDir
  <2>1. ASSUME NEW q \in Pods, PodFails(q)
        PROVE  useEmptyDir' = useEmptyDir /\ failures' # 0
    BY <2>1, SeedsAssumption DEF PodFails, Types, TypeOK
  <2>2. (\E q \in Pods : PodFails(q)) \/ UNCHANGED <<useEmptyDir, failures>>
    BY OperatorFrame DEF Next, Node, Kubernetes, OperatorStep, GetSeeds, Rejoin, Found, Join, Start, NoSeed,
           EditRacks, cluster, operator, CreatePod, vars
  <2> QED
    BY <2>1, <2>2
<1>3. \A q \in Pods : ring[q] # None => ring'[q] # None
  <2>1. ASSUME NEW q \in Pods, Join(q) \/ Found(q)
        PROVE  ring[q] = None /\ \A o \in Pods \ {q} : ring'[o] = ring[o]
    BY <2>1 DEF Join, Found, Types, TypeOK
  <2>2. ASSUME NEW q \in Pods, PodFails(q)
        PROVE  ring' = ring
    BY <1>2, <2>2, SeedsAssumption DEF PodFails, Types, TypeOK
  <2>3. (\E q \in Pods : PodFails(q) \/ Join(q) \/ Found(q)) \/ UNCHANGED ring
    BY OperatorFrame DEF Next, Node, Kubernetes, OperatorStep, GetSeeds, Rejoin, NoSeed, EditRacks, cluster, operator, CreatePod, vars
  <2> QED
    BY <2>1, <2>2, <2>3
<1>4. CASE pod[p] # "absent" \/ ring[p] # None
  BY <1>1, <1>2, <1>3, <1>4 DEF FirstInv
<1>5. CASE pod[p] = "absent" /\ ring[p] = None
  <2>1. CreatePod(p)
    BY <1>5, OperatorFrame DEF Types, TypeOK, Next, Node, Kubernetes, OperatorStep, GetSeeds, Rejoin, Found, Join, Start, NoSeed,
           EditRacks, cluster, operator, CreatePod, PodFails, vars
  <2>2. 0 \in 0..p[2]-1
    BY PodParts, SeedsAssumption
  <2>3. pod[first] = "ready"
    BY <2>1, <2>2 DEF CreatePod
  <2> QED
    BY <1>1, <1>3, <2>3 DEF Types, TypeOK
<1> QED
  BY <1>4, <1>5

(* If there is a member, the first pod of its rack is one. *)
LEMMA FirstIsMember ==
    ASSUME Types, FirstInv, failures = 0 \/ ~useEmptyDir, Members # {}
    PROVE  Designated(racks) \cap Members # {}
<1>1. PICK p \in Pods : ring[p] # None
  BY DEF Members
<1>2. p \in PodsOf(racks)
  BY <1>1 DEF Types, TypeOK
<1>3. p[1] \in DOMAIN racks /\ <<p[1], 0>> \in Designated(racks)
  BY <1>2, DesignatedPods DEF Types, TypeOK, PodsOf
<1>4. ring[<<p[1], 0>>] # None
  <2>1. p[2] \in Nat /\ p = <<p[1], p[2]>>
    BY PodParts, SeedsAssumption
  <2>2. CASE p[2] = 0
    BY <1>1, <2>1, <2>2
  <2>3. CASE p[2] > 0
    BY <1>1, <2>3 DEF FirstInv
  <2> QED
    BY <2>1, <2>2, <2>3
<1>5. <<p[1], 0>> \in Pods
  BY PodParts, SeedsAssumption DEF Pods
<1> QED
  BY <1>3, <1>4, <1>5 DEF Members

(* However the racks are edited while the cluster grows, the seeds that    *)
(* getSeeds works out include a member, if members keep their data.        *)
THEOREM SeedsAreMembers == Spec => []SeedIsMember
<1>1. Init => FirstInv
  BY DEF Init, FirstInv
<1>2. Types /\ FirstInv => SeedIsMember
  BY FirstIsMember DEF SeedIsMember
<1> QED
  BY <1>1, <1>2, GrowingInit, GrowingNext, FirstNext, PTL DEF Spec

-----------------------------------------------------------------------------
(* One ring. *)

(* While undisturbed, at most one node is starting. *)
LEMMA OneStarting ==
    ASSUME Types, RolloutInv, Undisturbed,
           NEW p \in Pods, NEW q \in Pods, pod[p] = "starting", pod[q] = "starting"
    PROVE  p = q
<1>1. ASSUME NEW o \in Pods, pod[o] = "starting"
      PROVE  /\ o[1] = rolling /\ o[2] \in Nat /\ o = <<o[1], o[2]>>
             /\ \A i \in 0..o[2]-1 : pod[<<rolling, i>>] = "ready"
  <2>1. o \in PodsOf(sets)
    BY <1>1 DEF Types, TypeOK
  <2>2. o[1] = rolling
    BY <1>1, <2>1 DEF RolloutInv
  <2> QED
    BY <1>1, <2>2, PodParts, SeedsAssumption DEF RolloutInv
<1>2. ~(p[2] < q[2]) /\ ~(q[2] < p[2])
  <2>1. ASSUME p[2] < q[2]
        PROVE  FALSE
    <3>1. p[2] \in 0..q[2]-1
      BY <1>1, <2>1
    <3>2. pod[<<rolling, p[2]>>] = "ready"
      BY <1>1, <3>1
    <3> QED
      BY <1>1, <3>2
  <2>2. ASSUME q[2] < p[2]
        PROVE  FALSE
    <3>1. q[2] \in 0..p[2]-1
      BY <1>1, <2>2
    <3>2. pod[<<rolling, q[2]>>] = "ready"
      BY <1>1, <3>1
    <3> QED
      BY <1>1, <3>2
  <2> QED
    BY <2>1, <2>2
<1> QED
  BY <1>1, <1>2

(* No step undoes a failure, or that a rack was left. *)
LEMMA DisturbedForGood ==
    ASSUME Types, [Next]_vars, Undisturbed'
    PROVE  Undisturbed /\ \A p \in Pods : ~PodFails(p)
<1>1. \A p \in Pods : ~PodFails(p)
  BY SeedsAssumption DEF PodFails, Types, TypeOK, Undisturbed
<1>2. CASE UNCHANGED <<failures, unattended>>
  BY <1>1, <1>2 DEF Undisturbed
<1>3. CASE OperatorStep
  <2>1. failures' = failures
    BY <1>3, OperatorFrame DEF cluster
  <2>2. CASE Fails
    BY <1>1, <2>1, <2>2 DEF Fails, Undisturbed, Types, TypeOK
  <2>3. CASE Operator
    <3>1. unattended' = unattended
      BY <2>3 DEF Operator, AddCluster, UpdateCluster, CreateRack, PatchRack, Deploy, PatchMissingRack, RolledOut
    <3> QED
      BY <1>1, <2>1, <3>1 DEF Undisturbed
  <2> QED
    BY <1>3, <2>2, <2>3 DEF OperatorStep, WaitFails, CallFails, CrashRestart
<1> QED
  BY <1>1, <1>2, <1>3 DEF Next, Node, Kubernetes, OperatorStep, GetSeeds, Rejoin, Found, Join, Start, NoSeed,
         EditRacks, operator, CreatePod, vars

(* The operator turns to a rack when all others are ready, and a rack's    *)
(* next pod is created when the last one is.                               *)
LEMMA RolloutNext == Types /\ RolloutInv /\ [Next]_vars => RolloutInv'
<1> SUFFICES ASSUME Types, RolloutInv, [Next]_vars, Undisturbed'
             PROVE  RolloutInv'
  BY DEF RolloutInv
<1>0. Undisturbed /\ \A p \in Pods : ~PodFails(p)
  BY DisturbedForGood
<1>1. ASSUME NEW p \in Pods, Start(p), \A q \in Pods \ {p} : ring'[q] = ring[q]
      PROVE  RolloutInv'
  BY <1>0, <1>1 DEF Start, RolloutInv, Types, TypeOK, PodsOf, operator
<1>2. ASSUME NEW p \in Pods, Rejoin(p) \/ Found(p) \/ Join(p)
      PROVE  RolloutInv'
  BY <1>1, <1>2 DEF Rejoin, Found, Join, Types, TypeOK
<1>3. ASSUME NEW p \in Pods, CreatePod(p)
      PROVE  RolloutInv'
  BY <1>0, <1>3 DEF CreatePod, RolloutInv, Types, TypeOK, PodsOf, operator
<1>4. ASSUME NEW r \in RackNames, Deploy(r)
      PROVE  RolloutInv'
  <2>1. \A p \in PodsOf(sets) : pod[p] = "ready"
    <3>1. \A p \in PodsOf(sets) : p[1] # rolling
      BY <1>4, PodParts, SeedsAssumption DEF Deploy, PodsOf
    <3> QED
      BY <1>0, <3>1 DEF RolloutInv
  <2>2. \A p \in Pods : p \in PodsOf(sets) \/ p \notin PodsOf(sets') \/ p[1] = r
    BY <1>4 DEF Deploy, PodsOf
  <2>3. PodsOf(sets)' = PodsOf(sets') /\ PodsOf(sets') \subseteq Pods
    BY DEF PodsOf
  <2> QED
    BY <1>0, <1>4, <2>1, <2>2, <2>3 DEF Deploy, RolloutInv, cluster
<1>5. ASSUME rolling # None => Ready(rolling), rolling' = None, UNCHANGED <<cluster, sets>>
      PROVE  RolloutInv'
  <2>1. \A p \in PodsOf(sets) : pod[p] = "ready"
    <3>1. \A p \in PodsOf(sets) : p[1] # None
      BY PodParts, SeedsAssumption DEF PodsOf
    <3> QED
      BY <1>0, <1>5, <3>1 DEF Ready, RolloutInv
  <2> QED
    BY <1>0, <1>5, <2>1 DEF RolloutInv, PodsOf, cluster
<1>6. CASE RolledOut
  BY <1>5, <1>6 DEF RolledOut
<1>7. CASE WaitFails \/ CallFails \/ CrashRestart
  <2>1. rolling # None => Ready(rolling)
    BY <1>7 DEF WaitFails, CallFails, CrashRestart, Fails, Undisturbed
  <2>2. rolling' = None /\ UNCHANGED <<cluster, sets>>
    BY <1>7 DEF WaitFails, CallFails, CrashRestart, Fails
  <2> QED
    BY <1>5, <2>1, <2>2
<1>8. CASE UNCHANGED <<pod, ring, sets, rolling>>
  BY <1>0, <1>8 DEF RolloutInv, PodsOf
<1>9. CASE AddCluster \/ UpdateCluster \/ \E r \in RackNames : PatchMissingRack(r)
  BY <1>8, <1>9 DEF AddCluster, UpdateCluster, PatchMissingRack, cluster
<1> QED
  BY <1>0, <1>2, <1>3, <1>4, <1>6, <1>7, <1>8, <1>9 DEF Next, Node, Kubernetes, Operator, GetSeeds, NoSeed, EditRacks,
         CreateRack, PatchRack, operator, vars

(* A node that starts ends the only start: nobody else holds seeds.        *)
LEMMA ReachNext == Types /\ FirstInv /\ RolloutInv /\ ReachInv /\ [Next]_vars => ReachInv'
<1> SUFFICES ASSUME Types, FirstInv, RolloutInv, ReachInv, [Next]_vars, Undisturbed'
             PROVE  ReachInv'
  BY DEF ReachInv
<1>0. Undisturbed /\ \A p \in Pods : ~PodFails(p)
  BY DisturbedForGood
<1>1. ASSUME NEW p \in Pods, GetSeeds(p)
      PROVE  ReachInv'
  <2>1. ASSUME Members # {}
        PROVE  \E s \in seeds'[p] \ {p} : pod[s] = "ready"
    <3>1. PICK s \in Designated(racks) : s \in Pods /\ ring[s] # None
      BY <1>0, <2>1, FirstIsMember DEF Members, Undisturbed
    <3>2. pod[s] = "ready" /\ s # p
      BY <1>0, <1>1, <3>1 DEF RolloutInv, GetSeeds
    <3> QED
      BY <1>1, <3>1, <3>2 DEF GetSeeds, Resolves, Types, TypeOK
  <2>2. \A q \in Pods \ {p} : seeds'[q] = seeds[q]
    BY <1>1 DEF GetSeeds, Types, TypeOK
  <2> QED
    BY <1>0, <1>1, <2>1, <2>2 DEF GetSeeds, ReachInv, Members, Reached, OneRing, Undisturbed
<1>2. ASSUME NEW p \in Pods, Start(p),
             \A q, o \in Members' : ring'[q] = ring'[o]
      PROVE  ReachInv'
  <2>1. \A q \in Pods : seeds'[q] = None
    BY <1>0, <1>2, OneStarting DEF Start, Types, TypeOK
  <2> QED
    BY <1>2, <2>1 DEF ReachInv, OneRing
<1>3. ASSUME NEW p \in Pods, Rejoin(p)
      PROVE  ReachInv'
  BY <1>0, <1>2, <1>3 DEF Rejoin, ReachInv, OneRing, Undisturbed, Members
<1>4. ASSUME NEW p \in Pods, Found(p)
      PROVE  ReachInv'
  <2>1. Members = {}
    BY <1>0, <1>4 DEF Found, Start, ReachInv
  <2>2. Members' \subseteq {p}
    BY <1>4, <2>1 DEF Found, Members, Types, TypeOK
  <2> QED
    BY <1>2, <1>4, <2>2 DEF Found
<1>5. ASSUME NEW p \in Pods, Join(p)
      PROVE  ReachInv'
  <2>1. PICK s \in Reached(p) : ring' = [ring EXCEPT ![p] = ring[s]]
    BY <1>5 DEF Join
  <2>2. s \in Pods /\ ring[s] # None /\ ring[p] = None
    BY <1>5, <2>1 DEF Join, Start, Reached, Types, TypeOK
  <2>3. \A q \in Pods : ring[q] # None => ring[q] = ring[s]
    BY <1>0, <2>2 DEF ReachInv, OneRing, Undisturbed, Members
  <2>4. \A q \in Pods : ring'[q] # None => ring'[q] = ring[s]
    BY <2>1, <2>2, <2>3 DEF Types, TypeOK
  <2> QED
    BY <1>2, <1>5, <2>4 DEF Join, Members
<1>6. ASSUME NEW p \in Pods, NoSeed(p)
      PROVE  ReachInv'
  BY <1>0, <1>6 DEF NoSeed, ReachInv, OneRing, Members, Reached, Types, TypeOK
<1>7. ASSUME NEW p \in Pods, CreatePod(p)
      PROVE  ReachInv'
  <2>1. \A q \in Pods : Reached(q)' = Reached(q)
    BY <1>7 DEF CreatePod, Reached, Types, TypeOK
  <2> QED
    BY <1>0, <1>7, <2>1 DEF CreatePod, ReachInv, OneRing, Undisturbed, Members
<1>8. CASE UNCHANGED <<pod, seeds, ring>>
  BY <1>0, <1>8 DEF ReachInv, OneRing, Undisturbed, Members, Reached
<1> QED
  BY <1>0, <1>1, <1>3, <1>4, <1>5, <1>6, <1>7, <1>8, OperatorFrame
     DEF Next, Node, Kubernetes, OperatorStep, EditRacks, cluster, operator, vars

(* As long as no pod fails, and the operator goes on to no rack while one  *)
(* that it has changed is not ready, all nodes are in one ring, whatever   *)
(* racks are added and scaled and whatever other calls fail: no node takes *)
(* itself for the first.                                                   *)
THEOREM NodesInOneRing == Spec => []OneRing
<1>1. Init => FirstInv /\ RolloutInv /\ ReachInv
  BY NobodyType DEF Init, FirstInv, RolloutInv, ReachInv, OneRing, Members, Reached, PodsOf
<1>2. ReachInv => OneRing
  BY DEF ReachInv, OneRing, Undisturbed
<1> QED
  BY <1>1, <1>2, GrowingInit, GrowingNext, FirstNext, RolloutNext, ReachNext, PTL DEF Spec
-----------------------------------------------------------------------------
(* The Bootstrapper, which runs in the pod before Cassandra asks for its   *)
(* seeds.                                                                  *)
CONSTANTS Image, Defaults, ConfigMaps, PodSizes, Setting, MaxConfigEdits, MaxKills
VARIABLES step, conf, configMap, copied, tainted, configEdits, kills

B == INSTANCE Bootstrapper WITH edits <- configEdits, MaxEdits <- MaxConfigEdits

(* Half of the memory holds the heap, and the heap the young generation.   *)
(* An eighth of the memory, counted in whole MiB, may be 0; the 1 MiB that *)
(* then takes its place needs a pod of at least 2 MiB.                     *)
LEMMA SizesFit ==
    ASSUME NEW cpu \in Nat, NEW memory \in Nat, memory >= 2 * MiB
    PROVE  LET heap == Larger(1, memory \div 2)
               young == Larger(Smaller(Larger(cpu \div 10, 100), (memory \div MiB) \div 8), 1)
           IN young * MiB <= heap /\ heap * 2 <= memory
<1> DEFINE heap == memory \div 2
           eighth == (memory \div MiB) \div 8
           young == Larger(Smaller(Larger(cpu \div 10, 100), eighth), 1)
<1>1. heap \in Nat /\ heap >= MiB /\ heap * 2 <= memory
  BY DEF MiB
<1>2. eighth \in Nat /\ eighth * MiB <= heap
  BY DEF MiB
<1>3. young = 1 \/ (young \in Nat /\ young <= eighth)
  <2>1. cpu \div 10 \in Nat
    OBVIOUS
  <2> HIDE DEF eighth
  <2> QED
    BY <1>2, <2>1 DEF Larger, Smaller
<1>4. young * MiB <= heap
  <2> HIDE DEF heap, eighth, young
  <2> QED
    BY <1>1, <1>2, <1>3 DEF MiB
<1>5. Larger(1, heap) = heap
  <2> HIDE DEF heap
  <2> QED
    BY <1>1 DEF Larger, MiB
<1> QED
  BY <1>1, <1>4, <1>5

(* The size of the pod is fixed when the pod is made. *)
LEMMA PodIsKept == podSize \in PodSizes /\ [B!Next]_B!vars => (podSize \in PodSizes)'
  BY DEF B!Next, B!Container, B!InitConfig, B!CopyDefaults, B!CopyCustom, B!RewriteCassandraYaml, B!AddJavaAgent,
         B!AgentConflicts, B!JvmMemoryDefaults, B!WriteRackDC, B!KilledBetweenWrites, B!KilledInWrite, B!NodeReboots,
         B!EditConfigMap, B!At, B!RestartBootstrapper, B!vars

(* In every pod with the memory for it, the young generation that the      *)
(* bootstrapper writes to jvm.options fits into the heap it writes there,  *)
(* and the heap into half of the pod.                                      *)
THEOREM HeapFits ==
    ASSUME \A s \in PodSizes : s.cpu \in Nat /\ s.memory \in Nat
    PROVE  B!Spec => []YoungFitsHeap
<1>1. B!Init => podSize \in PodSizes
  BY DEF B!Init
<1>2. podSize \in PodSizes => YoungFitsHeap
  <2> SUFFICES ASSUME podSize \in PodSizes
               PROVE  YoungFitsHeap
    OBVIOUS
  <2>1. podSize.cpu \in Nat /\ podSize.memory \in Nat
    OBVIOUS
  <2> QED
    BY <2>1, SizesFit DEF YoungFitsHeap, YoungSize, HeapSize
<1> QED
  BY <1>1, <1>2, PodIsKept, PTL DEF B!Spec
=============================================================================
