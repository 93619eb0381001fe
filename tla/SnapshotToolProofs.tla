--------------------------- MODULE SnapshotToolProofs ---------------------------
(***************************************************************************)
(* Theorems about SnapshotTool, for any pods, keyspaces, retention period  *)
(* and any numbers of runs and failures.                                   *)
(***************************************************************************)
EXTENDS SnapshotTool, TLAPS

Snapshots == [name : Names, keyspace : AllKeyspaces, late : Names]
Left(run) == {run.pods[i] : i \in DOMAIN run.pods}
Holds(stored, name, k) == \E s \in stored : s.name = name /\ s.keyspace = k
Deletion(p, s) == [tag |-> [name |-> s.name, keyspace |-> s.keyspace], pod |-> p]

(* The types are inductive with this: a snapshot is named after a time, a  *)
(* run begins with nothing.                                                *)
Types ==
    /\ TypeOK
    /\ create.phase = "pods" => create.name \in 0..MaxTime
    /\ \A run \in {create, cleanup} :
         run.phase \in {"off", "start"} =>
           run.name = Foreign /\ run.pods = <<>> /\ run.failed = {} /\ run.todo = {}

(* Whatever is going to be removed is outside of the retention period: by  *)
(* the clean-up that runs, or by a command that nobody waits for.          *)
ClearInv ==
    /\ cleanup.phase \in {"pods", "delete"} => cleanup.name <= now - RetentionPeriod
    /\ cleanup.phase # "delete" => cleanup.todo = {}
    /\ \A d \in cleanup.todo : d.tag.name < cleanup.name
    /\ \A c \in pending : c.verb = "clear" => c.name < now - RetentionPeriod

(* The pods that a creation is done with have their snapshot, while the    *)
(* retention period lasts.                                                 *)
CreateInv ==
    create.phase = "pods" /\ create.name >= now - RetentionPeriod =>
      \A p \in Pods \ (create.failed \cup Left(create)), k \in Wanted : Holds(snaps[p], create.name, k)

(* What is left, on a pod that a clean-up is done with, from before its    *)
(* cutoff came there later, or is about to be removed.                     *)
CleanupInv ==
    cleanup.phase \in {"pods", "delete"} =>
      \A p \in Pods \ (cleanup.failed \cup Left(cleanup)) : \A s \in snaps[p] :
        s.name # Foreign /\ s.name < cleanup.name =>
          s.late >= cleanup.name \/ Deletion(p, s) \in cleanup.todo

-----------------------------------------------------------------------------
(* What a command changes. *)

Cutoff == Max({cleaned, cleanup.name})

(* The later of two cutoffs. *)
LEMMA MaxOfTwo ==
    ASSUME NEW a \in Int, NEW b \in Int
    PROVE  Max({a, b}) \in {a, b} /\ Max({a, b}) >= a /\ Max({a, b}) >= b
<1> DEFINE P(x) == \A y \in {a, b} : x >= y
<1>1. \E x \in {a, b} : P(x)
  OBVIOUS
<1>2. Max({a, b}) \in {a, b} /\ P(Max({a, b}))
  BY <1>1 DEF Max
<1> QED
  BY <1>2

(* The types of times and names. *)
LEMMA Times ==
    ASSUME TypeOK
    PROVE  /\ now \in Int /\ RetentionPeriod \in Nat /\ MaxTime \in Nat
           /\ create.name \in Int /\ cleanup.name \in Int /\ cleaned \in Int
           /\ Cutoff \in Int /\ Cutoff >= cleaned /\ Cutoff >= cleanup.name
           /\ Cutoff <= MaxTime
<1>1. /\ now \in Int /\ RetentionPeriod \in Nat /\ MaxTime \in Nat
      /\ create.name \in Int /\ cleanup.name \in Int /\ cleaned \in Int
      /\ cleanup.name <= MaxTime /\ cleaned <= MaxTime
  BY SnapshotToolAssumption DEF TypeOK, Run, Names, Foreign
<1> QED
  BY <1>1, MaxOfTwo DEF Cutoff

(* A command changes one pod; a snapshot command adds what is missing, a   *)
(* clear command removes what it names, and nothing else.                  *)
LEMMA EffectOf ==
    ASSUME TypeOK, NEW verb \in {"snapshot", "clear"}, NEW p \in Pods,
           NEW name \in 0..MaxTime, NEW keyspaces \in SUBSET AllKeyspaces,
           NEW after, after = Effect(verb, p, name, keyspaces)
    PROVE  /\ after \in [Pods -> SUBSET Snapshots]
           /\ \A q \in Pods : q # p => after[q] = snaps[q]
           /\ verb = "snapshot" =>
                /\ snaps[p] \subseteq after[p]
                /\ \A s \in after[p] \ snaps[p] : s.name < Cutoff => s.late >= Cutoff
                /\ \A k \in keyspaces : \E s \in after[p] : s.name = name /\ s.keyspace = k
           /\ verb = "clear" =>
                /\ after[p] \subseteq snaps[p]
                /\ \A s \in snaps[p] \ after[p] : s.name = name /\ s.keyspace \in keyspaces
                /\ \A s \in after[p] : s.name # name \/ s.keyspace \notin keyspaces
<1>1. snaps \in [Pods -> SUBSET Snapshots]
  BY DEF TypeOK, Snapshots
<1>2. \A k \in AllKeyspaces : /\ Snapshot(name, k) \in Snapshots
                              /\ Snapshot(name, k).name = name /\ Snapshot(name, k).keyspace = k
                              /\ name < Cutoff => Snapshot(name, k).late = Cutoff
  BY Times DEF Snapshot, Snapshots, Names, Foreign, Cutoff
<1>3. CASE verb = "clear"
  <2>1. after = [snaps EXCEPT ![p] = {s \in @ : s.name # name \/ s.keyspace \notin keyspaces}]
    BY <1>3 DEF Effect
  <2> QED
    BY <1>1, <1>3, <2>1
<1>4. CASE verb = "snapshot"
  <2> DEFINE new == {Snapshot(name, k) : k \in {j \in keyspaces : ~Has(p, name, j)}}
  <2>1. after = [snaps EXCEPT ![p] = @ \cup new]
    BY <1>4 DEF Effect
  <2>2. new \subseteq Snapshots /\ \A s \in new : s.name = name /\ (name < Cutoff => s.late >= Cutoff)
    BY <1>2, Times
  <2>3. ASSUME NEW k \in keyspaces
        PROVE  \E s \in snaps[p] \cup new : s.name = name /\ s.keyspace = k
    <3>1. CASE Has(p, name, k)
      <4>1. PICK s \in snaps[p] : [name |-> name, keyspace |-> k] = [name |-> s.name, keyspace |-> s.keyspace]
        BY <3>1 DEF Has, Tags
      <4>2. s.name = name /\ s.keyspace = k
        BY <4>1
      <4> QED
        BY <4>2
    <3>2. CASE ~Has(p, name, k)
      <4>1. Snapshot(name, k) \in new
        BY <3>2
      <4> QED
        BY <1>2, <4>1
    <3> QED
      BY <3>1, <3>2
  <2> HIDE DEF new
  <2>4. after[p] = snaps[p] \cup new /\ \A q \in Pods : q # p => after[q] = snaps[q]
    BY <1>1, <2>1
  <2>5. after \in [Pods -> SUBSET Snapshots]
    BY <1>1, <2>1, <2>2
  <2> QED
    BY <1>4, <2>2, <2>3, <2>4, <2>5
<1> QED
  BY <1>3, <1>4

Budgets == [creations : 0..MaxCreations, cleanups : 0..MaxCleanups, errors : 0..MaxErrors]

(* What is spent was there. *)
LEMMA SpendType ==
    ASSUME TypeOK, NEW what \in {"creations", "cleanups", "errors"}, Spend(what)
    PROVE  budget' \in Budgets
  BY SnapshotToolAssumption DEF TypeOK, Spend, Budgets

(* A command, whether reported as done or not, has some part of its effect *)
(* now, and another part is left to be done later, or never.               *)
LEMMA CommandStep ==
    ASSUME TypeOK, NEW verb \in {"snapshot", "clear"}, NEW p \in Pods,
           NEW name \in 0..MaxTime, NEW keyspaces \in SUBSET AllKeyspaces,
           Succeeds(verb, p, name, keyspaces) \/ Fails(verb, p, name, keyspaces)
    PROVE  /\ \E done \in SUBSET keyspaces : snaps' = Effect(verb, p, name, done)
           /\ pending' \subseteq pending \cup Command(verb, p, name, keyspaces)
           /\ budget' \in Budgets
<1>0. budget \in Budgets
  BY DEF TypeOK, Budgets
<1>1. CASE Succeeds(verb, p, name, keyspaces)
  BY <1>0, <1>1 DEF Succeeds
<1>2. CASE Fails(verb, p, name, keyspaces)
  <2>1. CASE Refused(verb, p, name, keyspaces)
    <3>1. snaps' = snaps /\ pending' = pending /\ budget' = budget
      BY <1>2, <2>1 DEF Fails
    <3>2. verb # "clear" /\ snaps = [q \in Pods |-> snaps[q]]
      BY <2>1 DEF Refused, TypeOK
    <3>3. Effect(verb, p, name, {}) = snaps
      BY <3>2 DEF Effect
    <3> QED
      BY <1>0, <3>1, <3>3
  <2>2. CASE ~Refused(verb, p, name, keyspaces)
    <3>1. budget' \in Budgets
      BY <1>2, <2>2, SpendType DEF Fails
    <3>2. PICK done \in SUBSET keyspaces : \E later \in SUBSET (keyspaces \ done) :
              /\ snaps' = Effect(verb, p, name, done)
              /\ pending' = pending \cup Command(verb, p, name, later)
      BY <1>2, <2>2 DEF Fails
    <3>3. \A later \in SUBSET keyspaces : Command(verb, p, name, later) \subseteq Command(verb, p, name, keyspaces)
      BY DEF Command
    <3> QED
      BY <3>1, <3>2, <3>3
  <2> QED
    BY <2>1, <2>2
<1> QED
  BY <1>1, <1>2

(* A step adds no snapshot from before the latest cutoff without a note    *)
(* that it came late, and removes only what is out of retention.           *)
Changes ==
    /\ snaps' \in [Pods -> SUBSET Snapshots]
    /\ \A p \in Pods : \A s \in snaps'[p] \ snaps[p] : s.name < Cutoff => s.late >= Cutoff
    /\ \A p \in Pods : \A s \in snaps[p] \ snaps'[p] : s.name # Foreign /\ s.name < now - RetentionPeriod

(* So does the effect of a command. *)
LEMMA EffectChanges ==
    ASSUME TypeOK, NEW verb \in {"snapshot", "clear"}, NEW p \in Pods,
           NEW name \in 0..MaxTime, NEW keyspaces \in SUBSET AllKeyspaces,
           verb = "clear" => name < now - RetentionPeriod,
           snaps' = Effect(verb, p, name, keyspaces)
    PROVE  Changes
<1>1. /\ snaps' \in [Pods -> SUBSET Snapshots]
      /\ \A q \in Pods : q # p => snaps'[q] = snaps[q]
      /\ verb = "snapshot" =>
                /\ snaps[p] \subseteq snaps'[p]
                /\ \A s \in snaps'[p] \ snaps[p] : s.name < Cutoff => s.late >= Cutoff
      /\ verb = "clear" =>
                /\ snaps'[p] \subseteq snaps[p]
                /\ \A s \in snaps[p] \ snaps'[p] : s.name = name
  BY EffectOf
<1>2. name # Foreign
  BY SnapshotToolAssumption DEF Foreign
<1> QED
  BY <1>1, <1>2 DEF Changes

(* What the commands of the tool are given. *)
LEMMA CommandTypes ==
    ASSUME Types
    PROVE  /\ Wanted \in SUBSET AllKeyspaces
           /\ create.phase = "pods" => create.name \in 0..MaxTime
           /\ \A d \in cleanup.todo : d.pod \in Pods /\ d.tag.name \in 0..MaxTime
                                      /\ {d.tag.keyspace} \in SUBSET AllKeyspaces
           /\ \A c \in pending : c.verb \in {"snapshot", "clear"} /\ c.pod \in Pods
                                 /\ c.name \in 0..MaxTime /\ {c.keyspace} \in SUBSET AllKeyspaces
  BY SnapshotToolAssumption DEF Types, TypeOK, Run, Wanted

-----------------------------------------------------------------------------
(* Types. *)

(* In the beginning nothing runs, and no pod has a snapshot of the tool.   *)
LEMMA TypesInit == Init => Types
<1> SUFFICES ASSUME Init
             PROVE  Types
  OBVIOUS
<1>1. NotRunning \in Run({"off"})
  BY DEF NotRunning, Fresh, Run, Names, Foreign
<1>2. snaps \in [Pods -> SUBSET Snapshots]
  BY DEF Init, Snapshots, Names
<1>3. 0 \in 0..MaxTime /\ Foreign \in Names
  BY SnapshotToolAssumption DEF Names
<1>4. budget \in Budgets
  BY SnapshotToolAssumption DEF Init, Budgets
<1>5. create \in Run({"off", "start", "pods"}) /\ cleanup \in Run({"off", "start", "pods", "delete"})
  BY <1>1 DEF Init, Run
<1>6. \A run \in {create, cleanup} : /\ run.phase = "off" /\ run.name = Foreign /\ run.pods = <<>>
                                     /\ run.failed = {} /\ run.todo = {}
  BY DEF Init, NotRunning, Fresh
<1> QED
  BY <1>2, <1>3, <1>4, <1>5, <1>6 DEF Init, Types, TypeOK, Snapshots, Budgets

RunType(run, phases) ==
    /\ run \in Run(phases)
    /\ run.phase \in {"off", "start"} =>
         run.name = Foreign /\ run.pods = <<>> /\ run.failed = {} /\ run.todo = {}

(* A run that begins, or begins again, or has ended. *)
LEMMA FreshRun ==
    ASSUME NEW phases, NEW phase \in phases \cap {"off", "start"},
           NEW run, run = Fresh(phase)
    PROVE  RunType(run, phases) /\ run.phase = phase /\ run.todo = {}
  BY DEF RunType, Run, Fresh, Names, Foreign

(* The pods of a run that are left. *)
LEMMA PodsLeft ==
    ASSUME NEW run, NEW phases, run \in Run(phases), run.pods # <<>>
    PROVE  /\ Head(run.pods) \in Pods /\ Tail(run.pods) \in Seq(Pods)
           /\ {run.pods[i] : i \in DOMAIN run.pods} \subseteq
                {Head(run.pods)} \cup {Tail(run.pods)[i] : i \in DOMAIN Tail(run.pods)}
<1>1. run.pods \in Seq(Pods)
  BY DEF Run
<1>2. Head(run.pods) \in Pods /\ Tail(run.pods) \in Seq(Pods)
  BY <1>1
<1>3. ASSUME NEW i \in DOMAIN run.pods, i # 1
      PROVE  \E j \in DOMAIN Tail(run.pods) : run.pods[i] = Tail(run.pods)[j]
  <2>1. i - 1 \in DOMAIN Tail(run.pods) /\ Tail(run.pods)[i - 1] = run.pods[i]
    BY <1>1, <1>3
  <2> QED
    BY <2>1
<1>4. run.pods[1] = Head(run.pods)
  BY <1>1
<1> QED
  BY <1>2, <1>3, <1>4

CreateType ==
    /\ RunType(create, {"off", "start", "pods"}) /\ create.todo = {}
    /\ create.phase = "pods" => create.name \in 0..MaxTime
CleanupType == RunType(cleanup, {"off", "start", "pods", "delete"})
Commands == [verb : {"snapshot", "clear"}, pod : Pods, name : 0..MaxTime, keyspace : AllKeyspaces]
RestType ==
    /\ now \in 0..MaxTime
    /\ completed \subseteq 0..MaxTime /\ cleaned \in Names \cup -RetentionPeriod..MaxTime
    /\ budget \in Budgets
SnapsType == snaps \in [Pods -> SUBSET Snapshots]

(* The types, run by run. *)
LEMMA TypeParts == Types <=> SnapsType /\ pending \subseteq Commands /\ CreateType /\ CleanupType /\ RestType
  BY DEF Types, TypeOK, SnapsType, Snapshots, Commands, CreateType, CleanupType, RunType, RestType, Budgets

(* The same after a step. *)
LEMMA TypePartsNext ==
    SnapsType' /\ (pending \subseteq Commands)' /\ CreateType' /\ CleanupType' /\ RestType' => Types'
  BY DEF Types, TypeOK, SnapsType, Snapshots, Commands, CreateType, CleanupType, RunType, RestType, Budgets

(* A step of the schedule or of the tool keeps the types. *)
LEMMA TypesNext == Types /\ [Next]_vars => Types'
<1> SUFFICES ASSUME Types, [Next]_vars
             PROVE  Types'
  OBVIOUS
<1>0. SnapsType /\ pending \subseteq Commands /\ CreateType /\ CleanupType /\ RestType /\ TypeOK
  BY TypeParts DEF Types
<1>a. now \in Int /\ MaxTime \in Nat /\ RetentionPeriod \in Nat
  BY Times, <1>0
<1> USE DEF SnapsType
<1>1. CASE CreateScheduled
  <2>1. CreateType'
    BY <1>1, FreshRun DEF CreateScheduled, CreateType
  <2>2. budget' \in Budgets
    BY <1>0, <1>1, SpendType DEF CreateScheduled
  <2> QED
    BY <1>0, <1>1, <2>1, <2>2, TypePartsNext DEF CreateScheduled, CleanupType, RestType
<1>2. CASE ListPodsToCreate
  <2>1. CreateType'
    BY <1>0, <1>2, SnapshotToolAssumption DEF ListPodsToCreate, CreateType, RunType, Run, RestType, Names
  <2> QED
    BY <1>0, <1>2, <2>1, TypePartsNext DEF ListPodsToCreate, CleanupType, RestType
<1>3. ASSUME NEW p \in Pods, CreateSnapshot(p)
      PROVE  Types'
  <2>1. create.phase = "pods" /\ create.pods # <<>> /\ create.name \in 0..MaxTime
    BY <1>0, <1>3 DEF CreateSnapshot, CreateType
  <2>2. Succeeds("snapshot", p, create.name, Wanted) \/ Fails("snapshot", p, create.name, Wanted)
    BY <1>3 DEF CreateSnapshot
  <2>3. /\ \E done \in SUBSET Wanted : snaps' = Effect("snapshot", p, create.name, done)
        /\ pending' \subseteq pending \cup Command("snapshot", p, create.name, Wanted)
        /\ budget' \in Budgets
    BY <1>0, <2>1, <2>2, CommandStep, CommandTypes
  <2>4. SnapsType'
    BY <1>0, <2>1, <2>3, EffectOf, CommandTypes
  <2>5. (pending \subseteq Commands)'
    BY <1>0, <2>1, <2>3, CommandTypes DEF Command, Commands
  <2>6. CreateType'
    <3>1. Tail(create.pods) \in Seq(Pods)
      BY <1>0, <2>1, PodsLeft DEF CreateType, RunType
    <3>2. create \in Run({"off", "start", "pods"}) /\ create.todo = {}
      BY <1>0 DEF CreateType, RunType
    <3>3. CASE create' = [create EXCEPT !.pods = Tail(@)]
      BY <2>1, <3>1, <3>2, <3>3 DEF CreateType, RunType, Run
    <3>4. CASE create' = [create EXCEPT !.pods = Tail(@), !.failed = @ \cup {p}]
      BY <2>1, <3>1, <3>2, <3>4 DEF CreateType, RunType, Run
    <3> QED
      BY <1>3, <3>3, <3>4 DEF CreateSnapshot
  <2> QED
    BY <1>0, <1>3, <2>3, <2>4, <2>5, <2>6, TypePartsNext DEF CreateSnapshot, CleanupType, RestType
<1>4. CASE CreateDone
  <2>1. CreateType'
    BY <1>4, FreshRun DEF CreateDone, NotRunning, CreateType
  <2>2. completed' \subseteq 0..MaxTime
    BY <1>0, <1>4 DEF CreateDone, CreateType, RestType
  <2> QED
    BY <1>0, <1>4, <2>1, <2>2, TypePartsNext DEF CreateDone, CleanupType, RestType
<1>5. CASE CleanupScheduled
  <2>1. CleanupType'
    BY <1>5, FreshRun DEF CleanupScheduled, CleanupType
  <2>2. budget' \in Budgets
    BY <1>0, <1>5, SpendType DEF CleanupScheduled
  <2> QED
    BY <1>0, <1>5, <2>1, <2>2, TypePartsNext DEF CleanupScheduled, CreateType, RestType
<1>6. CASE ListPodsToCleanUp
  <2>1. now - RetentionPeriod \in -RetentionPeriod..MaxTime
    BY <1>0, <1>a DEF RestType
  <2>2. CleanupType'
    BY <1>0, <1>6, <2>1, SnapshotToolAssumption DEF ListPodsToCleanUp, CleanupType, RunType, Run
  <2> QED
    BY <1>0, <1>6, <2>2, TypePartsNext DEF ListPodsToCleanUp, CreateType, RestType
<1>7. ASSUME NEW p \in Pods, FindSnapshotsToDelete(p)
      PROVE  Types'
  <2>1. budget' \in Budgets
    BY <1>0, <1>7, SpendType DEF FindSnapshotsToDelete, RestType
  <2>2. Tail(cleanup.pods) \in Seq(Pods)
    BY <1>0, <1>7, PodsLeft DEF FindSnapshotsToDelete, CleanupType, RunType
  <2>3. {[tag |-> t, pod |-> p] : t \in OutsideRetentionPeriod(Tags(p), cleanup.name)}
          \subseteq [tag : [name : 0..MaxTime, keyspace : AllKeyspaces], pod : Pods]
    BY <1>0 DEF OutsideRetentionPeriod, Tags, Snapshots, Names
  <2>4. CleanupType'
    <3> DEFINE found == {[tag |-> t, pod |-> p] : t \in OutsideRetentionPeriod(Tags(p), cleanup.name)}
    <3>1. cleanup \in Run({"off", "start", "pods", "delete"}) /\ cleanup.phase = "pods"
      BY <1>0, <1>7 DEF FindSnapshotsToDelete, CleanupType, RunType
    <3>2. \/ cleanup' = [cleanup EXCEPT !.phase = "delete", !.pods = Tail(@), !.todo = found]
          \/ cleanup' = [cleanup EXCEPT !.pods = Tail(@), !.failed = @ \cup {p}]
      BY <1>7 DEF FindSnapshotsToDelete
    <3> HIDE DEF found
    <3>3. CASE cleanup' = [cleanup EXCEPT !.phase = "delete", !.pods = Tail(@), !.todo = found]
      BY <2>2, <2>3, <3>1, <3>3 DEF CleanupType, RunType, Run, found
    <3>4. CASE cleanup' = [cleanup EXCEPT !.pods = Tail(@), !.failed = @ \cup {p}]
      BY <2>2, <3>1, <3>4 DEF CleanupType, RunType, Run
    <3> QED
      BY <3>2, <3>3, <3>4
  <2> QED
    BY <1>0, <1>7, <2>1, <2>4, TypePartsNext DEF FindSnapshotsToDelete, CreateType, RestType
<1>8. CASE DeleteSnapshot
  <2>1. PICK d \in cleanup.todo :
           \/ /\ Succeeds("clear", d.pod, d.tag.name, {d.tag.keyspace})
              /\ cleanup' = [cleanup EXCEPT !.todo = @ \ {d}]
           \/ /\ Fails("clear", d.pod, d.tag.name, {d.tag.keyspace})
              /\ cleanup' = [cleanup EXCEPT !.todo = @ \ {d}, !.failed = @ \cup {d.pod}]
    BY <1>8 DEF DeleteSnapshot
  <2>2. d.pod \in Pods /\ d.tag.name \in 0..MaxTime /\ {d.tag.keyspace} \in SUBSET AllKeyspaces
    BY CommandTypes
  <2>3. /\ \E done \in SUBSET {d.tag.keyspace} : snaps' = Effect("clear", d.pod, d.tag.name, done)
        /\ pending' \subseteq pending \cup Command("clear", d.pod, d.tag.name, {d.tag.keyspace})
        /\ budget' \in Budgets
    BY <1>0, <2>1, <2>2, CommandStep
  <2>4. SnapsType'
    BY <1>0, <2>2, <2>3, EffectOf
  <2>5. (pending \subseteq Commands)'
    BY <1>0, <2>2, <2>3 DEF Command, Commands
  <2>6. CleanupType'
    <3>1. cleanup \in Run({"off", "start", "pods", "delete"}) /\ cleanup.phase = "delete"
      BY <1>0, <1>8 DEF DeleteSnapshot, CleanupType, RunType
    <3>2. CASE cleanup' = [cleanup EXCEPT !.todo = @ \ {d}]
      BY <3>1, <3>2 DEF CleanupType, RunType, Run
    <3>3. CASE cleanup' = [cleanup EXCEPT !.todo = @ \ {d}, !.failed = @ \cup {d.pod}]
      BY <2>2, <3>1, <3>3 DEF CleanupType, RunType, Run
    <3> QED
      BY <2>1, <3>2, <3>3
  <2> QED
    BY <1>0, <1>8, <2>3, <2>4, <2>5, <2>6, TypePartsNext DEF DeleteSnapshot, CreateType, RestType
<1>9. CASE PodCleanedUp
  <2>1. CleanupType'
    BY <1>0, <1>9 DEF PodCleanedUp, CleanupType, RunType, Run
  <2> QED
    BY <1>0, <1>9, <2>1, TypePartsNext DEF PodCleanedUp, CreateType, RestType
<1>10. CASE CleanupDone
  <2>1. CleanupType'
    BY <1>10, FreshRun DEF CleanupDone, NotRunning, CleanupType
  <2>2. cleaned' \in Names \cup -RetentionPeriod..MaxTime
    BY <1>0, <1>10 DEF CleanupDone, CleanupType, RunType, Run, RestType
  <2> QED
    BY <1>0, <1>10, <2>1, <2>2, TypePartsNext DEF CleanupDone, CreateType, RestType
<1>11. CASE Killed
  <2>1. CreateType' /\ CleanupType'
    BY <1>0, <1>11, FreshRun DEF Killed, CreateType, CleanupType
  <2>2. budget' \in Budgets
    BY <1>0, <1>11, SpendType DEF Killed
  <2> QED
    BY <1>0, <1>11, <2>1, <2>2, TypePartsNext DEF Killed, RestType
<1>12. CASE CommandGoesOn
  <2>1. PICK c \in pending : pending' = pending \ {c} /\ snaps' = Effect(c.verb, c.pod, c.name, {c.keyspace})
    BY <1>12 DEF CommandGoesOn
  <2>2. SnapsType'
    BY <1>0, <2>1, EffectOf, CommandTypes
  <2> QED
    BY <1>0, <1>12, <2>1, <2>2, TypePartsNext DEF CommandGoesOn, CreateType, CleanupType, RestType
<1>13. CASE CommandLost
  BY <1>0, <1>13, TypePartsNext DEF CommandLost, CreateType, CleanupType, RestType
<1>14. CASE Tick
  <2>1. now' \in 0..MaxTime
    BY <1>0, <1>14, <1>a DEF Tick, RestType
  <2>2. completed' \subseteq 0..MaxTime
    BY <1>0, <1>14 DEF Tick, RestType
  <2> QED
    BY <1>0, <1>14, <2>1, <2>2, TypePartsNext DEF Tick, CreateType, CleanupType, RestType
<1>15. CASE UNCHANGED vars
  BY <1>0, <1>15, TypePartsNext DEF vars, CreateType, CleanupType, RestType
<1> QED
  BY <1>1, <1>2, <1>3, <1>4, <1>5, <1>6, <1>7, <1>8, <1>9, <1>10, <1>11, <1>12, <1>13, <1>14, <1>15
     DEF Next, Create, Cleanup

(* The state of the two jobs has its types; what a clean-up is about to    *)
(* delete is named by a time.                                              *)
THEOREM TypeCorrect == Spec => []TypeOK
<1>1. Types => TypeOK
  BY DEF Types
<1> QED
  BY <1>1, TypesInit, TypesNext, PTL DEF Spec

-----------------------------------------------------------------------------
(* Nothing but what is out of retention is ever removed. *)

(* A command that is left behind by a clean-up removes old snapshots only, *)
(* since time goes on; so does every other step.                           *)
LEMMA ClearNext == Types /\ ClearInv /\ [Next]_vars => ClearInv' /\ Changes
<1> SUFFICES ASSUME Types, ClearInv, [Next]_vars
             PROVE  ClearInv' /\ Changes
  OBVIOUS
<1>0. TypeOK /\ SnapsType
  BY TypeParts DEF Types
<1>a. now \in Int /\ RetentionPeriod \in Nat /\ cleanup.name \in Int
  BY <1>0, Times
<1>b. snaps' = snaps => Changes
  BY <1>0 DEF SnapsType, Changes
<1>1. CASE CreateScheduled \/ ListPodsToCreate \/ CreateDone
  BY <1>1, <1>b DEF CreateScheduled, ListPodsToCreate, CreateDone, ClearInv
<1>2. ASSUME NEW p \in Pods, CreateSnapshot(p)
      PROVE  ClearInv' /\ Changes
  <2>1. create.name \in 0..MaxTime /\ Wanted \in SUBSET AllKeyspaces
    BY <1>2, CommandTypes DEF CreateSnapshot
  <2>2. Succeeds("snapshot", p, create.name, Wanted) \/ Fails("snapshot", p, create.name, Wanted)
    BY <1>2 DEF CreateSnapshot
  <2>3. /\ \E done \in SUBSET Wanted : snaps' = Effect("snapshot", p, create.name, done)
        /\ pending' \subseteq pending \cup Command("snapshot", p, create.name, Wanted)
    BY <1>0, <2>1, <2>2, CommandStep
  <2>4. Changes
    BY <1>0, <2>1, <2>3, EffectChanges
  <2>5. \A c \in pending' : c.verb = "clear" => c.name < now - RetentionPeriod
    BY <2>3 DEF Command, ClearInv
  <2> QED
    BY <1>2, <2>4, <2>5 DEF CreateSnapshot, ClearInv
<1>3. CASE CleanupScheduled \/ CleanupDone
  BY <1>3, <1>b DEF CleanupScheduled, CleanupDone, ClearInv, NotRunning, Fresh
<1>4. CASE ListPodsToCleanUp
  <2>1. cleanup' = [cleanup EXCEPT !.phase = "pods", !.name = now - RetentionPeriod, !.pods = PodList]
        /\ cleanup \in Run({"off", "start", "pods", "delete"}) /\ cleanup.todo = {}
    BY <1>0, <1>4 DEF ListPodsToCleanUp, TypeOK, ClearInv
  <2>2. cleanup'.phase = "pods" /\ cleanup'.name = now - RetentionPeriod /\ cleanup'.todo = {}
    BY <2>1 DEF Run
  <2> QED
    BY <1>4, <1>a, <1>b, <2>2 DEF ListPodsToCleanUp, ClearInv
<1>5. ASSUME NEW p \in Pods, FindSnapshotsToDelete(p)
      PROVE  ClearInv' /\ Changes
  <2>1. cleanup \in Run({"off", "start", "pods", "delete"}) /\ cleanup.phase = "pods"
    BY <1>0, <1>5 DEF FindSnapshotsToDelete, TypeOK
  <2> DEFINE found == {[tag |-> t, pod |-> p] : t \in OutsideRetentionPeriod(Tags(p), cleanup.name)}
  <2>2. \A d \in found : d.tag.name < cleanup.name
    BY DEF OutsideRetentionPeriod
  <2>3. \/ cleanup' = [cleanup EXCEPT !.phase = "delete", !.pods = Tail(@), !.todo = found]
        \/ cleanup' = [cleanup EXCEPT !.pods = Tail(@), !.failed = @ \cup {p}]
    BY <1>5 DEF FindSnapshotsToDelete
  <2> HIDE DEF found
  <2>4. cleanup'.name = cleanup.name /\ \/ cleanup'.phase = "delete" /\ cleanup'.todo = found
                                        \/ cleanup'.phase = "pods" /\ cleanup'.todo = cleanup.todo
    BY <2>1, <2>3 DEF Run
  <2> QED
    BY <1>5, <1>b, <2>1, <2>2, <2>4 DEF FindSnapshotsToDelete, ClearInv
<1>6. CASE DeleteSnapshot
  <2>1. PICK d \in cleanup.todo :
           \/ /\ Succeeds("clear", d.pod, d.tag.name, {d.tag.keyspace})
              /\ cleanup' = [cleanup EXCEPT !.todo = @ \ {d}]
           \/ /\ Fails("clear", d.pod, d.tag.name, {d.tag.keyspace})
              /\ cleanup' = [cleanup EXCEPT !.todo = @ \ {d}, !.failed = @ \cup {d.pod}]
    BY <1>6 DEF DeleteSnapshot
  <2>2. d.pod \in Pods /\ d.tag.name \in 0..MaxTime /\ {d.tag.keyspace} \in SUBSET AllKeyspaces
    BY CommandTypes
  <2>3. d.tag.name < now - RetentionPeriod
    BY <1>6, <1>a, <2>2, SnapshotToolAssumption DEF DeleteSnapshot, ClearInv
  <2>4. /\ \E done \in SUBSET {d.tag.keyspace} : snaps' = Effect("clear", d.pod, d.tag.name, done)
        /\ pending' \subseteq pending \cup Command("clear", d.pod, d.tag.name, {d.tag.keyspace})
    BY <1>0, <2>1, <2>2, CommandStep
  <2>5. Changes
    BY <1>0, <2>2, <2>3, <2>4, EffectChanges
  <2>6. \A c \in pending' : c.verb = "clear" => c.name < now - RetentionPeriod
    BY <2>3, <2>4 DEF Command, ClearInv
  <2>7. cleanup \in Run({"off", "start", "pods", "delete"}) /\ cleanup.phase = "delete"
    BY <1>0, <1>6 DEF DeleteSnapshot, TypeOK
  <2>8. cleanup'.phase = "delete" /\ cleanup'.name = cleanup.name /\ cleanup'.todo \subseteq cleanup.todo
    BY <2>1, <2>7 DEF Run
  <2> QED
    BY <1>6, <2>5, <2>6, <2>7, <2>8 DEF DeleteSnapshot, ClearInv
<1>7. CASE PodCleanedUp
  <2>1. cleanup \in Run({"off", "start", "pods", "delete"}) /\ cleanup' = [cleanup EXCEPT !.phase = "pods"]
    BY <1>0, <1>7 DEF PodCleanedUp, TypeOK
  <2>2. cleanup'.name = cleanup.name /\ cleanup'.todo = cleanup.todo
    BY <2>1 DEF Run
  <2> QED
    BY <1>7, <1>b, <2>2 DEF PodCleanedUp, ClearInv
<1>8. CASE Killed
  BY <1>8, <1>b DEF Killed, ClearInv, Fresh
<1>9. CASE CommandGoesOn
  <2>1. PICK c \in pending : pending' = pending \ {c} /\ snaps' = Effect(c.verb, c.pod, c.name, {c.keyspace})
    BY <1>9 DEF CommandGoesOn
  <2>2. c.verb = "clear" => c.name < now - RetentionPeriod
    BY DEF ClearInv
  <2>3. Changes
    BY <1>0, <2>1, <2>2, EffectChanges, CommandTypes
  <2> QED
    BY <1>9, <2>1, <2>3 DEF CommandGoesOn, ClearInv
<1>10. CASE CommandLost
  BY <1>10, <1>b DEF CommandLost, ClearInv
<1>11. CASE Tick
  <2>1. now' = now + 1 /\ cleanup' = cleanup /\ pending' = pending /\ snaps' = snaps
    BY <1>11 DEF Tick
  <2>2. \A c \in pending : c.name \in Int
    BY CommandTypes, SnapshotToolAssumption
  <2> QED
    BY <1>a, <1>b, <2>1, <2>2 DEF ClearInv
<1>12. CASE UNCHANGED vars
  BY <1>12, <1>b DEF vars, ClearInv
<1> QED
  BY <1>1, <1>2, <1>3, <1>4, <1>5, <1>6, <1>7, <1>8, <1>9, <1>10, <1>11, <1>12
     DEF Next, Create, Cleanup

(* Nothing is waiting to be removed in the beginning. *)
LEMMA ClearInit == Init => ClearInv
  BY DEF Init, ClearInv, NotRunning, Fresh

(* No step of the tool, and no command that goes on unattended, removes a  *)
(* snapshot within the retention period or one whose name is no number.    *)
THEOREM RetentionRespected == Spec => OnlyOldRemoved
<1>1. Changes => \A p \in Pods : \A s \in snaps[p] \ snaps'[p] : s.name # Foreign /\ s.name < now - RetentionPeriod
  BY DEF Changes
<1> QED
  BY <1>1, TypesInit, TypesNext, ClearInit, ClearNext, PTL DEF Spec, OnlyOldRemoved

-----------------------------------------------------------------------------
(* Backups are kept. *)

(* What BackupKept says of a pod, in this state and in the next. *)
LEMMA BackupsHeld ==
    /\ BackupKept <=> \A name \in completed : name >= now - RetentionPeriod =>
                        \A p \in Pods, k \in Wanted : Holds(snaps[p], name, k)
    /\ BackupKept' <=> \A name \in completed' : name >= now' - RetentionPeriod =>
                         \A p \in Pods, k \in Wanted : Holds(snaps'[p], name, k)
<1>1. \A s, name, k : [name |-> name, keyspace |-> k] = [name |-> s.name, keyspace |-> s.keyspace]
                      <=> s.name = name /\ s.keyspace = k
  OBVIOUS
<1>2. \A p, name, k : Has(p, name, k) <=> Holds(snaps[p], name, k)
  BY <1>1 DEF Has, Tags, Holds
<1>3. \A p, name, k : Has(p, name, k)' <=> Holds(snaps'[p], name, k)
  BY <1>1 DEF Has, Tags, Holds
<1> QED
  BY <1>2, <1>3 DEF BackupKept

(* No step takes a snapshot away within the retention period. *)
LEMMA HeldOn ==
    ASSUME Types, Changes, NEW p \in Pods, NEW name \in Int, NEW k,
           name >= now - RetentionPeriod, Holds(snaps[p], name, k)
    PROVE  Holds(snaps'[p], name, k)
<1>1. PICK s \in snaps[p] : s.name = name /\ s.keyspace = k
  BY DEF Holds
<1>2. ~(s.name < now - RetentionPeriod)
  BY <1>1, Times DEF Types
<1>3. s \in snaps'[p]
  BY <1>2 DEF Changes
<1> QED
  BY <1>1, <1>3 DEF Holds

(* The pods that are left when a run goes on to the next pod, or does not. *)
LEMMA LeftNext ==
    ASSUME NEW run, NEW after, NEW phases, run \in Run(phases)
    PROVE  /\ after.pods = run.pods => Left(after) = Left(run)
           /\ after.pods = Tail(run.pods) /\ run.pods # <<>> => Left(run) \subseteq {Head(run.pods)} \cup Left(after)
<1>1. CASE after.pods = run.pods
  BY <1>1, Zenon DEF Left
<1>2. CASE after.pods = Tail(run.pods) /\ run.pods # <<>>
  <2>1. Left(after) = {Tail(run.pods)[i] : i \in DOMAIN Tail(run.pods)}
    BY <1>2, Zenon DEF Left
  <2> QED
    BY <1>2, <2>1, PodsLeft DEF Left
<1> QED
  BY <1>1, <1>2

(* Time does not go back. *)
LEMMA TimeGoesOn == Types /\ [Next]_vars => now' \in Int /\ now' >= now
<1>1. Types => now \in Int
  BY Times DEF Types
<1>2. [Next]_vars => now' = now \/ now' = now + 1
  BY DEF Next, vars, Create, Cleanup, CreateScheduled, ListPodsToCreate, CreateSnapshot, CreateDone,
         CleanupScheduled, ListPodsToCleanUp, FindSnapshotsToDelete, DeleteSnapshot, PodCleanedUp,
         CleanupDone, Killed, CommandGoesOn, CommandLost, Tick
<1> QED
  BY <1>1, <1>2

(* A creation goes from pod to pod, and what it has done stays. *)
LEMMA CreateNext == Types /\ ClearInv /\ CreateInv /\ [Next]_vars => CreateInv'
<1> SUFFICES ASSUME Types, ClearInv, CreateInv, [Next]_vars,
                    create'.phase = "pods", create'.name >= now' - RetentionPeriod
             PROVE  \A p \in Pods \ (create'.failed \cup Left(create')), k \in Wanted : Holds(snaps'[p], create'.name, k)
  BY DEF CreateInv, Left
<1>0. Changes /\ now \in Int /\ now' \in Int /\ now' >= now /\ RetentionPeriod \in Nat /\ create.name \in Int
  BY ClearNext, TimeGoesOn, Times DEF Types
<1>1. CASE create' = create
  <2>1. create.name >= now - RetentionPeriod
    BY <1>0, <1>1
  <2>2. \A p \in Pods \ (create.failed \cup Left(create)), k \in Wanted : Holds(snaps[p], create.name, k)
    BY <1>1, <2>1 DEF CreateInv
  <2> QED
    BY <1>0, <1>1, <2>1, <2>2, HeldOn DEF Left
<1>2. CASE ListPodsToCreate
  <2>1. create' = [create EXCEPT !.phase = "pods", !.name = now, !.pods = PodList]
        /\ create \in Run({"off", "start", "pods"})
    BY <1>2 DEF ListPodsToCreate, Types, TypeOK
  <2>2. create'.pods = PodList
    BY <2>1 DEF Run
  <2> QED
    BY <2>2 DEF Left, Pods
<1>3. ASSUME NEW q \in Pods, CreateSnapshot(q)
      PROVE  \A p \in Pods \ (create'.failed \cup Left(create')), k \in Wanted : Holds(snaps'[p], create'.name, k)
  <2>1. /\ create.phase = "pods" /\ create.pods # <<>> /\ q = Head(create.pods)
        /\ create \in Run({"off", "start", "pods"}) /\ now' = now
        /\ create.name \in 0..MaxTime /\ Wanted \in SUBSET AllKeyspaces /\ TypeOK
    BY <1>3, CommandTypes DEF CreateSnapshot, Types, TypeOK
  <2>2. \/ /\ Succeeds("snapshot", q, create.name, Wanted)
           /\ create' = [create EXCEPT !.pods = Tail(@)]
        \/ create' = [create EXCEPT !.pods = Tail(@), !.failed = @ \cup {q}]
    BY <1>3 DEF CreateSnapshot
  <2>3. /\ create'.name = create.name /\ create'.pods = Tail(create.pods)
        /\ \/ create'.failed = create.failed /\ Succeeds("snapshot", q, create.name, Wanted)
           \/ create'.failed = create.failed \cup {q}
    BY <2>1, <2>2 DEF Run
  <2>4. Left(create) \subseteq {q} \cup Left(create')
    BY <2>1, <2>3, LeftNext
  <2> SUFFICES ASSUME NEW p \in Pods, p \notin create'.failed, p \notin Left(create'), NEW k \in Wanted
               PROVE  Holds(snaps'[p], create.name, k)
    BY <2>3
  <2>5. CASE p \in Left(create)
    <3>1. p = q /\ snaps' = Effect("snapshot", p, create.name, Wanted)
      BY <2>3, <2>4, <2>5 DEF Succeeds
    <3>2. \E s \in snaps'[p] : s.name = create.name /\ s.keyspace = k
      BY <2>1, <3>1, EffectOf
    <3> QED
      BY <3>2 DEF Holds
  <2>6. CASE p \notin Left(create)
    <3>1. p \notin create.failed
      BY <2>3
    <3>2. Holds(snaps[p], create.name, k) /\ create.name >= now - RetentionPeriod
      BY <2>1, <2>3, <2>6, <3>1 DEF CreateInv
    <3> QED
      BY <1>0, <3>2, HeldOn
  <2> QED
    BY <2>5, <2>6
<1>4. CASE CreateScheduled \/ CreateDone \/ Killed
  BY <1>1, <1>4 DEF CreateScheduled, CreateDone, Killed, NotRunning, Fresh
<1> QED
  BY <1>1, <1>2, <1>3, <1>4
     DEF Next, vars, Create, Cleanup, CleanupScheduled, ListPodsToCleanUp, FindSnapshotsToDelete,
         DeleteSnapshot, PodCleanedUp, CleanupDone, CommandGoesOn, CommandLost, Tick

(* What is reported as complete is complete, and no step takes from it.    *)
LEMMA BackupNext == Types /\ ClearInv /\ CreateInv /\ BackupKept /\ [Next]_vars => BackupKept'
<1> SUFFICES ASSUME Types, ClearInv, CreateInv, BackupKept, [Next]_vars,
                    NEW name \in completed', name >= now' - RetentionPeriod,
                    NEW p \in Pods, NEW k \in Wanted
             PROVE  Holds(snaps'[p], name, k)
  BY BackupsHeld
<1>0. Changes /\ now \in Int /\ now' \in Int /\ now' >= now /\ RetentionPeriod \in Nat /\ create.name \in Int
  BY ClearNext, TimeGoesOn, Times DEF Types
<1>1. CASE name \in completed
  <2>1. completed \subseteq 0..MaxTime /\ MaxTime \in Nat
    BY SnapshotToolAssumption DEF Types, TypeOK
  <2>2. name \in Int
    BY <1>1, <2>1
  <2>3. name >= now - RetentionPeriod
    <3>1. \A a, b, c, d \in Int : a >= b - c /\ b >= d => a >= d - c
      OBVIOUS
    <3>2. name >= now' - RetentionPeriod /\ RetentionPeriod \in Int
      BY <1>0
    <3> QED
      BY <1>0, <2>2, <3>1, <3>2
  <2> QED
    BY <1>0, <1>1, <2>2, <2>3, HeldOn, BackupsHeld
<1>2. CASE name \notin completed
  <2>1. CreateDone
    BY <1>2 DEF Next, vars, Create, Cleanup, CreateScheduled, ListPodsToCreate, CreateSnapshot,
         CleanupScheduled, ListPodsToCleanUp, FindSnapshotsToDelete, DeleteSnapshot, PodCleanedUp,
         CleanupDone, Killed, CommandGoesOn, CommandLost, Tick
  <2>2. create.phase = "pods" /\ create.pods = <<>> /\ create.failed = {} /\ name = create.name /\ now' = now
    BY <1>2, <2>1 DEF CreateDone
  <2>3. Holds(snaps[p], name, k)
    BY <2>2 DEF CreateInv, Left
  <2> QED
    BY <1>0, <2>2, <2>3, HeldOn
<1> QED
  BY <1>1, <1>2

(* A creation that was reported as successful can be restored from every   *)
(* pod until its retention period is over, whatever clean-ups run beside   *)
(* it, whatever commands are delayed and however often either is repeated. *)
THEOREM BackupsKept == Spec => []BackupKept
<1>1. Init => CreateInv /\ BackupKept
  BY DEF Init, CreateInv, BackupKept, NotRunning, Fresh, Left
<1> QED
  BY <1>1, TypesInit, TypesNext, ClearInit, ClearNext, CreateNext, BackupNext, PTL DEF Spec

-----------------------------------------------------------------------------
(* Clean-ups clean. *)

(* A clean-up goes from pod to pod; what comes after it from before its    *)
(* cutoff is marked as late.                                               *)
LEMMA CleanupNext == Types /\ ClearInv /\ CleanupInv /\ [Next]_vars => CleanupInv'
<1> SUFFICES ASSUME Types, ClearInv, CleanupInv, [Next]_vars,
                    cleanup'.phase \in {"pods", "delete"},
                    NEW p \in Pods, p \notin cleanup'.failed, p \notin Left(cleanup'),
                    NEW s \in snaps'[p], s.name # Foreign, s.name < cleanup'.name
             PROVE  s.late >= cleanup'.name \/ Deletion(p, s) \in cleanup'.todo
  BY DEF CleanupInv, Left, Deletion
<1>0. /\ Changes /\ TypeOK /\ Cutoff \in Int /\ Cutoff >= cleanup.name /\ cleanup.name \in Int
      /\ cleanup \in Run({"off", "start", "pods", "delete"})
  BY ClearNext, Times DEF Types, TypeOK
<1>a. s \in Snapshots /\ s.name \in Int /\ s.late \in Int
  BY <1>0, SnapshotToolAssumption DEF Changes, Snapshots, Names, Foreign
<1>1. CASE cleanup'.name = cleanup.name /\ s \notin snaps[p]
  BY <1>0, <1>1, <1>a DEF Changes
<1>2. CASE cleanup' = cleanup /\ s \in snaps[p]
  BY <1>2 DEF CleanupInv, Left
<1>3. CASE ListPodsToCleanUp
  <2>1. cleanup'.pods = PodList
    BY <1>0, <1>3 DEF ListPodsToCleanUp, Run
  <2> QED
    BY <2>1 DEF Left, Pods
<1>4. ASSUME NEW q \in Pods, FindSnapshotsToDelete(q)
      PROVE  s.late >= cleanup'.name \/ Deletion(p, s) \in cleanup'.todo
  <2> DEFINE found == {[tag |-> t, pod |-> q] : t \in OutsideRetentionPeriod(Tags(q), cleanup.name)}
  <2>1. cleanup.phase = "pods" /\ cleanup.pods # <<>> /\ q = Head(cleanup.pods) /\ snaps' = snaps
    BY <1>4 DEF FindSnapshotsToDelete
  <2>2. \/ cleanup' = [cleanup EXCEPT !.phase = "delete", !.pods = Tail(@), !.todo = found]
        \/ cleanup' = [cleanup EXCEPT !.pods = Tail(@), !.failed = @ \cup {q}]
    BY <1>4 DEF FindSnapshotsToDelete
  <2>3. s.name < cleanup.name => (s \in snaps[q] => Deletion(q, s) \in found)
    BY DEF OutsideRetentionPeriod, Tags, Deletion
  <2> HIDE DEF found
  <2>4. /\ cleanup'.name = cleanup.name /\ cleanup'.pods = Tail(cleanup.pods)
        /\ \/ cleanup'.failed = cleanup.failed /\ cleanup'.todo = found
           \/ cleanup'.failed = cleanup.failed \cup {q}
    BY <1>0, <2>2 DEF Run
  <2>5. Left(cleanup) \subseteq {q} \cup Left(cleanup')
    BY <1>0, <2>1, <2>4, LeftNext
  <2>6. CASE p = q
    BY <2>1, <2>3, <2>4, <2>6
  <2>7. CASE p # q
    BY <2>1, <2>4, <2>5, <2>7 DEF CleanupInv, ClearInv
  <2> QED
    BY <2>6, <2>7
<1>5. CASE DeleteSnapshot
  <2>1. PICK d \in cleanup.todo :
           \/ /\ Succeeds("clear", d.pod, d.tag.name, {d.tag.keyspace})
              /\ cleanup' = [cleanup EXCEPT !.todo = @ \ {d}]
           \/ /\ Fails("clear", d.pod, d.tag.name, {d.tag.keyspace})
              /\ cleanup' = [cleanup EXCEPT !.todo = @ \ {d}, !.failed = @ \cup {d.pod}]
    BY <1>5 DEF DeleteSnapshot
  <2>2. d.pod \in Pods /\ d.tag.name \in 0..MaxTime /\ {d.tag.keyspace} \in SUBSET AllKeyspaces
    BY CommandTypes
  <2>x. /\ cleanup'.name = cleanup.name /\ cleanup'.pods = cleanup.pods /\ cleanup'.todo = cleanup.todo \ {d}
        /\ \/ cleanup'.failed = cleanup.failed /\ Succeeds("clear", d.pod, d.tag.name, {d.tag.keyspace})
           \/ cleanup'.failed = cleanup.failed \cup {d.pod}
    BY <1>0, <2>1 DEF Run
  <2>3. /\ cleanup'.name = cleanup.name /\ Left(cleanup') = Left(cleanup) /\ cleanup'.todo = cleanup.todo \ {d}
        /\ \/ cleanup'.failed = cleanup.failed /\ Succeeds("clear", d.pod, d.tag.name, {d.tag.keyspace})
           \/ cleanup'.failed = cleanup.failed \cup {d.pod}
    BY <1>0, <2>x, LeftNext
  <2>4. CASE s \in snaps[p]
    <3>1. s.late >= cleanup.name \/ Deletion(p, s) \in cleanup.todo
      BY <1>5, <2>3, <2>4 DEF CleanupInv, DeleteSnapshot
    <3>2. ASSUME Deletion(p, s) = d
          PROVE  FALSE
      <4>1. d.pod = p /\ d.tag.name = s.name /\ d.tag.keyspace = s.keyspace
        BY <3>2 DEF Deletion
      <4>2. snaps' = Effect("clear", p, s.name, {s.keyspace})
        BY <2>3, <4>1 DEF Succeeds
      <4>3. \A t \in snaps'[p] : t.name # s.name \/ t.keyspace \notin {s.keyspace}
        BY <1>0, <2>2, <4>1, <4>2, EffectOf
      <4> QED
        BY <4>3
    <3> QED
      BY <2>3, <3>1, <3>2
  <2> QED
    BY <1>1, <2>3, <2>4
<1>6. CASE PodCleanedUp
  <2>1. cleanup'.name = cleanup.name /\ cleanup'.failed = cleanup.failed /\ Left(cleanup') = Left(cleanup)
        /\ cleanup'.todo = cleanup.todo /\ snaps' = snaps
    BY <1>0, <1>6 DEF PodCleanedUp, Run, Left
  <2> QED
    BY <1>6, <2>1 DEF PodCleanedUp, CleanupInv
<1>7. CASE CleanupScheduled \/ CleanupDone \/ Killed
  BY <1>1, <1>2, <1>7 DEF CleanupScheduled, CleanupDone, Killed, NotRunning, Fresh
<1> QED
  BY <1>1, <1>2, <1>3, <1>4, <1>5, <1>6, <1>7
     DEF Next, vars, Create, Cleanup, CreateScheduled, ListPodsToCreate, CreateSnapshot, CreateDone,
         CommandGoesOn, CommandLost, Tick

(* What a clean-up has reported stays true. *)
LEMMA CleansNext == Types /\ ClearInv /\ CleanupInv /\ CleanupCleans /\ [Next]_vars => CleanupCleans'
<1> SUFFICES ASSUME Types, ClearInv, CleanupInv, CleanupCleans, [Next]_vars,
                    NEW p \in Pods, NEW s \in snaps'[p], s.name # Foreign, s.name < cleaned'
             PROVE  s.late >= cleaned'
  BY DEF CleanupCleans
<1>0. Changes /\ TypeOK /\ Cutoff \in Int /\ Cutoff >= cleaned /\ cleaned \in Int
  BY ClearNext, Times DEF Types, TypeOK
<1>a. s \in Snapshots /\ s.name \in Int /\ s.late \in Int
  BY <1>0, SnapshotToolAssumption DEF Changes, Snapshots, Names, Foreign
<1>1. CASE cleaned' = cleaned
  BY <1>0, <1>1, <1>a DEF Changes, CleanupCleans
<1>2. CASE cleaned' # cleaned
  <2>1. CleanupDone
    BY <1>2 DEF Next, vars, Create, Cleanup, CreateScheduled, ListPodsToCreate, CreateSnapshot, CreateDone,
         CleanupScheduled, ListPodsToCleanUp, FindSnapshotsToDelete, DeleteSnapshot, PodCleanedUp,
         Killed, CommandGoesOn, CommandLost, Tick
  <2>2. /\ cleanup.phase = "pods" /\ cleanup.pods = <<>> /\ cleanup.failed = {}
        /\ cleaned' = cleanup.name /\ snaps' = snaps /\ cleanup.todo = {}
    BY <1>2, <2>1 DEF CleanupDone, ClearInv
  <2> QED
    BY <2>2 DEF CleanupInv, Left
<1> QED
  BY <1>1, <1>2

(* After a clean-up that was reported as successful, a pod has a snapshot  *)
(* from before its cutoff only if it was put there since the clean-up      *)
(* started, on every pod and whatever failed and was repeated.             *)
THEOREM CleanupsClean == Spec => []CleanupCleans
<1>1. Init => CleanupInv /\ CleanupCleans
  BY DEF Init, CleanupInv, CleanupCleans, NotRunning, Fresh
<1> QED
  BY <1>1, TypesInit, TypesNext, ClearInit, ClearNext, CleanupNext, CleansNext, PTL DEF Spec
=============================================================================
