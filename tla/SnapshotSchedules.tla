-------------------------- MODULE SnapshotSchedules --------------------------
(***************************************************************************)
(* The two CronJobs of a cluster with a snapshot property: x-snapshot,     *)
(* which takes snapshots, and x-snapshot-cleanup, which removes the old    *)
(* ones.  They are created, changed and deleted by operations that the     *)
(* Receiver chooses from the DIFFERENCE between two versions of the        *)
(* Cassandra resource, so what exists depends on the whole series of       *)
(* edits, and on those the operator did not see.                           *)
(*                                                                         *)
(* Of the Cassandra resource, snap is the snapshot property or None and ok *)
(* tells whether the rest of it passes validateRacks and                   *)
(* validatePodResources.  Events wait in the queue of the cluster's        *)
(* dispatcher key and one worker handles them (see Dispatcher); the        *)
(* operations on the cluster itself are in CassandraCluster, here they     *)
(* only decide whether the cluster is known.  One step is one operation:   *)
(* nobody else writes these CronJobs but the CronJob controller, whose     *)
(* writes can only make an update fail.                                    *)
(*                                                                         *)
(* Left out: events recorded on the resource, and a label selector that    *)
(* matches several jobs (the names are unique in a namespace).             *)
(***************************************************************************)
EXTENDS Integers, Sequences

CONSTANTS
    Specs,          \* what users may write: records [ok, snap]
    Crons,          \* schedules that are cron expressions
    None,           \* absent: a nil pointer, no object
    Empty,          \* the empty string, as image or schedule
    DefaultImage,   \* DefaultCassandraSnapshotImage
    MaxEdits,       \* bound: changes users make
    MaxCrashes,     \* bound: crashes other than panics
    MaxErrors       \* bound: API calls that fail

Jobs == {"snapshot", "cleanup"}

(* The fields that the types of types.go give a resource. *)
IsSnapshot(s) ==
    /\ s \in [image : {s.image}, schedule : {s.schedule}, keyspaces : {s.keyspaces},
             timeout : {s.timeout}, policy : {s.policy}]
    /\ s.policy # None => s.policy.enabled \in BOOLEAN
IsResource(c) ==
    /\ c \in [ok : BOOLEAN, snap : {c.snap}]
    /\ c.snap # None => IsSnapshot(c.snap)

ASSUME SnapshotSchedulesAssumption ==
    /\ MaxEdits \in Nat /\ MaxCrashes \in Nat /\ MaxErrors \in Nat
    /\ Empty \notin Crons /\ DefaultImage # Empty
    /\ None \notin Specs
    /\ \A c \in Specs : IsResource(c)

VARIABLES
    spec,       \* the Cassandra resource, or None
    queue,      \* events dispatched and not yet handled: [old, new]
    event,      \* the event being handled, or None
    todo,       \* the operations it still has to execute: [verb, on]
    known,      \* is the cluster in the clusters map?
    running,    \* FALSE between a crash and the restart
    panicked,   \* was the last crash a panic of the operator?
    jobs,       \* [Jobs -> CronJob or None]
    lost,       \* history: jobs that an edit did not reach
    budget      \* what is left of the bounds

vars == <<spec, queue, event, todo, known, running, panicked, jobs, lost, budget>>

Init ==
    /\ spec = None /\ queue = <<>> /\ event = None /\ todo = <<>>
    /\ known = FALSE /\ running = TRUE /\ panicked = FALSE
    /\ jobs = [j \in Jobs |-> None]
    /\ lost = {}
    /\ budget = [edits |-> MaxEdits, crashes |-> MaxCrashes, errors |-> MaxErrors]

-----------------------------------------------------------------------------
(* The snapshot property and the jobs made from it. *)

NonNegative(p) == p = None \/ p >= 0

ValidPolicy(p) ==
    /\ NonNegative(p.days) /\ NonNegative(p.timeout)
    /\ p.schedule \in Crons \cup {Empty}

ValidSnapshot(s) ==
    /\ s.schedule \in Crons
    /\ NonNegative(s.timeout)
    /\ s.policy = None \/ ValidPolicy(s.policy)

(* CopyInto: a definition it accepts is given the default snapshot image.  *)
Valid(c) == c.ok /\ (c.snap = None \/ ValidSnapshot(c.snap))

Definition(c) ==
    IF Valid(c) /\ c.snap # None /\ c.snap.image = Empty
    THEN [c EXCEPT !.snap.image = DefaultImage] ELSE c

HasRetentionPolicyEnabled(s) == s.policy # None /\ s.policy.enabled

(* Does a resource ask for job j? *)
Wants(c, j) ==
    /\ c.snap # None
    /\ j = "cleanup" => HasRetentionPolicyEnabled(c.snap)

(* createCronJob, with the arguments that the job's container is given. *)
CronJobOf(schedule, image, command) ==
    [schedule |-> schedule, image |-> image, command |-> command]

CreateSnapshotJob(s) == CronJobOf(s.schedule, s.image, <<s.timeout, s.keyspaces>>)
CreateSnapshotCleanupJob(s) ==
    CronJobOf(s.policy.schedule, s.image, <<s.policy.days, s.policy.timeout>>)

CronJob(s, j) ==
    IF j = "snapshot" THEN CreateSnapshotJob(s) ELSE CreateSnapshotCleanupJob(s)

(* The API server wants a cron expression and an image. *)
Accepted(job) == job.schedule \in Crons /\ job.image # Empty

-----------------------------------------------------------------------------
(* The two comparisons of types.go.  The pointers to the timeouts and the  *)
(* days are followed without a test for nil, unless an earlier difference  *)
(* has settled the matter.                                                 *)

SnapshotPropertiesUpdated(s1, s2) ==
    \/ s1.schedule # s2.schedule
    \/ s1.timeout # s2.timeout
    \/ s1.keyspaces # s2.keyspaces

(* Mutant: only the schedule of the cleanup is compared. *)
OnlyCleanupScheduleUpdated(s1, s2) ==
    /\ s1.policy # None /\ s2.policy # None
    /\ s1.policy.schedule # s2.policy.schedule

SnapshotCleanupPropertiesUpdated(s1, s2) ==
    /\ s1.policy # None /\ s2.policy # None
    /\ \/ s1.policy.schedule # s2.policy.schedule
       \/ s1.policy.timeout # s2.policy.timeout
       \/ s1.policy.days # s2.policy.days

NilFollowed(p1, p2) == p1 = None \/ p2 = None

ComparisonPanics(s1, s2) ==
    \/ s1.schedule = s2.schedule /\ NilFollowed(s1.timeout, s2.timeout)
    \/ /\ s1.policy # None /\ s2.policy # None
       /\ s1.policy.schedule = s2.policy.schedule
       /\ \/ NilFollowed(s1.policy.timeout, s2.policy.timeout)
          \/ /\ s1.policy.timeout = s2.policy.timeout
             /\ NilFollowed(s1.policy.days, s2.policy.days)

-----------------------------------------------------------------------------
(* The Receiver: the operations an event leads to. *)

Op(verb, on) == [verb |-> verb, on |-> on]
If(cond, op) == IF cond THEN <<op>> ELSE <<>>

(* The operations on each job that c asks for. *)
ForSchedules(verb, c) ==
    If(Wants(c, "snapshot"), Op(verb, "snapshot")) \o If(Wants(c, "cleanup"), Op(verb, "cleanup"))

(* Mutant: the cluster itself is not deleted. *)
OperationsForDeleteSchedules(c) == ForSchedules("delete", c)

OperationsForAddCluster(c) == <<Op("add", "cluster")>> \o ForSchedules("add", c)
OperationsForDeleteCluster(c) == <<Op("delete", "cluster")>> \o ForSchedules("delete", c)

ChangeSchedules(old, new) ==
    If(Wants(old, "cleanup") /\ ~Wants(new, "cleanup"), Op("delete", "cleanup"))
      \o If(SnapshotPropertiesUpdated(old.snap, new.snap), Op("update", "snapshot"))
      \o If(SnapshotCleanupPropertiesUpdated(old.snap, new.snap), Op("update", "cleanup"))

BothScheduled(old, new) == old.snap # None /\ new.snap # None

(* Mutant: the cleanup is added only with the cluster. *)
OperationsForUpdateWithoutCleanup(old, new) ==
    IF ~known THEN OperationsForAddCluster(new)
    ELSE <<Op("update", "cluster")>>
           \o IF BothScheduled(old, new) THEN ChangeSchedules(old, new)
              ELSE ForSchedules("delete", old)
                     \o If(Wants(new, "snapshot"), Op("add", "snapshot"))

OperationsForUpdateCluster(old, new) ==
    IF ~known THEN OperationsForAddCluster(new)
    ELSE <<Op("update", "cluster")>>
           \o IF BothScheduled(old, new) THEN ChangeSchedules(old, new)
              ELSE ForSchedules("delete", old) \o ForSchedules("add", new)

Operations(e) ==
    CASE e.old = None -> OperationsForAddCluster(e.new)
      [] e.new = None -> OperationsForDeleteCluster(e.old)
      [] OTHER -> OperationsForUpdateCluster(e.old, e.new)

Panics(e) ==
    /\ e.old # None /\ e.new # None /\ known
    /\ BothScheduled(e.old, e.new)
    /\ ComparisonPanics(e.old.snap, e.new.snap)

(* Retention switched on for an existing schedule: no operation adds the   *)
(* cleanup job.                                                            *)
EnablesRetention(e) ==
    /\ e.old # None /\ e.new # None /\ known
    /\ BothScheduled(e.old, e.new)
    /\ ~Wants(e.old, "cleanup") /\ Wants(e.new, "cleanup")

-----------------------------------------------------------------------------
(* The users, and the informer that reports each change to the operator    *)
(* while it runs.  An edit of other parts of the resource is an update     *)
(* with the same snap.                                                     *)

Event(old, new) == [old |-> old, new |-> new]

Edit(new) ==
    /\ budget.edits > 0
    /\ spec # None \/ new # None
    /\ spec' = new
    /\ queue' = IF running THEN Append(queue, Event(spec, new)) ELSE queue
    /\ lost' = IF running THEN lost ELSE Jobs
    /\ budget' = [budget EXCEPT !.edits = @ - 1]
    /\ UNCHANGED <<event, todo, known, running, panicked, jobs>>

CreateCluster == spec = None /\ \E s \in Specs : Edit(s)
UpdateCluster == spec # None /\ \E s \in Specs : Edit(s)
DeleteCluster == Edit(None)

-----------------------------------------------------------------------------
(* The operator. *)

Settled == running /\ queue = <<>> /\ event = None

Stops ==
    /\ running' = FALSE /\ known' = FALSE
    /\ queue' = <<>> /\ event' = None /\ todo' = <<>>

(* Receiver.Receive, up to the first operation *)
Receive ==
    /\ running /\ event = None /\ queue # <<>>
    /\ LET e == Head(queue) IN
         /\ ~Panics(e)
         /\ event' = e
         /\ todo' = Operations(e)
         /\ lost' = IF EnablesRetention(e) THEN lost \cup {"cleanup"} ELSE lost
    /\ queue' = Tail(queue)
    /\ UNCHANGED <<spec, known, running, panicked, jobs, budget>>

ReceivePanics ==
    /\ running /\ event = None /\ queue # <<>>
    /\ Panics(Head(queue))
    /\ Stops
    /\ panicked' = TRUE
    /\ lost' = Jobs
    /\ UNCHANGED <<spec, jobs, budget>>

Crash ==
    /\ running /\ budget.crashes > 0
    /\ Stops
    /\ panicked' = FALSE
    /\ lost' = IF Settled THEN lost ELSE Jobs
    /\ budget' = [budget EXCEPT !.crashes = @ - 1]
    /\ UNCHANGED <<spec, jobs>>

(* A new operator is told of the cluster as if it were new. *)
Restart ==
    /\ ~running
    /\ running' = TRUE
    /\ queue' = IF spec = None THEN <<>> ELSE <<Event(None, spec)>>
    /\ UNCHANGED <<spec, event, todo, known, panicked, jobs, lost, budget>>

(* The operation at the head of todo is executed; after the last one the   *)
(* event is handled.                                                       *)
Executes(verb, on) ==
    /\ todo # <<>> /\ Head(todo) = Op(verb, on)
    /\ todo' = Tail(todo)
    /\ event' = IF Len(todo) = 1 THEN None ELSE event
    /\ UNCHANGED <<spec, queue, running, panicked>>

(* AddClusterOperation: a definition that is refused leaves a restarted    *)
(* operator without knowledge of the cluster and of the jobs it has.       *)
AddCluster ==
    /\ Executes("add", "cluster")
    /\ known' = (known \/ Valid(event.new))
    /\ lost' = IF Valid(event.new) THEN lost ELSE lost \cup {j \in Jobs : jobs[j] # None}
    /\ UNCHANGED <<jobs, budget>>

UpdateKnownCluster ==
    /\ Executes("update", "cluster")
    /\ UNCHANGED <<known, jobs, lost, budget>>

DeleteKnownCluster ==
    /\ Executes("delete", "cluster")
    /\ known' = FALSE
    /\ UNCHANGED <<jobs, lost, budget>>

(* Create fails when the job exists. *)
AddJob(j) ==
    /\ Executes("add", j)
    /\ LET new == CronJob(Definition(event.new).snap, j)
           refused == ~Valid(event.new) \/ ~Accepted(new)
       IN  /\ jobs' = IF refused \/ jobs[j] # None THEN jobs ELSE [jobs EXCEPT ![j] = new]
           /\ lost' = IF refused /\ known THEN lost \cup {j} ELSE lost
    /\ UNCHANGED <<known, budget>>

(* The definition may have been refused for the cluster and still changes  *)
(* the job.                                                                *)
UpdateJob(j) ==
    /\ Executes("update", j)
    /\ LET new == CronJob(Definition(event.new).snap, j) IN
         IF jobs[j] = None THEN UNCHANGED <<jobs, lost>>
         ELSE IF ~Accepted(new) THEN jobs' = jobs /\ lost' = lost \cup {j}
         ELSE /\ jobs' = [jobs EXCEPT ![j] = new]
              /\ lost' = IF Wants(event.new, j) THEN lost \ {j} ELSE lost
    /\ UNCHANGED <<known, budget>>

DeleteJob(j) ==
    /\ Executes("delete", j)
    /\ jobs' = [jobs EXCEPT ![j] = None]
    /\ lost' = lost \ {j}
    /\ UNCHANGED <<known, budget>>

(* A list, create, update or delete of a job fails: it is logged, and the  *)
(* next operation is executed.                                             *)
CallFails(j) ==
    /\ budget.errors > 0
    /\ \E verb \in {"add", "update", "delete"} : Executes(verb, j)
    /\ budget' = [budget EXCEPT !.errors = @ - 1]
    /\ lost' = lost \cup {j}
    /\ UNCHANGED <<known, jobs>>

AddSnapshot == AddJob("snapshot")
AddSnapshotCleanup == AddJob("cleanup")
UpdateSnapshot == UpdateJob("snapshot")
UpdateSnapshotCleanup == UpdateJob("cleanup")
DeleteSnapshot == DeleteJob("snapshot")
DeleteSnapshotCleanup == DeleteJob("cleanup")

Next ==
    \/ CreateCluster \/ UpdateCluster \/ DeleteCluster
    \/ Receive \/ ReceivePanics \/ Crash \/ Restart
    \/ AddCluster \/ UpdateKnownCluster \/ DeleteKnownCluster
    \/ AddSnapshot \/ UpdateSnapshot \/ DeleteSnapshot
    \/ AddSnapshotCleanup \/ UpdateSnapshotCleanup \/ DeleteSnapshotCleanup
    \/ \E j \in Jobs : CallFails(j)

Spec == Init /\ [][Next]_vars

-----------------------------------------------------------------------------
(* Properties. *)

CronJobs == {CronJob(Definition(c).snap, "snapshot") : c \in {d \in Specs : d.snap # None}}
              \cup {CronJob(Definition(c).snap, "cleanup") :
                      c \in {d \in Specs : d.snap # None /\ d.snap.policy # None}}
Resources == Specs \cup {None}

(* A job and an event are told from their absence. *)
ASSUME NoneAssumption ==
    /\ None \notin CronJobs
    /\ \A old, new \in Resources : Event(old, new) # None

(* Every variable has its type, and an operation is left only while an     *)
(* event is being handled: operations read the event they belong to.       *)
TypeOK ==
    /\ spec \in Resources
    /\ queue \in Seq([old : Resources, new : Resources])
    /\ event \in [old : Resources, new : Resources] \cup {None}
    /\ todo \in Seq([verb : {"add", "update", "delete"}, on : Jobs \cup {"cluster"}])
    /\ event = None <=> todo = <<>>
    /\ known \in BOOLEAN /\ running \in BOOLEAN /\ panicked \in BOOLEAN
    /\ ~running => queue = <<>> /\ event = None /\ ~known
    /\ jobs \in [Jobs -> CronJobs \cup {None}]
    /\ lost \subseteq Jobs
    /\ budget \in [edits : 0..MaxEdits, crashes : 0..MaxCrashes, errors : 0..MaxErrors]

(* When the operator has handled every event, a job exists only if the     *)
(* resource asks for it, with the schedule and the command the resource    *)
(* asks for, whatever series of edits, refused ones included, led there.   *)
(* Excused are the jobs that an edit did not reach: a call failed, the     *)
(* API server refused the job, the operator was down or stopped before it  *)
(* was done, or came back to a definition it refuses.  Each job is excused *)
(* on its own, and deleting the job or changing it makes up for all that.  *)
(* The image is not compared: an edit of it alone changes no job.          *)
NoStaleJob ==
    Settled => \A j \in Jobs \ lost : jobs[j] # None =>
        /\ spec # None /\ Wants(spec, j)
        /\ jobs[j].schedule = CronJob(spec.snap, j).schedule
        /\ jobs[j].command = CronJob(spec.snap, j).command

(* When the operator has handled every event, a known cluster has each job *)
(* that its resource asks for, with the same exceptions and one more: a    *)
(* cleanup switched on for an existing schedule, which nothing creates.    *)
NoMissingJob ==
    Settled /\ known => \A j \in Jobs \ lost : Wants(spec, j) => jobs[j] # None

(* The timeouts and the retention period are optional (types.go:98, 112,   *)
(* 116): the operator must handle edits of resources that leave them out.  *)
NeverPanics == ~panicked
=============================================================================
