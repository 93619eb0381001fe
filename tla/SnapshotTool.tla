------------------------------ MODULE SnapshotTool ------------------------------
(***************************************************************************)
(* cassandra-snapshot: what the two CronJobs of SnapshotSchedules run.     *)
(* "create" takes a snapshot named after the second it started in on every *)
(* pod of the cluster; "cleanup" removes, from every pod, the snapshots    *)
(* older than the retention period.  Each is a loop of commands executed   *)
(* in the pods, one at a time.  A job does not overlap with itself         *)
(* (ForbidConcurrent) but the two overlap with each other, and a run that  *)
(* exits with an error is started again (RestartPolicyOnFailure), until    *)
(* Kubernetes gives the job up: the code leaves its backoff limit at the   *)
(* default of 6, and MaxErrors stays below that.                           *)
(*                                                                         *)
(* A command that is reported as failed may have done nothing, a part of   *)
(* its work or all of it, or go on in the pod after the tool gave up       *)
(* waiting for it.                                                         *)
(*                                                                         *)
(* Left out: the column families of a snapshot, of which every command     *)
(* treats all; differences between the clocks of the two jobs; pods that   *)
(* come or go, which are pods on which commands fail.                      *)
(***************************************************************************)
EXTENDS Integers, Sequences, FiniteSetsExt

CONSTANTS
    PodList,        \* the pods that carry the label, in the order they are listed
    AllKeyspaces,   \* the keyspaces of the cluster
    Keyspaces,      \* those asked for; none means all
    RetentionPeriod,
    MaxTime,        \* bound: the last second
    MaxCreations,   \* bound: times the schedule of each job comes round
    MaxCleanups,
    MaxErrors       \* bound: commands and lists that fail, crashes of the tool

Pods == {PodList[i] : i \in DOMAIN PodList}

ASSUME SnapshotToolAssumption ==
    /\ PodList \in Seq(Pods) /\ PodList # <<>>
    /\ AllKeyspaces # {} /\ Keyspaces \subseteq AllKeyspaces
    /\ RetentionPeriod \in Nat /\ MaxTime \in Nat
    /\ MaxCreations \in Nat /\ MaxCleanups \in Nat /\ MaxErrors \in Nat

(* Stands for every name that is not a number.  A name that is one is a    *)
(* time to the tool, whoever gave it.                                      *)
Foreign == -1

VARIABLES
    now,        \* the time in seconds
    snaps,      \* [Pods -> set of snapshots: [name, keyspace, late]]
    pending,    \* commands still running in a pod though the tool gave up
    create,     \* the run of "create"
    cleanup,    \* the run of "cleanup"
    completed,  \* history: names of the creations that succeeded, while retained
    cleaned,    \* history: the latest cutoff of a cleanup that succeeded
    budget      \* what is left of the bounds

vars == <<now, snaps, pending, create, cleanup, completed, cleaned, budget>>

Fresh(phase) == [phase |-> phase, name |-> Foreign, pods |-> <<>>, failed |-> {}, todo |-> {}]
NotRunning == Fresh("off")

Init ==
    /\ now = 0
    /\ snaps = [p \in Pods |-> {[name |-> Foreign, keyspace |-> k, late |-> Foreign] : k \in AllKeyspaces}]
    /\ pending = {}
    /\ create = NotRunning /\ cleanup = NotRunning
    /\ completed = {} /\ cleaned = Foreign
    /\ budget = [creations |-> MaxCreations, cleanups |-> MaxCleanups, errors |-> MaxErrors]

Spend(what) == budget[what] > 0 /\ budget' = [budget EXCEPT ![what] = @ - 1]

-----------------------------------------------------------------------------
(* nodetool in a pod. *)

(* late is history: the cutoff of the latest cleanup that had started when *)
(* the snapshot came to be, if that was too late for it.                   *)
Snapshot(name, keyspace) ==
    LET cutoff == Max({cleaned, cleanup.name})
    IN  [name |-> name, keyspace |-> keyspace, late |-> IF name < cutoff THEN cutoff ELSE Foreign]
Tags(p) == {[name |-> s.name, keyspace |-> s.keyspace] : s \in snaps[p]}
Has(p, name, keyspace) == [name |-> name, keyspace |-> keyspace] \in Tags(p)

(* A command is the changes it makes, keyspace by keyspace.                *)
Command(verb, p, name, keyspaces) ==
    {[verb |-> verb, pod |-> p, name |-> name, keyspace |-> k] : k \in keyspaces}

Effect(verb, p, name, keyspaces) ==
    [snaps EXCEPT ![p] =
        IF verb = "clear" THEN {s \in @ : s.name # name \/ s.keyspace \notin keyspaces}
        ELSE @ \cup {Snapshot(name, k) : k \in {j \in keyspaces : ~Has(p, name, j)}}]

(* Cassandra refuses a name that is taken. *)
Refused(verb, p, name, keyspaces) ==
    verb = "snapshot" /\ \E k \in keyspaces : Has(p, name, k)

Succeeds(verb, p, name, keyspaces) ==
    /\ ~Refused(verb, p, name, keyspaces)
    /\ snaps' = Effect(verb, p, name, keyspaces)
    /\ UNCHANGED <<pending, budget>>

(* runCommand reports an error: a part of the work is done, another part   *)
(* will be done later, the rest never.                                     *)
Fails(verb, p, name, keyspaces) ==
    IF Refused(verb, p, name, keyspaces) THEN UNCHANGED <<snaps, pending, budget>>
    ELSE /\ Spend("errors")
         /\ \E done \in SUBSET keyspaces : \E later \in SUBSET (keyspaces \ done) :
              /\ snaps' = Effect(verb, p, name, done)
              /\ pending' = pending \cup Command(verb, p, name, later)

(* A command that nobody waits for goes on, or is lost with its pod.       *)
CommandGoesOn ==
    \E c \in pending :
      /\ pending' = pending \ {c}
      /\ snaps' = Effect(c.verb, c.pod, c.name, {c.keyspace})
      /\ UNCHANGED <<now, create, cleanup, completed, cleaned, budget>>

CommandLost ==
    \E c \in pending :
      /\ pending' = pending \ {c}
      /\ UNCHANGED <<now, snaps, create, cleanup, completed, cleaned, budget>>

Tick ==
    /\ now < MaxTime
    /\ now' = now + 1
    /\ completed' = {name \in completed : name >= now' - RetentionPeriod}
    /\ UNCHANGED <<snaps, pending, create, cleanup, cleaned, budget>>

-----------------------------------------------------------------------------
(* DoCreate *)

Wanted == IF Keyspaces = {} THEN AllKeyspaces ELSE Keyspaces

CreateScheduled ==
    /\ create.phase = "off" /\ Spend("creations")
    /\ create' = Fresh("start")
    /\ UNCHANGED <<now, snaps, pending, cleanup, completed, cleaned>>

ListPodsToCreate ==
    /\ create.phase = "start"
    /\ create' = [create EXCEPT !.phase = "pods", !.name = now, !.pods = PodList]
    /\ UNCHANGED <<now, snaps, pending, cleanup, completed, cleaned, budget>>

CreateSnapshot(p) ==
    /\ create.phase = "pods" /\ create.pods # <<>> /\ p = Head(create.pods)
    /\ \/ /\ Succeeds("snapshot", p, create.name, Wanted)
          /\ create' = [create EXCEPT !.pods = Tail(@)]
       \/ /\ Fails("snapshot", p, create.name, Wanted)
          /\ create' = [create EXCEPT !.pods = Tail(@), !.failed = @ \cup {p}]
    /\ UNCHANGED <<now, cleanup, completed, cleaned>>

(* Mutant: the run counts as successful when any pod has succeeded. *)
CreateDoneForSome ==
    /\ create.phase = "pods" /\ create.pods = <<>>
    /\ IF create.failed # Pods
       THEN create' = NotRunning /\ completed' = completed \cup {create.name}
       ELSE create' = Fresh("start") /\ UNCHANGED completed
    /\ UNCHANGED <<now, snaps, pending, cleanup, cleaned, budget>>

(* With failed pods the tool exits with an error and is started again.     *)
CreateDone ==
    /\ create.phase = "pods" /\ create.pods = <<>>
    /\ IF create.failed = {}
       THEN create' = NotRunning /\ completed' = completed \cup {create.name}
       ELSE create' = Fresh("start") /\ UNCHANGED completed
    /\ UNCHANGED <<now, snaps, pending, cleanup, cleaned, budget>>

-----------------------------------------------------------------------------
(* DoCleanup *)

CleanupScheduled ==
    /\ cleanup.phase = "off" /\ Spend("cleanups")
    /\ cleanup' = Fresh("start")
    /\ UNCHANGED <<now, snaps, pending, create, completed, cleaned>>

(* Here name is the cutoff. *)
ListPodsToCleanUp ==
    /\ cleanup.phase = "start"
    /\ cleanup' = [cleanup EXCEPT !.phase = "pods", !.name = now - RetentionPeriod, !.pods = PodList]
    /\ UNCHANGED <<now, snaps, pending, create, completed, cleaned, budget>>

(* Mutant: a snapshot that is exactly as old as the retention period goes. *)
OnOrOutsideRetentionPeriod(tags, cutoff) ==
    {t \in tags : t.name # Foreign /\ t.name <= cutoff}

(* Mutant: a name that is not a number counts as an old one. *)
OutsideRetentionPeriodAnyName(tags, cutoff) == {t \in tags : t.name < cutoff}

OutsideRetentionPeriod(tags, cutoff) ==
    {t \in tags : t.name # Foreign /\ t.name < cutoff}

(* Mutant: a pod that could not be listed does not count as failed. *)
FindSnapshotsToDeleteQuietly(p) ==
    /\ cleanup.phase = "pods" /\ cleanup.pods # <<>> /\ p = Head(cleanup.pods)
    /\ \/ /\ cleanup' = [cleanup EXCEPT
                 !.phase = "delete", !.pods = Tail(@),
                 !.todo = {[tag |-> t, pod |-> p] : t \in OutsideRetentionPeriod(Tags(p), cleanup.name)}]
          /\ UNCHANGED budget
       \/ /\ Spend("errors")
          /\ cleanup' = [cleanup EXCEPT !.pods = Tail(@)]
    /\ UNCHANGED <<now, snaps, pending, create, completed, cleaned>>

(* Mutant: a name that is not a number is an error, not passed over. *)
FindSnapshotsToDeleteStrictly(p) ==
    /\ cleanup.phase = "pods" /\ cleanup.pods # <<>> /\ p = Head(cleanup.pods)
    /\ \/ /\ \A t \in Tags(p) : t.name # Foreign
          /\ cleanup' = [cleanup EXCEPT
                 !.phase = "delete", !.pods = Tail(@),
                 !.todo = {[tag |-> t, pod |-> p] : t \in OutsideRetentionPeriod(Tags(p), cleanup.name)}]
          /\ UNCHANGED budget
       \/ /\ IF \E t \in Tags(p) : t.name = Foreign THEN UNCHANGED budget ELSE Spend("errors")
          /\ cleanup' = [cleanup EXCEPT !.pods = Tail(@), !.failed = @ \cup {p}]
    /\ UNCHANGED <<now, snaps, pending, create, completed, cleaned>>

FindSnapshotsToDelete(p) ==
    /\ cleanup.phase = "pods" /\ cleanup.pods # <<>> /\ p = Head(cleanup.pods)
    /\ \/ /\ cleanup' = [cleanup EXCEPT
                 !.phase = "delete", !.pods = Tail(@),
                 !.todo = {[tag |-> t, pod |-> p] : t \in OutsideRetentionPeriod(Tags(p), cleanup.name)}]
          /\ UNCHANGED budget
       \/ /\ Spend("errors")
          /\ cleanup' = [cleanup EXCEPT !.pods = Tail(@), !.failed = @ \cup {p}]
    /\ UNCHANGED <<now, snaps, pending, create, completed, cleaned>>

DeleteSnapshot ==
    /\ cleanup.phase = "delete"
    /\ \E d \in cleanup.todo :
         \/ /\ Succeeds("clear", d.pod, d.tag.name, {d.tag.keyspace})
            /\ cleanup' = [cleanup EXCEPT !.todo = @ \ {d}]
         \/ /\ Fails("clear", d.pod, d.tag.name, {d.tag.keyspace})
            /\ cleanup' = [cleanup EXCEPT !.todo = @ \ {d}, !.failed = @ \cup {d.pod}]
    /\ UNCHANGED <<now, create, completed, cleaned>>

PodCleanedUp ==
    /\ cleanup.phase = "delete" /\ cleanup.todo = {}
    /\ cleanup' = [cleanup EXCEPT !.phase = "pods"]
    /\ UNCHANGED <<now, snaps, pending, create, completed, cleaned, budget>>

CleanupDone ==
    /\ cleanup.phase = "pods" /\ cleanup.pods = <<>>
    /\ IF cleanup.failed = {}
       THEN cleanup' = NotRunning /\ cleaned' = cleanup.name
       ELSE cleanup' = Fresh("start") /\ UNCHANGED cleaned
    /\ UNCHANGED <<now, snaps, pending, create, completed, budget>>

(* The tool is killed, or cannot list the pods, and is started again.      *)
Killed ==
    /\ Spend("errors")
    /\ \/ /\ create.phase # "off"
          /\ create' = Fresh("start") /\ UNCHANGED cleanup
       \/ /\ cleanup.phase # "off"
          /\ cleanup' = Fresh("start") /\ UNCHANGED create
    /\ UNCHANGED <<now, snaps, pending, completed, cleaned>>

-----------------------------------------------------------------------------
Create == ListPodsToCreate \/ (\E p \in Pods : CreateSnapshot(p)) \/ CreateDone

Cleanup ==
    \/ ListPodsToCleanUp \/ (\E p \in Pods : FindSnapshotsToDelete(p))
    \/ DeleteSnapshot \/ PodCleanedUp \/ CleanupDone

Next ==
    \/ CreateScheduled \/ Create \/ CleanupScheduled \/ Cleanup
    \/ Killed \/ CommandGoesOn \/ CommandLost \/ Tick

(* Time passes and the tool runs; nothing else is sure to happen. *)
Fairness == WF_vars(Tick) /\ WF_vars(Create) /\ WF_vars(Cleanup)

Spec == Init /\ [][Next]_vars /\ Fairness

-----------------------------------------------------------------------------
(* Properties. *)

Names == {Foreign} \cup 0..MaxTime
Run(phases) ==
    [phase : phases, name : Names \cup -RetentionPeriod..MaxTime, pods : Seq(Pods),
     failed : SUBSET Pods, todo : SUBSET [tag : [name : 0..MaxTime, keyspace : AllKeyspaces], pod : Pods]]

(* Every variable has its type, and what a cleanup is about to delete, or  *)
(* has left a command to delete, is named by a number.                     *)
TypeOK ==
    /\ now \in 0..MaxTime
    /\ snaps \in [Pods -> SUBSET [name : Names, keyspace : AllKeyspaces, late : Names]]
    /\ pending \subseteq [verb : {"snapshot", "clear"}, pod : Pods, name : 0..MaxTime, keyspace : AllKeyspaces]
    /\ create \in Run({"off", "start", "pods"}) /\ create.todo = {}
    /\ cleanup \in Run({"off", "start", "pods", "delete"})
    /\ completed \subseteq 0..MaxTime /\ cleaned \in Names \cup -RetentionPeriod..MaxTime
    /\ budget \in [creations : 0..MaxCreations, cleanups : 0..MaxCleanups, errors : 0..MaxErrors]

(* A creation that was reported as successful can be restored, on every    *)
(* pod and for every keyspace asked for, until the retention period is     *)
(* over, whatever cleanups run and whatever commands are delayed.          *)
BackupKept ==
    \A name \in completed :
      name >= now - RetentionPeriod => \A p \in Pods, k \in Wanted : Has(p, name, k)

(* After a cleanup that was reported as successful no pod has a snapshot   *)
(* that was outside of the retention period when the cleanup started,      *)
(* unless it was put there since: by a creation that was given up, or that *)
(* takes longer than the retention period.                                 *)
CleanupCleans ==
    \A p \in Pods : \A s \in snaps[p] :
      s.name # Foreign /\ s.name < cleaned => s.late >= cleaned

(* What is removed is outside of the retention period, and a snapshot      *)
(* whose name is not a number is never removed.  (One whose name is an old *)
(* number goes, even if a user gave it: filter.go:16-22.)                  *)
OnlyOldRemoved ==
    [][\A p \in Pods : \A s \in snaps[p] \ snaps'[p] :
         s.name # Foreign /\ s.name < now - RetentionPeriod]_vars

(* A failed or killed cleanup is repeated until it succeeds, as long as    *)
(* its failures, of which there are at most MaxErrors, stay below the      *)
(* backoff limit of the job.  Snapshots with names that the tool did not   *)
(* give do not keep it from succeeding.                                    *)
CleanupEnds == cleanup.phase = "start" ~> cleanup.phase = "off"
=============================================================================
